-------------------------- MODULE MembershipProofs --------------------------
(***************************************************************************)
(* What is proved of the sites that join and leave.  In every network, for *)
(* every plan: types (MemberTyped).  While the users only join             *)
(* (OnlyJoins): the members stay connected (JoinsConnected), they count    *)
(* their neighbours right (JoinsCounted, AskOnce), and if all ask the same *)
(* peer the directories agree (OnePeerAgrees, OnePeer).                    *)
(*                                                                         *)
(* The argument for the directories: the peer writes the news of its       *)
(* newcomers in the order of its own directory, the links keep that order, *)
(* a first site takes each name from the first neighbour that passes it    *)
(* on, and a newcomer gets a list and then the names that follow it.       *)
(***************************************************************************)
EXTENDS Membership, TLAPS, SequenceTheorems, FiniteSetTheorems,
        WellFoundedInduction

-----------------------------------------------------------------------------
(* Sequences, and what a step does to the links. *)

Net(P) == [Site -> [Site -> Seq(P)]]

LEMMA NoSiteFacts ==
    /\ NoSite \notin Site /\ BROADCAST \notin Site /\ BROADCAST_NEIGHBORS \notin Site
    /\ NoSite # BROADCAST /\ NoSite # BROADCAST_NEIGHBORS
    /\ BROADCAST # BROADCAST_NEIGHBORS
  BY SiteAssumption DEF NoSite, BROADCAST, BROADCAST_NEIGHBORS

(* Of the links from t to a set of sites, one is a shortest. *)
LEMMA ShortestLink ==
    ASSUME NEW P, link \in Net(P), NEW t \in Site, NEW S \in SUBSET Site, S # {}
    PROVE  \E r \in S : \A o \in S : Len(link[t][r]) <= Len(link[t][o])
  <1> DEFINE Shorter(r) == {o \in S : Len(link[t][o]) < Len(link[t][r])}
             All == {Shorter(r) : r \in S}
  <1>1. \A r \in Site : Len(link[t][r]) \in Nat
    BY DEF Net
  <1>2. All # {} /\ All \subseteq FiniteSubsetsOf(Site)
    <2>1. All \subseteq SUBSET Site /\ All # {}
      OBVIOUS
    <2>2. \A T \in SUBSET Site : IsFiniteSet(T)
      BY SiteFinite, FS_Subset
    <2> QED BY <2>1, <2>2 DEF FiniteSubsetsOf
  <1>3. PICK B \in All : \A C \in All : <<C, B>> \notin StrictSubsetOrdering(Site)
    <2>1. IsWellFoundedOn(StrictSubsetOrdering(Site), FiniteSubsetsOf(Site))
      BY SiteFinite, FS_StrictSubsetOrderingWellFounded
    <2> QED BY <1>2, <2>1, WFMin
  <1>4. PICK r \in S : B = Shorter(r)
    OBVIOUS
  <1>5. ASSUME NEW o \in S, ~(Len(link[t][r]) <= Len(link[t][o])) PROVE FALSE
    <2>1. o \in Shorter(r) /\ o \notin Shorter(o)
      BY <1>1, <1>5
    <2>2. Shorter(o) \subseteq Shorter(r)
      BY <1>1, <2>1
    <2>3. Shorter(o) # Shorter(r) /\ Shorter(o) \in SUBSET Site
      BY <2>1
    <2>4. <<Shorter(o), B>> \in StrictSubsetOrdering(Site)
      BY <1>4, <2>2, <2>3 DEF StrictSubsetOrdering
    <2> QED BY <1>3, <2>4
  <1> QED BY <1>5

LEMMA WrittenIn ==
    ASSUME NEW P, NEW links \in Net(P), NEW s \in Site, NEW readers, NEW q \in Seq(P)
    PROVE  /\ Written(links, s, readers, q) \in Net(P)
           /\ \A u, v \in Site :
                 Written(links, s, readers, q)[u][v] =
                    IF u = s /\ v \in readers THEN links[u][v] \o q ELSE links[u][v]
  <1>1. \A u, v \in Site : links[u][v] \in Seq(P) /\ links[u][v] \o q \in Seq(P)
    BY DEF Net
  <1> QED BY <1>1 DEF Written, Net

LEMMA PoppedIn ==
    ASSUME NEW P, NEW links \in Net(P), NEW s \in Site, NEW t \in Site,
           links[s][t] # <<>>
    PROVE  /\ [links EXCEPT ![s][t] = Tail(@)] \in Net(P)
           /\ \A u, v \in Site :
                 [links EXCEPT ![s][t] = Tail(@)][u][v] =
                    IF u = s /\ v = t THEN Tail(links[u][v]) ELSE links[u][v]
           /\ Head(links[s][t]) \in P /\ Head(links[s][t]) = links[s][t][1]
           /\ Tail(links[s][t]) \in Seq(P)
  <1>1. links[s][t] \in Seq(P)
    BY DEF Net
  <1>2. Tail(links[s][t]) \in Seq(P) /\ Head(links[s][t]) \in P
        /\ Head(links[s][t]) = links[s][t][1]
    BY <1>1
  <1> QED BY <1>2 DEF Net

-----------------------------------------------------------------------------
(* Types.                                                                  *)

(* Who may say what: only a newcomer asks to join, and a first site; only  *)
(* a leaver says that it leaves, and it alone is answered as such.         *)
Sound(n) ==
    /\ n.sender \in Site
    /\ n.body.action = "ASKING_TO_JOIN" =>
          n.sender \in Newcomer /\ n.dest \in Site \ Newcomer
    /\ n.body.action = "INIT_FIND_NEIGHBORS" /\ n.body.isLeaver =>
          n.sender \in plan.leavers
    /\ n.body.action = "I_M_NEIGHBOR" /\ n.body.isLeaver => n.dest \in plan.leavers
    /\ n.body.action = "RECEIVE_NODE_LEAVING" => n.sender \in plan.leavers
    /\ n.body.action = "PARENT_TEE_UPDATE" => n.dest \in plan.leavers
Good == {n \in Message(MemberBody) : Sound(n)}

(* The letters that t may write. *)
Dest == Site \cup {NoSite, BROADCAST, BROADCAST_NEIGHBORS}
Sends(t) ==
    {l \in [dest : Dest, body : MemberBody] :
        Sound([sender |-> t, dest |-> l.dest, body |-> l.body])}

(* The inductive invariant: the links hold sound messages, and only a      *)
(* leaver is on its own list of leavers; nobody waits at a newcomer.       *)
Typing ==
    /\ MemberTypeOK
    /\ link \in Net(Good)
    /\ \A t \in Site : departing[t] # 0 => t \in plan.leavers
    /\ \A n \in Newcomer : waiting[n] = <<>>

LEMMA BodyFacts ==
    ASSUME NEW b \in MemberBody
    PROVE  /\ b.action \in {"WAVE_ELECTION", "ECHO_ELECTION", "ELECTED"} =>
                 b.elu \in Site /\ b.parent \in Site \cup {NoSite}
           /\ b.action = "UPDATE_LISTE" => b.list \in Directory
           /\ b.action = "ADD_USER_CONFIRM" => b.who \in Newcomer
           /\ b.action \in {"INIT_FIND_NEIGHBORS", "I_M_NEIGHBOR"} => b.isLeaver \in BOOLEAN
           /\ b.action = "RECEIVE_NODE_LEAVING" => b.children \subseteq Site
  <1>1. CASE b \in ElectionBody
    BY <1>1 DEF ElectionBody
  <1>2. CASE b \in [action : {"UPDATE_LISTE"}, list : Directory]
    BY <1>2
  <1>3. CASE b \in [action : {"ADD_USER_CONFIRM"}, who : Newcomer]
    BY <1>3
  <1>4. CASE b \in [action : {"INIT_FIND_NEIGHBORS", "I_M_NEIGHBOR"}, isLeaver : BOOLEAN]
    BY <1>4
  <1>5. CASE b \in [action : {"RECEIVE_NODE_LEAVING"}, children : SUBSET Site]
    BY <1>5
  <1>6. CASE b \in [action : {"ASKING_TO_JOIN", "RELEASE_ELECTION",
                              "START_NEIGHBORS_SEARCH", "PARENT_TEE_UPDATE",
                              "PARENT_TEE_UPDATE_ACK"}]
    BY <1>6
  <1> QED BY <1>1, <1>2, <1>3, <1>4, <1>5, <1>6 DEF MemberBody

(* The letters of the handlers. *)
LEMMA ElectionLetters ==
    ASSUME NEW t \in Site, NEW elu \in Site, NEW p \in Site \cup {NoSite}
    PROVE  /\ BuildElectionWave(elu, p) \in Sends(t)
           /\ BuildElectionEcho(elu, p) \in Sends(t)
           /\ BuildElected(elu) \in Sends(t)
  <1>1. ASSUME NEW a \in {"WAVE_ELECTION", "ECHO_ELECTION", "ELECTED"},
               NEW q \in Site \cup {NoSite}, NEW d \in Dest
        PROVE  Letter(d, [action |-> a, elu |-> elu, parent |-> q]) \in Sends(t)
    <2>1. [action |-> a, elu |-> elu, parent |-> q] \in MemberBody
      BY DEF MemberBody, ElectionBody
    <2> QED BY <2>1 DEF Letter, Sends, Sound
  <1>2. BROADCAST \in Dest /\ BROADCAST_NEIGHBORS \in Dest /\ p \in Dest
    BY DEF Dest
  <1> QED BY <1>1, <1>2 DEF BuildElectionWave, BuildElectionEcho, BuildElected

LEMMA PlainLetters ==
    ASSUME NEW t \in Site, NEW d \in Dest
    PROVE  /\ ReleaseElection \in Sends(t)
           /\ Letter(BROADCAST, Plain("START_NEIGHBORS_SEARCH")) \in Sends(t)
           /\ Letter(d, Plain("PARENT_TEE_UPDATE_ACK")) \in Sends(t)
           /\ d \in plan.leavers => Letter(d, Plain("PARENT_TEE_UPDATE")) \in Sends(t)
           /\ t \in Newcomer /\ d \in Site \ Newcomer => AskingToJoin(d) \in Sends(t)
  <1>1. \A a \in {"ASKING_TO_JOIN", "RELEASE_ELECTION", "START_NEIGHBORS_SEARCH",
                  "PARENT_TEE_UPDATE", "PARENT_TEE_UPDATE_ACK"} : Plain(a) \in MemberBody
    BY DEF MemberBody, Plain
  <1>2. BROADCAST \in Dest /\ BROADCAST_NEIGHBORS \in Dest
    BY DEF Dest
  <1> QED BY <1>1, <1>2 DEF Letter, Plain, Sends, Sound, ReleaseElection, AskingToJoin

LEMMA JoinLetters ==
    ASSUME NEW t \in Site, NEW n \in Newcomer, NEW list \in Directory
    PROVE  /\ UpdateListe(n, list) \in Sends(t)
           /\ AddUserConfirm(n) \in Sends(t)
  <1>1. [action |-> "UPDATE_LISTE", list |-> list] \in MemberBody
    BY DEF MemberBody
  <1>2. [action |-> "ADD_USER_CONFIRM", who |-> n] \in MemberBody
    BY DEF MemberBody
  <1>3. BROADCAST \in Dest /\ n \in Dest
    BY NewcomerAssumption DEF Dest
  <1> QED BY <1>1, <1>2, <1>3 DEF Letter, Sends, Sound, UpdateListe, AddUserConfirm

LEMMA LeaveLetters ==
    ASSUME NEW t \in Site, NEW d \in Dest, NEW isLeaver \in BOOLEAN,
           NEW children \in SUBSET Site
    PROVE  /\ (isLeaver => t \in plan.leavers) => InitFindNeighbors(isLeaver) \in Sends(t)
           /\ (isLeaver => d \in plan.leavers) =>
                 Letter(d, [action |-> "I_M_NEIGHBOR", isLeaver |-> isLeaver]) \in Sends(t)
           /\ t \in plan.leavers =>
                 Letter(BROADCAST, [action |-> "RECEIVE_NODE_LEAVING",
                                    children |-> children]) \in Sends(t)
  <1>1. \A a \in {"INIT_FIND_NEIGHBORS", "I_M_NEIGHBOR"} :
           [action |-> a, isLeaver |-> isLeaver] \in MemberBody
    BY DEF MemberBody
  <1>2. [action |-> "RECEIVE_NODE_LEAVING", children |-> children] \in MemberBody
    BY DEF MemberBody
  <1>3. BROADCAST \in Dest /\ BROADCAST_NEIGHBORS \in Dest
    BY DEF Dest
  <1>4. (isLeaver => t \in plan.leavers) => InitFindNeighbors(isLeaver) \in Sends(t)
    BY <1>1, <1>3 DEF Letter, Sends, Sound, InitFindNeighbors
  <1>5. (isLeaver => d \in plan.leavers) =>
           Letter(d, [action |-> "I_M_NEIGHBOR", isLeaver |-> isLeaver]) \in Sends(t)
    BY <1>1 DEF Letter, Sends, Sound
  <1>6. t \in plan.leavers =>
           Letter(BROADCAST, [action |-> "RECEIVE_NODE_LEAVING",
                              children |-> children]) \in Sends(t)
    BY <1>2, <1>3 DEF Letter, Sends, Sound
  <1> QED BY <1>4, <1>5, <1>6

(* Letters become sound messages. *)
LEMMA StampedIn ==
    ASSUME NEW t \in Site, sent[t] \in Nat, NEW letters \in Seq(Sends(t))
    PROVE  Stamped(t, letters) \in Seq(Good)
  <1>1. Len(letters) \in Nat /\ \A i \in 1 .. Len(letters) : letters[i] \in Sends(t)
    BY ElementOfSeq, LenProperties
  <1>2. ASSUME NEW i \in 1 .. Len(letters)
        PROVE  [id |-> <<t, sent[t] + i>>, sender |-> t,
                dest |-> letters[i].dest, body |-> letters[i].body] \in Good
    <2>1. letters[i] \in Sends(t)
      BY <1>1
    <2>2. <<t, sent[t] + i>> \in Ids
      BY <1>1 DEF Ids
    <2>3. letters[i].dest \in Dest /\ letters[i].body \in MemberBody
      BY <2>1 DEF Sends
    <2>4. Sound([sender |-> t, dest |-> letters[i].dest, body |-> letters[i].body])
      BY <2>1 DEF Sends
    <2>5. [id |-> <<t, sent[t] + i>>, sender |-> t, dest |-> letters[i].dest,
           body |-> letters[i].body] \in Message(MemberBody)
      BY <2>2, <2>3 DEF Message, Dest
    <2>6. Sound([id |-> <<t, sent[t] + i>>, sender |-> t, dest |-> letters[i].dest,
                 body |-> letters[i].body])
      BY <2>4 DEF Sound
    <2> QED BY <2>5, <2>6 DEF Good
  <1> QED BY <1>1, <1>2 DEF Stamped

LinksTyping ==
    /\ link \in Net(Good) /\ seen \in [Site -> SUBSET Ids] /\ sent \in [Site -> Nat]

LEMMA FirstGood ==
    ASSUME Typing, NEW s \in Site, NEW t \in Site, link[s][t] # <<>>
    PROVE  /\ FirstOf(s, t) \in Good /\ FirstOf(s, t).sender \in Site
           /\ FirstOf(s, t).id \in Ids
           /\ FirstOf(s, t).dest \in Dest /\ FirstOf(s, t).body \in MemberBody
  <1>1. FirstOf(s, t) \in Good
    BY PoppedIn DEF Typing, FirstOf
  <1>2. FirstOf(s, t) \in Message(MemberBody) /\ Sound(FirstOf(s, t))
    BY <1>1 DEF Good
  <1> QED BY <1>1, <1>2 DEF Message, Dest, Sound

(* t takes the first message of s, and writes it again or not.             *)
LEMMA TakeGood ==
    ASSUME Typing, plan' = plan, NEW s \in Site, NEW t \in Site, link[s][t] # <<>>,
           NEW links \in Net(Good), links[s][t] = link[s][t], NEW readers,
           NEW letters \in Seq(Sends(t)),
           TakeAmong(links, s, t, readers, letters, <<>>)
    PROVE  LinksTyping'
  <1> DEFINE m == FirstOf(s, t)
             again == IF IsNew(t, m) /\ Forwards(t, m) THEN <<m>> ELSE <<>>
             q == again \o Stamped(t, letters) \o <<>>
             base == [links EXCEPT ![s][t] = Tail(@)]
  <1>1. m \in Good /\ m.id \in Ids /\ seen \in [Site -> SUBSET Ids] /\ sent \in [Site -> Nat]
    BY FirstGood DEF Typing, MemberTypeOK, LinksTypeOK
  <1>2. again \in Seq(Good)
    BY <1>1
  <1>3. Stamped(t, letters) \in Seq(Good) /\ Len(letters) \in Nat
    BY <1>1, StampedIn, LenProperties
  <1>4. q \in Seq(Good)
    <2> HIDE DEF again
    <2> QED BY <1>2, <1>3
  <1>5. base \in Net(Good)
    BY PoppedIn
  <1>6. /\ link' = Written(base, t, readers, q)
        /\ seen' = [seen EXCEPT ![t] = @ \cup {Id(m)}]
        /\ sent' = [sent EXCEPT ![t] = @ + Len(letters)]
    BY DEF TakeAmong
  <1>7. link' \in Net(Good)
    <2> HIDE DEF base, q
    <2> QED BY <1>4, <1>5, <1>6, WrittenIn
  <1>8. Good' = Good
    BY DEF Good, Sound
  <1>9. seen' \in [Site -> SUBSET Ids] /\ sent' \in [Site -> Nat]
    BY <1>1, <1>3, <1>6 DEF Id
  <1> QED BY <1>7, <1>8, <1>9 DEF LinksTyping, Net

LEMMA TakeToGood ==
    ASSUME Typing, plan' = plan, NEW s \in Site, NEW t \in Site, link[s][t] # <<>>,
           NEW readers, NEW letters \in Seq(Sends(t)), TakeTo(s, t, readers, letters)
    PROVE  LinksTyping'
  BY TakeGood DEF TakeTo, TakeWith, Typing

LEMMA OriginateGood ==
    ASSUME Typing, plan' = plan, NEW s \in Site, NEW readers,
           NEW letters \in Seq(Sends(s)), OriginateTo(s, readers, letters)
    PROVE  LinksTyping'
  <1>1. seen \in [Site -> SUBSET Ids] /\ sent \in [Site -> Nat] /\ link \in Net(Good)
    BY DEF Typing, MemberTypeOK, LinksTypeOK
  <1>2. Stamped(s, letters) \in Seq(Good) /\ Len(letters) \in Nat
    BY <1>1, StampedIn, LenProperties
  <1>3. link' \in Net(Good)
    BY <1>1, <1>2, WrittenIn DEF OriginateTo
  <1>4. Good' = Good
    BY DEF Good, Sound
  <1>5. seen' \in [Site -> SUBSET Ids] /\ sent' \in [Site -> Nat]
    BY <1>1, <1>2 DEF OriginateTo
  <1> QED BY <1>3, <1>4, <1>5 DEF LinksTyping, Net

(* The typing of the links and that of all the rest. *)
LEMMA LinksTyped ==
    ASSUME LinksTyping
    PROVE  LinksTypeOK(MemberBody)
  <1>1. Good \subseteq Message(MemberBody)
    BY DEF Good
  <1>2. Seq(Good) \subseteq Seq(Message(MemberBody))
    BY <1>1, SeqMonotonic
  <1> QED BY <1>2 DEF LinksTyping, LinksTypeOK, Net

RestTyping ==
    /\ nb \in [Site -> Int]
    /\ tee \in [Site -> SUBSET Site]
    /\ election \in [Site -> [elu : Site \cup {NoSite},
                              parent : Site \cup {NoSite}, pending : Int]]
    /\ electedID \in [Site -> Site \cup {NoSite}]
    /\ goal \in [Site -> Goal]
    /\ clicksLeft \in [Site -> Nat]
    /\ plan \in Plan
    /\ directory \in [Site -> Directory]
    /\ waiting \in [Site -> Seq(Newcomer)]
    /\ departing \in [Site -> Int]
    /\ known \in [Site -> SUBSET Site]
    /\ section \in [Site -> Nat]
    /\ answered \in [Site -> Nat]
    /\ asksLeft \in [Newcomer -> Nat]
    /\ stays \subseteq plan.leavers /\ left \subseteq plan.leavers
    /\ \A s \in Site : section[s] > 0 \/ goal[s] = "LEAVING" => s \in plan.leavers
    /\ \A t \in Site : departing[t] # 0 => t \in plan.leavers
    /\ \A n \in Newcomer : waiting[n] = <<>>

LEMMA TypingParts ==
    Typing <=> LinksTyping /\ RestTyping /\ apart \in BOOLEAN
  <1>1. ASSUME Typing PROVE LinksTyping /\ RestTyping /\ apart \in BOOLEAN
    BY <1>1 DEF Typing, MemberTypeOK, LinksTypeOK, LinksTyping, RestTyping
  <1>2. ASSUME LinksTyping, RestTyping, apart \in BOOLEAN PROVE Typing
    <2>1. LinksTypeOK(MemberBody)
      BY <1>2, LinksTyped
    <2> QED BY <1>2, <2>1 DEF Typing, MemberTypeOK, LinksTyping, RestTyping
  <1> QED BY <1>1, <1>2

(* A shorter list of letters. *)
LEMMA OneLetter ==
    ASSUME NEW P, NEW x \in P
    PROVE  <<x>> \in Seq(P) /\ <<>> \in Seq(P)
  OBVIOUS

-----------------------------------------------------------------------------
(* The steps of the election. *)

LEMMA ElectionStepTyped ==
    ASSUME Typing, plan' = plan, NEW s \in Site, NEW t \in Site, link[s][t] # <<>>,
           ElectionStep(s, t)
    PROVE  LinksTyping' /\ RestTyping'
  <1> DEFINE m == FirstOf(s, t)
             elu == m.body.elu
  <1>0. /\ m \in Good /\ m.sender \in Site /\ m.body \in MemberBody
        /\ RestTyping
        /\ NoSite \notin Site
        /\ UNCHANGED <<joinVars, leaveVars>>
    BY FirstGood, TypingParts, NoSiteFacts DEF ElectionStep
  <1>1. <<>> \in Seq(Sends(t))
    OBVIOUS
  <1>2. ASSUME m.body.action \in {"WAVE_ELECTION", "ECHO_ELECTION", "ELECTED"}
        PROVE  elu \in Site
    BY <1>0, <1>2, BodyFacts
  <1>3. election[t].elu \in Site \cup {NoSite} /\ election[t].parent \in Site \cup {NoSite}
        /\ election[t].pending \in Int /\ nb[t] \in Int
    BY <1>0 DEF RestTyping
  <1>4. ASSUME NEW e \in [elu : Site \cup {NoSite}, parent : Site \cup {NoSite}, pending : Int],
               election' = [election EXCEPT ![t] = e], UNCHANGED <<goal, nb, tee, clicksLeft>>,
               electedID' \in [Site -> Site \cup {NoSite}]
        PROVE  RestTyping'
    BY <1>0, <1>4 DEF RestTyping, joinVars, leaveVars
  <1>5. ASSUME UNCHANGED <<electionVars, nb, tee, clicksLeft>> PROVE RestTyping'
    BY <1>0, <1>5 DEF RestTyping, joinVars, leaveVars, electionVars
  <1>6. ASSUME NEW x, NEW p, x = elu, elu \in Site, p \in Site \cup {NoSite}
        PROVE  /\ <<BuildElectionWave(x, p)>> \in Seq(Sends(t))
               /\ <<BuildElectionEcho(x, p)>> \in Seq(Sends(t))
    BY <1>6, ElectionLetters
  <1>7. electedID \in [Site -> Site \cup {NoSite}]
    BY <1>0 DEF RestTyping
  <1>8. ASSUME election' = [election EXCEPT ![t].pending = @ - 1]
        PROVE  election' = [election EXCEPT ![t] = [election[t] EXCEPT !.pending = @ - 1]]
               /\ [election[t] EXCEPT !.pending = @ - 1] \in
                     [elu : Site \cup {NoSite}, parent : Site \cup {NoSite}, pending : Int]
    <2>1. election \in [Site -> [elu : Site \cup {NoSite}, parent : Site \cup {NoSite},
                                  pending : Int]]
      BY <1>0 DEF RestTyping
    <2>2. election[t] \in [elu : Site \cup {NoSite}, parent : Site \cup {NoSite}, pending : Int]
      BY <2>1
    <2>3. [election[t] EXCEPT !.pending = @ - 1] \in
             [elu : Site \cup {NoSite}, parent : Site \cup {NoSite}, pending : Int]
      BY <2>2
    <2>4. election' = [election EXCEPT ![t] = [election[t] EXCEPT !.pending = @ - 1]]
      BY <1>8
    <2> QED BY <2>3, <2>4
  <1>a. CASE AdoptWave(s, t)
    <2>1. elu \in Site /\ m.body.action = "WAVE_ELECTION"
      BY <1>a, <1>2 DEF AdoptWave, Gets
    <2>2. <<IF nb[t] = 1 THEN BuildElectionEcho(elu, m.sender)
            ELSE BuildElectionWave(elu, m.sender)>> \in Seq(Sends(t))
      BY <2>1, <1>0, <1>6
    <2>3. LinksTyping'
      BY <1>a, <2>2, TakeToGood DEF AdoptWave
    <2>4. ElectionState(elu, m.sender, nb[t] - 1) \in
             [elu : Site \cup {NoSite}, parent : Site \cup {NoSite}, pending : Int]
      BY <2>1, <1>0, <1>3 DEF ElectionState
    <2>5. /\ election' = [election EXCEPT ![t] = ElectionState(elu, m.sender, nb[t] - 1)]
          /\ UNCHANGED <<electedID, goal, nb, tee, clicksLeft>>
      BY <1>a DEF AdoptWave
    <2> QED BY <1>4, <1>7, <2>3, <2>4, <2>5
  <1>b. CASE IgnoreWave(s, t)
    BY <1>b, <1>1, <1>5, TakeToGood DEF IgnoreWave
  <1>c. CASE CountWave(s, t)
    <2>1. /\ elu \in Site /\ m.body.action = "WAVE_ELECTION"
          /\ election[t].elu = elu
      BY <1>c, <1>2 DEF CountWave, Gets
    <2>2. (IF election[t].pending = 1
           THEN <<BuildElectionEcho(election[t].elu, election[t].parent)>> ELSE <<>>)
             \in Seq(Sends(t))
      BY <2>1, <1>1, <1>3, <1>6
    <2>3. LinksTyping'
      BY <1>c, <2>2, TakeToGood DEF CountWave
    <2>4. RestTyping'
      BY <1>c, <1>4, <1>7, <1>8 DEF CountWave
    <2> QED BY <2>3, <2>4
  <1>d. CASE IgnoreEcho(s, t)
    BY <1>d, <1>1, <1>5, TakeToGood DEF IgnoreEcho
  <1>e. CASE WaitForMoreEchoes(s, t)
    <2>1. LinksTyping'
      BY <1>e, <1>1, TakeToGood DEF WaitForMoreEchoes
    <2>2. RestTyping'
      BY <1>e, <1>4, <1>7, <1>8 DEF WaitForMoreEchoes, CountEcho
    <2> QED BY <2>1, <2>2
  <1>f. CASE PassEchoToParent(s, t)
    <2>1. elu \in Site /\ election[t].elu = elu
      BY <1>f, <1>2 DEF PassEchoToParent, CountEcho, Gets, Answers
    <2>2. <<BuildElectionEcho(election[t].elu, election[t].parent)>> \in Seq(Sends(t))
      BY <2>1, <1>3, <1>6
    <2>3. LinksTyping'
      BY <1>f, <2>2, TakeToGood DEF PassEchoToParent
    <2>4. RestTyping'
      BY <1>f, <1>4, <1>7, <1>8 DEF PassEchoToParent, CountEcho
    <2> QED BY <2>3, <2>4
  <1>g. CASE HandleElected(s, t)
    <2>1. LinksTyping'
      BY <1>g, <1>1, TakeToGood DEF HandleElected
    <2>2. None \in [elu : Site \cup {NoSite}, parent : Site \cup {NoSite}, pending : Int]
      BY DEF None
    <2>3. /\ election' = [election EXCEPT ![t] = None]
          /\ electedID' = [electedID EXCEPT ![t] = m.sender]
          /\ UNCHANGED <<goal, nb, tee, clicksLeft>>
      BY <1>g DEF HandleElected
    <2>4. electedID' \in [Site -> Site \cup {NoSite}]
      BY <2>3, <1>0, <1>7
    <2>5. RestTyping'
      BY <1>4, <2>2, <2>3, <2>4
    <2> QED BY <2>1, <2>5
  <1>h. CASE Pass(s, t)
    BY <1>h, <1>1, <1>5, TakeToGood DEF Pass, RelayTo
  <1> QED BY <1>a, <1>b, <1>c, <1>d, <1>e, <1>f, <1>g, <1>h
          DEF ElectionStep, WaveStep, EchoStep

-----------------------------------------------------------------------------
(* Directories. *)

LEMMA DirectoryJoined ==
    ASSUME NEW d \in Directory, NEW q \in Seq(Newcomer)
    PROVE  d \o q \in Directory
  <1>1. d \in Seq(Site) /\ q \in Seq(Site)
    <2>1. Seq(Newcomer) \subseteq Seq(Site)
      BY NewcomerAssumption, SeqMonotonic
    <2> QED BY <2>1 DEF Directory
  <1>2. /\ Len(d) \in Nat /\ Len(q) \in Nat
        /\ d \o q \in Seq(Site) /\ DOMAIN (d \o q) = 1 .. Len(d) + Len(q)
        /\ DOMAIN d = 1 .. Len(d)
        /\ \A i \in 1 .. Len(d) + Len(q) :
              (d \o q)[i] = IF i <= Len(d) THEN d[i] ELSE q[i - Len(d)]
    BY <1>1
  <1>3. \A i \in 1 .. Len(q) : q[i] \in Newcomer
    BY ElementOfSeq
  <1>4. ASSUME NEW i \in DOMAIN (d \o q), (d \o q)[i] \notin Newcomer
        PROVE  i \in DOMAIN d /\ (d \o q)[i] = d[i]
    <2>1. i \in 1 .. Len(d) + Len(q)
      BY <1>2
    <2>2. CASE i <= Len(d)
      BY <1>2, <2>1, <2>2
    <2>3. CASE ~(i <= Len(d))
      <3>1. (d \o q)[i] = q[i - Len(d)] /\ i - Len(d) \in 1 .. Len(q)
        BY <1>2, <2>1, <2>3
      <3> QED BY <1>3, <1>4, <3>1
    <2> QED BY <2>2, <2>3
  <1>5. ASSUME NEW i \in DOMAIN (d \o q), NEW j \in DOMAIN (d \o q),
               (d \o q)[i] = (d \o q)[j], (d \o q)[i] \notin Newcomer
        PROVE  i = j
    BY <1>4, <1>5 DEF Directory
  <1> HIDE DEF Directory
  <1> QED BY <1>2, <1>5 DEF Directory

LEMMA DirectoryCut ==
    ASSUME NEW d \in Directory, NEW old \in Site \ Newcomer, old \in ToSet(d)
    PROVE  RemoveAt(d, CHOOSE k \in DOMAIN d : d[k] = old) \in Directory
  <1> DEFINE k == CHOOSE i \in DOMAIN d : d[i] = old
  <1>1. d \in Seq(Site) /\ Len(d) \in Nat /\ DOMAIN d = 1 .. Len(d)
    BY DEF Directory
  <1>2. k \in 1 .. Len(d)
    BY <1>1 DEF ToSet
  <1> HIDE DEF k
  <1> DEFINE a == SubSeq(d, 1, k - 1)
             b == SubSeq(d, k + 1, Len(d))
  <1>3. /\ a \in Seq(Site) /\ Len(a) = k - 1 /\ \A i \in 1 .. k - 1 : a[i] = d[i]
        /\ b \in Seq(Site) /\ Len(b) = Len(d) - k /\ \A i \in 1 .. Len(d) - k : b[i] = d[k + i]
    <2>1. /\ \A i \in 1 .. k - 1 : d[i] \in Site
          /\ \A i \in k + 1 .. Len(d) : d[i] \in Site
          /\ 1 \in Int /\ k - 1 \in Int /\ k + 1 \in Int /\ Len(d) \in Int
      BY <1>1, <1>2
    <2>2. /\ a \in Seq(Site) /\ Len(a) = (IF 1 <= k - 1 THEN k - 1 - 1 + 1 ELSE 0)
          /\ \A i \in 1 .. k - 1 - 1 + 1 : a[i] = d[1 + i - 1]
      BY <2>1, SubSeqProperties
    <2>3. /\ b \in Seq(Site)
          /\ Len(b) = (IF k + 1 <= Len(d) THEN Len(d) - (k + 1) + 1 ELSE 0)
          /\ \A i \in 1 .. Len(d) - (k + 1) + 1 : b[i] = d[k + 1 + i - 1]
      BY <2>1, SubSeqProperties
    <2> HIDE DEF a, b
    <2>4. Len(a) = k - 1 /\ Len(b) = Len(d) - k
      <3>1. k \in Int /\ Len(d) \in Int /\ 1 <= k /\ k <= Len(d)
        BY <1>1, <1>2
      <3>2. (IF 1 <= k - 1 THEN k - 1 - 1 + 1 ELSE 0) = k - 1
        BY <3>1
      <3>3. (IF k + 1 <= Len(d) THEN Len(d) - (k + 1) + 1 ELSE 0) = Len(d) - k
        BY <3>1
      <3> QED BY <2>2, <2>3, <3>2, <3>3
    <2>5. \A i \in 1 .. k - 1 : i \in 1 .. k - 1 - 1 + 1 /\ 1 + i - 1 = i
      BY <1>2
    <2>6. \A i \in 1 .. Len(d) - k : i \in 1 .. Len(d) - (k + 1) + 1 /\ k + 1 + i - 1 = k + i
      BY <1>1, <1>2
    <2> QED BY <2>2, <2>3, <2>4, <2>5, <2>6
  <1> HIDE DEF a, b
  <1> DEFINE from(i) == IF i < k THEN i ELSE i + 1
  <1>4. /\ a \o b \in Seq(Site) /\ DOMAIN (a \o b) = 1 .. Len(d) - 1
        /\ \A i \in 1 .. Len(d) - 1 :
              (a \o b)[i] = IF i <= Len(a) THEN a[i] ELSE b[i - Len(a)]
    <2>1. /\ a \o b \in Seq(Site) /\ Len(a \o b) = Len(a) + Len(b)
          /\ \A i \in 1 .. Len(a) + Len(b) :
                (a \o b)[i] = IF i <= Len(a) THEN a[i] ELSE b[i - Len(a)]
      BY <1>3, ConcatProperties
    <2>2. Len(a) + Len(b) = Len(d) - 1
      BY <1>1, <1>2, <1>3
    <2> QED BY <2>1, <2>2, LenProperties
  <1>5. ASSUME NEW i \in 1 .. Len(d) - 1
        PROVE  (a \o b)[i] = d[from(i)] /\ from(i) \in DOMAIN d
    <2>1. CASE i < k
      <3>1. i <= Len(a) /\ i \in 1 .. k - 1
        BY <1>1, <1>2, <1>3, <2>1
      <3>2. (a \o b)[i] = d[i]
        BY <1>3, <1>4, <3>1
      <3> QED BY <1>1, <1>2, <2>1, <3>2
    <2>2. CASE ~(i < k)
      <3>1. i - Len(a) \in 1 .. Len(d) - k /\ ~(i <= Len(a)) /\ k + (i - Len(a)) = i + 1
        BY <1>1, <1>2, <1>3, <2>2
      <3>2. (a \o b)[i] = d[i + 1]
        BY <1>3, <1>4, <3>1
      <3> QED BY <1>1, <1>2, <2>2, <3>2
    <2> QED BY <2>1, <2>2
  <1>6. \A i, j \in 1 .. Len(d) - 1 : from(i) = from(j) => i = j
    BY <1>1, <1>2
  <1> HIDE DEF from
  <1>7. ASSUME NEW i \in DOMAIN (a \o b), NEW j \in DOMAIN (a \o b),
               (a \o b)[i] = (a \o b)[j], (a \o b)[i] \notin Newcomer
        PROVE  i = j
    <2>1. i \in 1 .. Len(d) - 1 /\ j \in 1 .. Len(d) - 1
      BY <1>4
    <2>2. d[from(i)] = d[from(j)] /\ d[from(i)] \notin Newcomer
      BY <1>5, <1>7, <2>1
    <2>3. from(i) = from(j)
      BY <1>5, <2>1, <2>2 DEF Directory
    <2> QED BY <1>6, <2>1, <2>3
  <1>8. a \o b \in Directory
    BY <1>4, <1>7 DEF Directory
  <1> QED BY <1>8 DEF a, b, k, RemoveAt

(* The letters of the elected site to the newcomers. *)
LEMMA ListWithTyped ==
    ASSUME Typing, NEW t \in Site, NEW i \in 0 .. Len(waiting[t])
    PROVE  ListWith(t, i) \in Directory
  <1>1. directory[t] \in Directory /\ waiting[t] \in Seq(Newcomer)
    BY DEF Typing, MemberTypeOK
  <1>2. SubSeq(waiting[t], 1, i) \in Seq(Newcomer)
    BY <1>1
  <1> QED BY <1>1, <1>2, DirectoryJoined DEF ListWith

LEMMA WelcomesTyped ==
    ASSUME Typing, NEW t \in Site
    PROVE  Welcomes(t) \in Seq(Sends(t)) /\ Len(Welcomes(t)) = 3 * Len(waiting[t])
  <1>1. waiting[t] \in Seq(Newcomer) /\ Len(waiting[t]) \in Nat
    BY DEF Typing, MemberTypeOK
  <1>2. ASSUME NEW i \in 1 .. Len(waiting[t]), NEW r \in 1 .. 3
        PROVE  Welcome(t, i)[r] \in Sends(t)
    <2>1. waiting[t][i] \in Newcomer /\ ListWith(t, i) \in Directory
      BY <1>1, ListWithTyped
    <2>2. /\ UpdateListe(waiting[t][i], ListWith(t, i)) \in Sends(t)
          /\ AddUserConfirm(waiting[t][i]) \in Sends(t)
      BY <2>1, JoinLetters
    <2>3. ReleaseElection \in Sends(t)
      BY PlainLetters DEF Dest
    <2>4. r = 1 \/ r = 2 \/ r = 3
      OBVIOUS
    <2> QED BY <2>2, <2>3, <2>4 DEF Welcome
  <1>3. ASSUME NEW k \in 1 .. 3 * Len(waiting[t])
        PROVE  (k + 2) \div 3 \in 1 .. Len(waiting[t]) /\ ((k + 2) % 3) + 1 \in 1 .. 3
    BY <1>1
  <1>4. 3 * Len(waiting[t]) \in Nat
    BY <1>1
  <1> QED BY <1>2, <1>3, <1>4 DEF Welcomes

(* What a new reader gets, and a row of links that has got new readers. *)
LEMMA UncopiedTyped ==
    ASSUME NEW P, link \in Net(P), tee \in [Site -> SUBSET Site], NEW t \in Site,
           NEW q \in Uncopied(t)
    PROVE  q \in Seq(P)
  <1>1. CASE Readers(t) = {}
    BY <1>1 DEF Uncopied
  <1>2. CASE Readers(t) # {}
    <2> DEFINE r == CHOOSE r \in Readers(t) :
                       \A o \in Readers(t) : Len(link[t][r]) <= Len(link[t][o])
    <2>1. Readers(t) \in SUBSET Site
      BY DEF Readers
    <2>2. r \in Readers(t)
      BY <1>2, <2>1, ShortestLink
    <2>3. link[t][r] \in Seq(P)
      BY <2>1, <2>2 DEF Net
    <2>4. PICK k \in 1 .. Len(link[t][r]) + 1 : q = SubSeq(link[t][r], k, Len(link[t][r]))
      BY <1>2 DEF Uncopied
    <2> HIDE DEF r
    <2> QED BY <2>3, <2>4
  <1> QED BY <1>1, <1>2

LEMMA LinkedTyped ==
    ASSUME NEW P, link \in Net(P), NEW t \in Site, NEW readers, NEW old,
           \A r \in Site : r \in readers \ tee[t] => old[r] \in Seq(P)
    PROVE  /\ Linked(t, readers, old) \in Net(P)
           /\ \A u, v \in Site :
                 Linked(t, readers, old)[u][v] =
                    IF u = t /\ v \in readers \ tee[t] THEN old[v] ELSE link[u][v]
  BY DEF Linked, Net

-----------------------------------------------------------------------------
(* The steps of those who join. *)

ElectionTyping ==
    /\ election \in [Site -> [elu : Site \cup {NoSite},
                              parent : Site \cup {NoSite}, pending : Int]]
    /\ electedID \in [Site -> Site \cup {NoSite}]
    /\ goal \in [Site -> Goal]
    /\ \A s \in Site : goal[s] = "LEAVING" => s \in plan.leavers

LEMMA StateTyped ==
    ASSUME NEW t \in Site, NEW pending \in Int
    PROVE  /\ ElectionState(t, t, pending) \in
                 [elu : Site \cup {NoSite}, parent : Site \cup {NoSite}, pending : Int]
           /\ None \in [elu : Site \cup {NoSite}, parent : Site \cup {NoSite}, pending : Int]
  BY DEF ElectionState, None

LEMMA PendingTyped ==
    ASSUME RestTyping, NEW t \in Site, election' = [election EXCEPT ![t].pending = @ - 1]
    PROVE  election' \in [Site -> [elu : Site \cup {NoSite},
                                  parent : Site \cup {NoSite}, pending : Int]]
  <1> DEFINE E == [elu : Site \cup {NoSite}, parent : Site \cup {NoSite}, pending : Int]
  <1>1. election \in [Site -> E]
    BY DEF RestTyping
  <1>2. [election[t] EXCEPT !.pending = @ - 1] \in E
    BY <1>1
  <1>3. election' = [election EXCEPT ![t] = [election[t] EXCEPT !.pending = @ - 1]]
    OBVIOUS
  <1> HIDE DEF E
  <1>4. election' \in [Site -> E]
    BY <1>1, <1>2, <1>3
  <1> QED BY <1>4 DEF E

LEMMA StandingTyped ==
    ASSUME RestTyping, plan' = plan, NEW t \in Site,
           NEW g \in Goal, g = "LEAVING" => t \in plan.leavers, Standing(t, g)
    PROVE  ElectionTyping' /\ WaveIf(t) \in Seq(Sends(t))
  <1>1. nb[t] \in Int
    BY DEF RestTyping
  <1>2. WaveIf(t) \in Seq(Sends(t))
    BY ElectionLetters DEF WaveIf
  <1>3. CASE UNCHANGED electionVars
    BY <1>2, <1>3 DEF RestTyping, ElectionTyping, electionVars
  <1>4. CASE Stand(t, g)
    BY <1>1, <1>2, <1>4, StateTyped DEF RestTyping, ElectionTyping, Stand
  <1> QED BY <1>3, <1>4 DEF Standing

LEMMA ReleasedTyped ==
    ASSUME RestTyping, plan' = plan, NEW t \in Site, NEW count \in Int,
           Released(t, count)
    PROVE  ElectionTyping' /\ WaveAgain(t) \in Seq(Sends(t))
  <1>1. WaveAgain(t) \in Seq(Sends(t))
    <2>1. BuildElectionWave(t, t) \in Sends(t)
      BY ElectionLetters
    <2>2. <<BuildElectionWave(t, t)>> \in Seq(Sends(t)) /\ <<>> \in Seq(Sends(t))
      BY <2>1, OneLetter
    <2> QED BY <2>2 DEF WaveAgain
  <1>2. Again(t) \in Goal /\ (Again(t) = "LEAVING" => t \in plan.leavers)
    <2>1. Again(t) \in Goal
      BY DEF Again, Goal
    <2>2. Again(t) = "LEAVING" => departing[t] > 1
      BY DEF Again
    <2>3. departing[t] \in Int /\ (departing[t] # 0 => t \in plan.leavers)
      BY DEF RestTyping
    <2>4. departing[t] > 1 => departing[t] # 0
      BY <2>3
    <2> QED BY <2>1, <2>2, <2>3, <2>4
  <1>3. /\ electedID' = [electedID EXCEPT ![t] = NoSite]
        /\ election' = [election EXCEPT ![t] =
              IF Again(t) = "" THEN None ELSE ElectionState(t, t, count)]
        /\ goal' = [goal EXCEPT ![t] = IF Again(t) = "" THEN @ ELSE Again(t)]
    BY DEF Released
  <1>4. election' \in [Site -> [elu : Site \cup {NoSite},
                                parent : Site \cup {NoSite}, pending : Int]]
    BY <1>3, StateTyped DEF RestTyping
  <1>5. electedID' \in [Site -> Site \cup {NoSite}]
    BY <1>3 DEF RestTyping
  <1>6. goal' \in [Site -> Goal] /\ \A s \in Site : goal'[s] = "LEAVING" => s \in plan'.leavers
    BY <1>2, <1>3 DEF RestTyping
  <1> QED BY <1>1, <1>4, <1>5, <1>6 DEF ElectionTyping

LEMMA ElectionSame ==
    ASSUME RestTyping, plan' = plan, UNCHANGED electionVars
    PROVE  ElectionTyping'
  BY DEF RestTyping, ElectionTyping, electionVars

LEMMA JoinStepTyped ==
    ASSUME Typing, plan' = plan, NEW s \in Site, NEW t \in Site, link[s][t] # <<>>,
           JoinStep(s, t)
    PROVE  LinksTyping' /\ RestTyping'
  <1> DEFINE m == FirstOf(s, t)
  <1>0. /\ m \in Good /\ m.sender \in Site /\ m.body \in MemberBody /\ Sound(m)
        /\ RestTyping /\ LinksTyping
    BY FirstGood, TypingParts DEF Good
  <1>1. <<>> \in Seq(Sends(t))
    OBVIOUS
  <1>2. Newcomer \subseteq Site
    BY NewcomerAssumption
  <1>a. CASE HandlePeerAskingToJoin(s, t)
    <2>1. m.sender \in Newcomer /\ t \in Site \ Newcomer
      <3>1. /\ m.body.action = "ASKING_TO_JOIN"
            /\ m.dest \in {BROADCAST, BROADCAST_NEIGHBORS, t}
        BY <1>a DEF HandlePeerAskingToJoin, Gets, Receives, Processes
      <3> QED BY <1>0, <3>1, NoSiteFacts DEF Sound
    <2>2. ElectionTyping' /\ WaveIf(t) \in Seq(Sends(t))
      BY <1>0, <1>a, StandingTyped DEF HandlePeerAskingToJoin, Goal
    <2>3. LinksTyping'
      BY <1>a, <2>2, TakeToGood DEF HandlePeerAskingToJoin
    <2>4. /\ waiting' = [waiting EXCEPT ![t] = Append(@, m.sender)]
          /\ UNCHANGED <<nb, tee, clicksLeft, directory, asksLeft, leaveVars>>
      BY <1>a DEF HandlePeerAskingToJoin
    <2>5. waiting' \in [Site -> Seq(Newcomer)] /\ \A n \in Newcomer : waiting'[n] = <<>>
      <3>1. waiting \in [Site -> Seq(Newcomer)] /\ \A n \in Newcomer : waiting[n] = <<>>
        BY <1>0 DEF RestTyping
      <3>2. Append(waiting[t], m.sender) \in Seq(Newcomer)
        BY <2>1, <3>1
      <3> HIDE DEF m
      <3> QED BY <1>2, <2>1, <2>4, <3>1, <3>2
    <2> QED BY <1>0, <2>2, <2>3, <2>4, <2>5 DEF RestTyping, ElectionTyping, leaveVars
  <1>b. CASE StartJoiningProcess(s, t)
    <2> DEFINE peers == waiting[t]
               readers == LinkedBothWays(t, peers)[t]
    <2>1. peers \in Seq(Newcomer) /\ Len(peers) \in Nat
      BY <1>0 DEF RestTyping
    <2>2. ToSet(peers) \subseteq Newcomer
      BY <2>1 DEF ToSet
    <2>3. readers = tee[t] \cup ToSet(peers)
      BY DEF LinkedBothWays
    <2>4. PICK old \in [ToSet(peers) -> Uncopied(t)] :
             TakeAmong(Linked(t, readers, old), s, t, readers,
                       <<BuildElected(t)>> \o Welcomes(t), <<>>)
      BY <1>b DEF StartJoiningProcess
    <2>5. <<BuildElected(t)>> \o Welcomes(t) \in Seq(Sends(t))
      <3>1. <<BuildElected(t)>> \in Seq(Sends(t))
        BY ElectionLetters
      <3>2. Welcomes(t) \in Seq(Sends(t))
        BY WelcomesTyped
      <3> QED BY <3>1, <3>2, ConcatProperties
    <2>6. \A r \in Site : r \in readers \ tee[t] => old[r] \in Seq(Good)
      <3> SUFFICES ASSUME NEW r \in Site, r \in readers \ tee[t] PROVE old[r] \in Seq(Good)
        OBVIOUS
      <3>1. old[r] \in Uncopied(t)
        BY <2>3
      <3> QED BY <1>0, <3>1, UncopiedTyped DEF LinksTyping, RestTyping
    <2>7. /\ Linked(t, readers, old) \in Net(Good)
          /\ Linked(t, readers, old)[s][t] = link[s][t]
      <3>1. ~(s = t /\ t \in readers \ tee[t])
        <4>1. peers # <<>> => t \notin Newcomer
          BY <1>0 DEF RestTyping
        <4>2. peers = <<>> => ToSet(peers) = {}
          BY DEF ToSet
        <4> QED BY <2>2, <2>3, <4>1, <4>2
      <3> HIDE DEF readers, peers
      <3> QED BY <1>0, <2>6, <3>1, LinkedTyped DEF LinksTyping
    <2>8. LinksTyping'
      <3> HIDE DEF readers, peers
      <3> QED BY <2>4, <2>5, <2>7, TakeGood
    <2>9. ElectionTyping'
      <3>1. CASE peers = <<>>
        <4>1. Wins(s, t) /\ UNCHANGED goal
          BY <1>b, <3>1 DEF StartJoiningProcess
        <4>2. /\ election' = [election EXCEPT ![t].pending = @ - 1]
              /\ electedID' = [electedID EXCEPT ![t] = t]
          BY <4>1 DEF Wins, CountEcho
        <4>3. /\ election' \in [Site -> [elu : Site \cup {NoSite},
                                        parent : Site \cup {NoSite}, pending : Int]]
              /\ electedID' \in [Site -> Site \cup {NoSite}]
          BY <1>0, <4>2, PendingTyped DEF RestTyping
        <4> QED BY <1>0, <4>1, <4>3 DEF RestTyping, ElectionTyping
      <3>2. CASE peers # <<>>
        <4>1. Released(t, nb[t] + Len(peers))
          BY <1>b, <3>2 DEF StartJoiningProcess
        <4>2. nb[t] + Len(peers) \in Int
          BY <1>0, <2>1 DEF RestTyping
        <4> QED BY <1>0, <4>1, <4>2, ReleasedTyped
      <3> QED BY <3>1, <3>2
    <2>10. /\ directory' = [directory EXCEPT ![t] = ListWith(t, Len(peers))]
           /\ waiting' = [waiting EXCEPT ![t] = <<>>]
           /\ nb' = [nb EXCEPT ![t] = @ + Len(peers)]
           /\ tee' = LinkedBothWays(t, peers)
           /\ UNCHANGED <<clicksLeft, asksLeft, leaveVars>>
      BY <1>b DEF StartJoiningProcess
    <2>11. directory' \in [Site -> Directory]
      <3>1. ListWith(t, Len(peers)) \in Directory
        BY <2>1, ListWithTyped
      <3> QED BY <1>0, <2>10, <3>1 DEF RestTyping
    <2>12. /\ waiting' \in [Site -> Seq(Newcomer)] /\ nb' \in [Site -> Int]
           /\ \A n \in Newcomer : waiting'[n] = <<>>
      <3>1. waiting \in [Site -> Seq(Newcomer)] /\ \A n \in Newcomer : waiting[n] = <<>>
        BY <1>0 DEF RestTyping
      <3>2. <<>> \in Seq(Newcomer) /\ nb \in [Site -> Int]
        BY <1>0 DEF RestTyping
      <3>3. nb' \in [Site -> Int]
        <4> HIDE DEF peers
        <4> QED BY <2>1, <2>10, <3>2
      <3> QED BY <1>2, <2>10, <3>1, <3>2, <3>3
    <2>13. tee' \in [Site -> SUBSET Site]
      BY <1>0, <1>2, <2>2, <2>10 DEF RestTyping, LinkedBothWays
    <2> HIDE DEF peers
    <2> QED BY <1>0, <2>8, <2>9, <2>10, <2>11, <2>12, <2>13
            DEF RestTyping, ElectionTyping, leaveVars
  <1>c. CASE HandleUpdateListe(s, t)
    <2>1. m.body.list \in Directory
      BY <1>0, <1>c, BodyFacts DEF HandleUpdateListe, Gets
    <2>2. LinksTyping'
      BY <1>1, <1>c, TakeToGood DEF HandleUpdateListe
    <2>3. /\ directory' = [directory EXCEPT ![t] = m.body.list]
          /\ UNCHANGED <<electionVars, nb, tee, clicksLeft, waiting, asksLeft, leaveVars>>
      BY <1>c DEF HandleUpdateListe
    <2> QED BY <1>0, <2>1, <2>2, <2>3 DEF RestTyping, leaveVars, electionVars
  <1>d. CASE HandleAddUserConfirm(s, t)
    <2>1. m.body.who \in Newcomer
      BY <1>0, <1>d, BodyFacts DEF HandleAddUserConfirm, Gets
    <2>2. LinksTyping'
      BY <1>1, <1>d, TakeToGood DEF HandleAddUserConfirm
    <2>3. WithUser(t, m.body.who) \in Directory
      <3>1. directory[t] \in Directory
        BY <1>0 DEF RestTyping
      <3>2. <<m.body.who>> \in Seq(Newcomer)
        BY <2>1
      <3>3. directory[t] \o <<m.body.who>> \in Directory
        BY <3>1, <3>2, DirectoryJoined
      <3>4. Append(directory[t], m.body.who) = directory[t] \o <<m.body.who>>
        BY <1>2, <2>1, <3>1, AppendIsConcat DEF Directory
      <3> QED BY <3>1, <3>3, <3>4 DEF WithUser
    <2>4. /\ directory' = [directory EXCEPT ![t] = WithUser(t, m.body.who)]
          /\ UNCHANGED <<electionVars, nb, tee, clicksLeft, waiting, asksLeft, leaveVars>>
      BY <1>d DEF HandleAddUserConfirm
    <2> QED BY <1>0, <2>2, <2>3, <2>4 DEF RestTyping, leaveVars, electionVars
  <1>e. CASE HandleReleaseElected(s, t)
    <2>1. nb[t] \in Int
      BY <1>0 DEF RestTyping
    <2>2. ElectionTyping' /\ WaveAgain(t) \in Seq(Sends(t))
      BY <1>0, <1>e, <2>1, ReleasedTyped DEF HandleReleaseElected
    <2>3. LinksTyping'
      BY <1>e, <2>2, TakeToGood DEF HandleReleaseElected
    <2>4. UNCHANGED <<nb, tee, clicksLeft, joinVars, leaveVars>>
      BY <1>e DEF HandleReleaseElected
    <2> QED BY <1>0, <2>2, <2>3, <2>4 DEF RestTyping, ElectionTyping, joinVars, leaveVars
  <1> QED BY <1>a, <1>b, <1>c, <1>d, <1>e DEF JoinStep

-----------------------------------------------------------------------------
(* The steps of those who leave. *)

LEMMA WithoutTyped ==
    ASSUME RestTyping, NEW t \in Site, NEW old \in Site \ Newcomer
    PROVE  WithoutUser(t, old) \in Directory
  <1>1. directory[t] \in Directory
    BY DEF RestTyping
  <1> QED BY <1>1, DirectoryCut DEF WithoutUser

LEMMA LeaversOld ==
    ASSUME plan \in Plan
    PROVE  /\ plan.leavers \subseteq Site \ Newcomer
           /\ \A n \in Newcomer : plan.peer[n] \in Site \ Newcomer
           /\ plan.asks \in [Newcomer -> Nat]
  BY PlanAssumption

LEMMA LeaveStepTyped ==
    ASSUME Typing, plan' = plan, NEW s \in Site, NEW t \in Site, link[s][t] # <<>>,
           LeaveStep(s, t)
    PROVE  LinksTyping' /\ RestTyping'
  <1> DEFINE m == FirstOf(s, t)
  <1>0. /\ m \in Good /\ m.sender \in Site /\ m.body \in MemberBody /\ Sound(m)
        /\ RestTyping /\ LinksTyping
    BY FirstGood, TypingParts DEF Good
  <1>1. <<>> \in Seq(Sends(t))
    OBVIOUS
  <1>2. m.sender \in Dest
    BY <1>0 DEF Dest
  <1>3. ASSUME NEW a, Gets(s, t, a)
        PROVE  m.body.action = a /\ (m.dest \in Site => m.dest = t)
    BY <1>3, NoSiteFacts DEF Gets, Receives, Processes
  <1>4. plan.leavers \subseteq Site \ Newcomer
    BY <1>0, LeaversOld DEF RestTyping
  <1>a. CASE HandleNeighborsSearch(s, t)
    <2>1. InitFindNeighbors(FALSE) \in Sends(t)
      BY LeaveLetters DEF Dest
    <2>2. LinksTyping'
      BY <1>a, <2>1, OneLetter, TakeToGood DEF HandleNeighborsSearch
    <2>3. UNCHANGED <<nb, tee, electionVars, clicksLeft, joinVars, leaveVars>>
      BY <1>a DEF HandleNeighborsSearch
    <2> QED BY <1>0, <2>2, <2>3 DEF RestTyping, electionVars, joinVars, leaveVars
  <1>b. CASE HandleFindNeighbors(s, t)
    <2>1. m.body.action = "INIT_FIND_NEIGHBORS"
      BY <1>b, <1>3 DEF HandleFindNeighbors
    <2>2. m.body.isLeaver \in BOOLEAN /\ (m.body.isLeaver => m.sender \in plan.leavers)
      BY <1>0, <2>1, BodyFacts DEF Sound
    <2>3. Letter(m.sender, [action |-> "I_M_NEIGHBOR", isLeaver |-> m.body.isLeaver])
             \in Sends(t)
      BY <1>2, <2>2, LeaveLetters
    <2>4. LinksTyping'
      BY <1>b, <2>3, OneLetter, TakeToGood DEF HandleFindNeighbors
    <2>5. UNCHANGED <<nb, tee, electionVars, clicksLeft, joinVars, leaveVars>>
      BY <1>b DEF HandleFindNeighbors
    <2> QED BY <1>0, <2>4, <2>5 DEF RestTyping, electionVars, joinVars, leaveVars
  <1>c. CASE HandleIMNeighborMessage(s, t)
    <2> DEFINE names == known[t] \cup {m.sender}
               leaves == Cardinality(names) = nb[t] /\ m.body.isLeaver
    <2>1. m.body.action = "I_M_NEIGHBOR" /\ (m.dest \in Site => m.dest = t)
      BY <1>c, <1>3 DEF HandleIMNeighborMessage
    <2>2. leaves => t \in plan.leavers
      BY <1>0, <1>4, <2>1 DEF Sound
    <2>3. /\ known' = [known EXCEPT ![t] = names]
          /\ departing' = [departing EXCEPT ![t] = IF leaves THEN Departing(t) ELSE @]
          /\ UNCHANGED <<nb, tee, clicksLeft, joinVars, section, answered, left, stays>>
          /\ IF leaves THEN Standing(t, "LEAVING") ELSE UNCHANGED electionVars
          /\ TakeTo(s, t, tee[t], IF leaves THEN WaveIf(t) ELSE <<>>)
      BY <1>c DEF HandleIMNeighborMessage
    <2> HIDE DEF leaves
    <2>4. ElectionTyping' /\ (IF leaves THEN WaveIf(t) ELSE <<>>) \in Seq(Sends(t))
      <3>1. CASE leaves
        BY <1>0, <2>2, <2>3, <3>1, StandingTyped DEF Goal
      <3>2. CASE ~leaves
        BY <1>0, <1>1, <2>3, <3>2, ElectionSame
      <3> QED BY <3>1, <3>2
    <2>5. LinksTyping'
      BY <2>3, <2>4, TakeToGood
    <2>6. /\ known' \in [Site -> SUBSET Site] /\ departing' \in [Site -> Int]
          /\ \A r \in Site : departing'[r] # 0 => r \in plan.leavers
      <3>1. /\ known \in [Site -> SUBSET Site] /\ departing \in [Site -> Int]
            /\ \A r \in Site : departing[r] # 0 => r \in plan.leavers
        BY <1>0 DEF RestTyping
      <3>2. names \in SUBSET Site /\ Departing(t) \in Int
        BY <1>0, <3>1 DEF Departing
      <3> HIDE DEF names
      <3> QED BY <2>2, <2>3, <3>1, <3>2
    <2> HIDE DEF names
    <2> QED BY <1>0, <2>3, <2>4, <2>5, <2>6 DEF RestTyping, ElectionTyping, joinVars
  <1>d. CASE StartLeavingProcess(s, t)
    <2>1. /\ section' = [section EXCEPT ![t] = @ + 1]
          /\ departing' = [departing EXCEPT ![t] = @ - 1]
          /\ election' = [election EXCEPT ![t].pending = @ - 1]
          /\ electedID' = [electedID EXCEPT ![t] = t]
          /\ goal[t] = "LEAVING"
          /\ TakeTo(s, t, tee[t], <<BuildElected(t)>>)
          /\ UNCHANGED <<goal, nb, tee, clicksLeft, joinVars, known, answered, left, stays>>
      BY <1>d DEF StartLeavingProcess, Wins, CountEcho
    <2>2. t \in plan.leavers
      BY <1>0, <2>1 DEF RestTyping
    <2>3. <<BuildElected(t)>> \in Seq(Sends(t))
      BY ElectionLetters, OneLetter
    <2>4. LinksTyping'
      BY <2>1, <2>3, TakeToGood
    <2>5. /\ election' \in [Site -> [elu : Site \cup {NoSite},
                                     parent : Site \cup {NoSite}, pending : Int]]
          /\ electedID' \in [Site -> Site \cup {NoSite}]
      BY <1>0, <2>1, PendingTyped DEF RestTyping
    <2>6. /\ section' \in [Site -> Nat] /\ departing' \in [Site -> Int]
          /\ \A r \in Site : departing'[r] # 0 => r \in plan.leavers
          /\ \A r \in Site : section'[r] > 0 \/ goal'[r] = "LEAVING" => r \in plan.leavers
      <3>1. /\ section \in [Site -> Nat] /\ departing \in [Site -> Int]
            /\ \A r \in Site : departing[r] # 0 => r \in plan.leavers
            /\ \A r \in Site : section[r] > 0 \/ goal[r] = "LEAVING" => r \in plan.leavers
        BY <1>0 DEF RestTyping
      <3> QED BY <2>1, <2>2, <3>1
    <2> QED BY <1>0, <2>1, <2>4, <2>5, <2>6 DEF RestTyping, joinVars
  <1>e. CASE ReceiveLeavingProcess(s, t)
    <2> DEFINE near == m.sender \in known[t]
    <2>1. m.body.action = "RECEIVE_NODE_LEAVING"
      BY <1>e, <1>3 DEF ReceiveLeavingProcess
    <2>2. m.sender \in plan.leavers /\ m.body.children \subseteq Site
      BY <1>0, <2>1, BodyFacts DEF Sound
    <2>3. /\ known' = [known EXCEPT ![t] =
                IF near THEN (@ \ {m.sender}) \cup m.body.children ELSE @]
          /\ nb' = [nb EXCEPT ![t] = IF near THEN @ - 1 ELSE @]
          /\ directory' = [directory EXCEPT ![t] = WithoutUser(t, m.sender)]
          /\ TakeTo(s, t, tee[t],
                    IF near THEN <<Letter(m.sender, Plain("PARENT_TEE_UPDATE"))>>
                    ELSE <<>>)
          /\ UNCHANGED <<tee, electionVars, clicksLeft, waiting, asksLeft, departing,
                         section, answered, left, stays>>
      BY <1>e DEF ReceiveLeavingProcess
    <2>4. Letter(m.sender, Plain("PARENT_TEE_UPDATE")) \in Sends(t)
      BY <1>2, <2>2, PlainLetters
    <2>5. (IF near THEN <<Letter(m.sender, Plain("PARENT_TEE_UPDATE"))>> ELSE <<>>)
             \in Seq(Sends(t))
      BY <2>4, OneLetter
    <2>6. LinksTyping'
      BY <2>3, <2>5, TakeToGood
    <2>7. WithoutUser(t, m.sender) \in Directory
      BY <1>0, <1>4, <2>2, WithoutTyped
    <2>8. known' \in [Site -> SUBSET Site] /\ nb' \in [Site -> Int]
          /\ directory' \in [Site -> Directory]
      <3>1. /\ known \in [Site -> SUBSET Site] /\ nb \in [Site -> Int]
            /\ directory \in [Site -> Directory]
        BY <1>0 DEF RestTyping
      <3>2. known' \in [Site -> SUBSET Site]
        BY <2>2, <2>3, <3>1
      <3>3. nb' \in [Site -> Int]
        BY <2>3, <3>1
      <3>4. directory' \in [Site -> Directory]
        BY <2>3, <2>7, <3>1
      <3> QED BY <3>2, <3>3, <3>4
    <2> QED BY <1>0, <2>3, <2>6, <2>8 DEF RestTyping, electionVars
  <1>f. CASE HandleTeeUpdate(s, t)
    <2> DEFINE ack == <<Letter(m.sender, Plain("PARENT_TEE_UPDATE_ACK"))>>
    <2>1. m.body.action = "PARENT_TEE_UPDATE" /\ (m.dest \in Site => m.dest = t)
      BY <1>f, <1>3 DEF HandleTeeUpdate
    <2>2. t \in plan.leavers
      BY <1>0, <1>4, <2>1 DEF Sound
    <2>3. ack \in Seq(Sends(t))
      BY <1>2, PlainLetters, OneLetter
    <2>4. /\ answered' = [answered EXCEPT ![t] = @ + 1]
          /\ left' = left \/ left' = left \cup {t}
          /\ TakeTo(s, t, tee[t], ack) \/ TakeTo(s, t, tee[t], <<>>)
          /\ UNCHANGED <<nb, tee, electionVars, clicksLeft, joinVars, departing, known,
                         section, stays>>
      BY <1>f DEF HandleTeeUpdate
    <2>5. LinksTyping'
      BY <1>1, <2>3, <2>4, TakeToGood
    <2>6. answered' \in [Site -> Nat] /\ left' \subseteq plan.leavers
      <3>1. answered \in [Site -> Nat] /\ left \subseteq plan.leavers
        BY <1>0 DEF RestTyping
      <3> QED BY <2>2, <2>4, <3>1
    <2> QED BY <1>0, <2>4, <2>5, <2>6 DEF RestTyping, electionVars, joinVars
  <1>g. CASE RestartTee(s, t)
    <2> DEFINE readers == known[t] \ {t}
               new == IF readers = {} THEN tee[t] ELSE readers
    <2>1. /\ tee' = [tee EXCEPT ![t] = new]
          /\ UNCHANGED <<nb, electionVars, clicksLeft, joinVars, leaveVars>>
      BY <1>g DEF RestartTee
    <2>2. PICK old \in [new -> Uncopied(t)] :
             TakeAmong(Linked(t, new, old), s, t, new, <<>>, <<>>)
      BY <1>g DEF RestartTee
    <2>3. new \in SUBSET Site /\ t \notin new \ tee[t]
      BY <1>0 DEF RestTyping
    <2> HIDE DEF new
    <2>4. \A r \in Site : r \in new \ tee[t] => old[r] \in Seq(Good)
      BY <1>0, UncopiedTyped DEF LinksTyping, RestTyping
    <2>5. Linked(t, new, old) \in Net(Good) /\ Linked(t, new, old)[s][t] = link[s][t]
      BY <1>0, <2>3, <2>4, LinkedTyped DEF LinksTyping
    <2>6. LinksTyping'
      BY <1>1, <2>2, <2>5, TakeGood
    <2> QED BY <1>0, <2>1, <2>3, <2>6 DEF RestTyping, electionVars, joinVars, leaveVars
  <1> QED BY <1>a, <1>b, <1>c, <1>d, <1>e, <1>f, <1>g DEF LeaveStep

-----------------------------------------------------------------------------
(* The steps of the users, and the theorem. *)

LEMMA AskTyped ==
    ASSUME Typing, plan' = plan, NEW n \in Newcomer, AskPeerToJoinNetwork(n)
    PROVE  LinksTyping' /\ RestTyping'
  <1>0. RestTyping /\ n \in Site /\ plan.peer[n] \in Site \ Newcomer
    BY TypingParts, LeaversOld, NewcomerAssumption DEF RestTyping
  <1>1. <<AskingToJoin(plan.peer[n])>> \in Seq(Sends(n))
    BY <1>0, PlainLetters, OneLetter DEF Dest
  <1>2. LinksTyping'
    BY <1>0, <1>1, OriginateGood DEF AskPeerToJoinNetwork
  <1>3. /\ asksLeft[n] > 0 /\ asksLeft' = [asksLeft EXCEPT ![n] = @ - 1]
        /\ nb' = [nb EXCEPT ![n] = @ + 1]
        /\ UNCHANGED <<tee, electionVars, clicksLeft, directory, waiting, leaveVars>>
    BY DEF AskPeerToJoinNetwork
  <1>4. asksLeft' \in [Newcomer -> Nat] /\ nb' \in [Site -> Int]
    BY SMTT(30), <1>0, <1>3 DEF RestTyping
  <1> QED BY <1>0, <1>2, <1>3, <1>4 DEF RestTyping, electionVars, leaveVars

LEMMA UserLeavesTyped ==
    ASSUME Typing, plan' = plan, NEW s \in Site, UserLeaves(s)
    PROVE  LinksTyping' /\ RestTyping'
  <1>0. RestTyping /\ s \in plan.leavers
    BY TypingParts DEF RestTyping, UserLeaves
  <1>1. /\ Letter(BROADCAST, Plain("START_NEIGHBORS_SEARCH")) \in Sends(s)
        /\ InitFindNeighbors(TRUE) \in Sends(s)
    BY <1>0, PlainLetters, LeaveLetters DEF Dest
  <1>2. LinksTyping'
    <2> DEFINE P == Sends(s)
               x == Letter(BROADCAST, Plain("START_NEIGHBORS_SEARCH"))
               y == InitFindNeighbors(TRUE)
    <2>1. <<Letter(BROADCAST, Plain("START_NEIGHBORS_SEARCH")), InitFindNeighbors(TRUE)>>
             \in Seq(Sends(s))
      <3>1. x \in P /\ y \in P
        BY <1>1
      <3> HIDE DEF x, y, P
      <3>2. <<x, y>> \in Seq(P)
        BY <3>1
      <3> QED BY <3>2 DEF x, y, P
    <2> QED BY <2>1, OriginateGood DEF UserLeaves
  <1>3. /\ stays' = stays \ {s}
        /\ UNCHANGED <<nb, tee, electionVars, clicksLeft, joinVars, departing, known,
                       section, answered, left>>
    BY DEF UserLeaves
  <1> QED BY <1>0, <1>2, <1>3 DEF RestTyping, electionVars, joinVars

LEMMA DoneTyped ==
    ASSUME Typing, plan' = plan, NEW t \in Site, DoneWithSCLeaving(t)
    PROVE  LinksTyping' /\ RestTyping'
  <1>0. RestTyping /\ section[t] > 0 /\ section[t] \in Nat /\ t \in plan.leavers
        /\ nb[t] \in Int /\ known[t] \in SUBSET Site
    BY TypingParts DEF RestTyping, DoneWithSCLeaving
  <1>1. /\ section' = [section EXCEPT ![t] = @ - 1]
        /\ Released(t, nb[t])
        /\ OriginateTo(t, tee[t],
               <<Letter(BROADCAST, [action |-> "RECEIVE_NODE_LEAVING",
                                    children |-> known[t]])>>
               \o WaveAgain(t) \o <<ReleaseElection>>)
        /\ UNCHANGED <<nb, tee, clicksLeft, joinVars, departing, known, answered,
                       left, stays>>
    BY DEF DoneWithSCLeaving
  <1>2. ElectionTyping' /\ WaveAgain(t) \in Seq(Sends(t))
    BY <1>0, <1>1, ReleasedTyped
  <1>3. <<Letter(BROADCAST, [action |-> "RECEIVE_NODE_LEAVING",
                             children |-> known[t]])>> \in Seq(Sends(t))
    BY <1>0, LeaveLetters, OneLetter DEF Dest
  <1>4. <<ReleaseElection>> \in Seq(Sends(t))
    BY PlainLetters, OneLetter DEF Dest
  <1>5. LinksTyping'
    BY <1>1, <1>2, <1>3, <1>4, OriginateGood, ConcatProperties
  <1>6. section' \in [Site -> Nat] /\ \A r \in Site : section'[r] > 0 => r \in plan.leavers
    BY <1>0, <1>1 DEF RestTyping
  <1> QED BY <1>0, <1>1, <1>2, <1>5, <1>6 DEF RestTyping, ElectionTyping, joinVars

LEMMA MemberInitTyped == MemberInit => Typing
  <1> SUFFICES ASSUME MemberInit PROVE Typing
    OBVIOUS
  <1>1. LinksTyping
    <2>1. <<>> \in Seq(Good)
      OBVIOUS
    <2> QED BY <2>1 DEF MemberInit, Init, LinksInit, LinksTyping, Net
  <1>2. \A s \in Site : Neighbours[s] \in SUBSET Site /\ Cardinality(Neighbours[s]) \in Nat
    <2> SUFFICES ASSUME NEW s \in Site
                 PROVE  Neighbours[s] \in SUBSET Site /\ Cardinality(Neighbours[s]) \in Nat
      OBVIOUS
    <2>1. Neighbours[s] \in SUBSET Site
      BY NeighboursAssumption
    <2>2. IsFiniteSet(Neighbours[s])
      BY <2>1, SiteFinite, FS_Subset
    <2> QED BY <2>1, <2>2, FS_CardinalityType
  <1>3. nb \in [Site -> Int] /\ tee \in [Site -> SUBSET Site]
    <2>1. nb = [s \in Site |-> Cardinality(Neighbours[s])] /\ tee = Neighbours
      BY DEF MemberInit, Init
    <2> QED BY <1>2, <2>1, NeighboursAssumption
  <1>4. /\ election \in [Site -> [elu : Site \cup {NoSite},
                                  parent : Site \cup {NoSite}, pending : Int]]
        /\ electedID \in [Site -> Site \cup {NoSite}]
        /\ goal \in [Site -> Goal] /\ clicksLeft \in [Site -> Nat]
        /\ \A s \in Site : goal[s] # "LEAVING"
    <2>1. /\ election = [s \in Site |-> None] /\ electedID = [s \in Site |-> NoSite]
          /\ goal = [s \in Site |-> ""] /\ clicksLeft = Clicks
      BY DEF MemberInit, Init
    <2>2. None \in [elu : Site \cup {NoSite}, parent : Site \cup {NoSite}, pending : Int]
      BY DEF None
    <2> QED BY <2>1, <2>2, ClicksAssumption DEF Goal
  <1>5. directory \in [Site -> Directory]
    <2>1. Layout \in Directory
      BY LayoutAssumption DEF Directory
    <2>2. \A n \in Newcomer : <<n>> \in Directory
      BY NewcomerAssumption DEF Directory
    <2> QED BY <2>1, <2>2 DEF MemberInit
  <1>6. asksLeft \in [Newcomer -> Nat] /\ plan \in Plan
    BY LeaversOld DEF MemberInit
  <1>7. /\ waiting \in [Site -> Seq(Newcomer)] /\ \A n \in Newcomer : waiting[n] = <<>>
        /\ departing \in [Site -> Int] /\ known \in [Site -> SUBSET Site]
        /\ section \in [Site -> Nat] /\ answered \in [Site -> Nat]
        /\ stays \subseteq plan.leavers /\ left \subseteq plan.leavers
        /\ \A s \in Site : section[s] = 0 /\ departing[s] = 0
        /\ apart \in BOOLEAN
    BY NewcomerAssumption DEF MemberInit
  <1>8. RestTyping
    BY <1>3, <1>4, <1>5, <1>6, <1>7 DEF RestTyping
  <1> QED BY <1>1, <1>7, <1>8, TypingParts

LEMMA TypingStep ==
    ASSUME Typing, [MemberNext]_allVars
    PROVE  Typing'
  <1>1. CASE UNCHANGED allVars
    BY <1>1 DEF allVars, memberVars, vars, linkVars, electionVars, joinVars, leaveVars,
                Typing, MemberTypeOK, LinksTypeOK, Good, Sound
  <1>2. CASE MemberNext
    <2>1. plan' = plan /\ apart' \in BOOLEAN
      BY <1>2 DEF MemberNext, Typing, MemberTypeOK
    <2>2. ASSUME NEW n \in Newcomer, AskPeerToJoinNetwork(n) PROVE LinksTyping' /\ RestTyping'
      BY <2>1, <2>2, AskTyped
    <2>3. ASSUME NEW s \in Site, UserLeaves(s) \/ DoneWithSCLeaving(s)
          PROVE  LinksTyping' /\ RestTyping'
      BY <2>1, <2>3, UserLeavesTyped, DoneTyped
    <2>4. ASSUME NEW s \in Site, NEW t \in Site, MemberStep(s, t)
          PROVE  LinksTyping' /\ RestTyping'
      BY <2>1, <2>4, ElectionStepTyped, JoinStepTyped, LeaveStepTyped DEF MemberStep
    <2>5. LinksTyping' /\ RestTyping'
      BY <1>2, <2>2, <2>3, <2>4 DEF MemberNext
    <2>6. (Typing <=> LinksTyping /\ RestTyping /\ apart \in BOOLEAN)'
      BY TypingParts, PTL
    <2> QED BY <2>1, <2>5, <2>6
  <1> QED BY <1>1, <1>2

(* In every network and whatever the users do, the variables keep their    *)
(* types; only a site whose user leaves is ever in the section for it, or  *)
(* exits, and no directory names a first site twice.                       *)
THEOREM MemberTyped == MemberSpec => []MemberTypeOK
  <1>1. MemberInit => Typing
    BY MemberInitTyped
  <1>2. Typing /\ [MemberNext]_allVars => Typing'
    BY TypingStep
  <1>3. Typing => MemberTypeOK
    BY DEF Typing
  <1> QED BY <1>1, <1>2, <1>3, PTL DEF MemberSpec

-----------------------------------------------------------------------------
(* Joins only: nobody leaves.                                              *)

OnlyJoins == \A p \in Plan : p.leavers = {}

(* The messages that there are then, and those that are not about a        *)
(* newcomer.                                                               *)
ChatAction == {"WAVE_ELECTION", "ECHO_ELECTION", "ELECTED", "RELEASE_ELECTION"}
JoinAction == ChatAction \cup {"ASKING_TO_JOIN", "UPDATE_LISTE", "ADD_USER_CONFIRM"}
Packet ==
    {n \in Good :
        /\ n.body.action \in JoinAction /\ n.sender = n.id[1]
        /\ n.body.action = "ASKING_TO_JOIN" => n.dest = plan.peer[n.sender]}
JoinSends(t) == {l \in Sends(t) : l.body.action \in JoinAction \ {"ASKING_TO_JOIN"}}
Chat(t) == {l \in Sends(t) : l.body.action \in ChatAction}

Places(a, b) == 1 .. Len(link[a][b])
Old == Site \ Newcomer

(* Who writes to whom: the first links stay, a newcomer is linked to the   *)
(* peer it has asked, both ways.                                           *)
Linking ==
    /\ link \in Net(Packet)
    /\ \A a, b \in Site : link[a][b] # <<>> =>
          b \in tee[a] \/ (a \in Newcomer /\ b = plan.peer[a])
    /\ \A a, b \in Site : b \in tee[a] => a \in tee[b]
    /\ \A a \in Old : tee[a] \ Newcomer = Neighbours[a]
    /\ \A n \in Newcomer : tee[n] \subseteq {plan.peer[n]}
    /\ \A t \in Site : \A i \in DOMAIN waiting[t] : plan.peer[waiting[t][i]] = t

Calmly == Typing /\ Linking /\ plan.leavers = {}

(* What t writes when it takes a message: the message again, and letters.  *)
Again1(s, t) ==
    IF IsNew(t, FirstOf(s, t)) /\ Forwards(t, FirstOf(s, t)) THEN <<FirstOf(s, t)>> ELSE <<>>
Says(s, t, letters) == Again1(s, t) \o Stamped(t, letters)

(* t takes the first message of s and writes q to the sites R, of which    *)
(* those that are new get what is in old first.                            *)
Takes(s, t, R, q, old) ==
    /\ link[s][t] # <<>> /\ s # t /\ R \in SUBSET Site /\ q \in Seq(Packet)
    /\ \A v \in R \ tee[t] : old[v] \in Uncopied(t)
    /\ \A u, v \in Site :
          link'[u][v] = IF u = s /\ v = t THEN Tail(link[u][v])
                        ELSE IF u = t /\ v \in R
                        THEN (IF v \in tee[t] THEN link[u][v] ELSE old[v]) \o q
                        ELSE link[u][v]
    /\ seen' = [seen EXCEPT ![t] = @ \cup {FirstOf(s, t).id}]

(* A step that brings nobody in.                                           *)
Calm(s, t, letters) ==
    /\ letters \in Seq(Chat(t))
    /\ Takes(s, t, tee[t], Says(s, t, letters), link[t])
    /\ sent' = [sent EXCEPT ![t] = @ + Len(letters)]
    /\ waiting' = IF Gets(s, t, "ASKING_TO_JOIN")
                  THEN [waiting EXCEPT ![t] = Append(@, FirstOf(s, t).sender)]
                  ELSE waiting
    /\ directory' = [directory EXCEPT ![t] =
          IF Gets(s, t, "UPDATE_LISTE") THEN FirstOf(s, t).body.list
          ELSE IF Gets(s, t, "ADD_USER_CONFIRM") THEN WithUser(t, FirstOf(s, t).body.who)
          ELSE @]
    /\ UNCHANGED <<tee, nb, asksLeft>>

(* A step that brings in all those that wait at t.                         *)
Welcoming(s, t, old) ==
    LET R == tee[t] \cup ToSet(waiting[t])
        letters == <<BuildElected(t)>> \o Welcomes(t)
    IN
    /\ waiting[t] # <<>> /\ t \in Old
    /\ Gets(s, t, "ECHO_ELECTION")
    /\ Takes(s, t, R, Says(s, t, letters), old)
    /\ sent' = [sent EXCEPT ![t] = @ + Len(letters)]
    /\ waiting' = [waiting EXCEPT ![t] = <<>>]
    /\ directory' = [directory EXCEPT ![t] = @ \o waiting[t]]
    /\ tee' = LinkedBothWays(t, waiting[t])
    /\ nb' = [nb EXCEPT ![t] = @ + Len(waiting[t])]
    /\ UNCHANGED asksLeft

LEMMA LinkingFacts ==
    ASSUME Calmly, NEW s \in Site, NEW t \in Site, link[s][t] # <<>>
    PROVE  /\ s # t
           /\ FirstOf(s, t) \in Packet /\ FirstOf(s, t) = link[s][t][1]
           /\ 1 \in Places(s, t) /\ Len(link[s][t]) \in Nat
           /\ left = {} /\ t \notin left
  <1>1. link[s][t] \in Seq(Packet)
    BY DEF Calmly, Linking, Net
  <1>2. s # t
    <2> SUFFICES ASSUME s = t PROVE FALSE
      OBVIOUS
    <2>1. /\ t \in tee[t] \/ (t \in Newcomer /\ t = plan.peer[t])
          /\ t \in Old => tee[t] \ Newcomer = Neighbours[t]
          /\ t \in Newcomer => tee[t] \subseteq {plan.peer[t]}
      BY DEF Calmly, Linking
    <2>2. t \in Newcomer => plan.peer[t] \in Site \ Newcomer
      BY LeaversOld DEF Calmly, Typing, MemberTypeOK
    <2>3. t \notin Neighbours[t]
      BY NeighboursAssumption
    <2> QED BY <2>1, <2>2, <2>3 DEF Old
  <1>3. left = {}
    BY DEF Calmly, Typing, MemberTypeOK
  <1> QED BY <1>1, <1>2, <1>3 DEF FirstOf, Places

LEMMA SaysTyped ==
    ASSUME Calmly, NEW s \in Site, NEW t \in Site, link[s][t] # <<>>,
           NEW letters \in Seq(JoinSends(t))
    PROVE  /\ Again1(s, t) \in Seq(Packet) /\ Stamped(t, letters) \in Seq(Packet)
           /\ Says(s, t, letters) \in Seq(Packet)
           /\ letters \in Seq(Sends(t)) /\ Len(letters) \in Nat
           /\ Len(Stamped(t, letters)) = Len(letters)
  <1>1. FirstOf(s, t) \in Packet
    BY LinkingFacts
  <1>2. Again1(s, t) \in Seq(Packet)
    BY <1>1, OneLetter DEF Again1
  <1>3. letters \in Seq(Sends(t))
    <2>1. JoinSends(t) \subseteq Sends(t)
      BY DEF JoinSends
    <2> QED BY <2>1, SeqMonotonic
  <1>4. sent[t] \in Nat /\ Len(letters) \in Nat
    BY LenProperties DEF Calmly, Typing, MemberTypeOK, LinksTypeOK
  <1>5. Stamped(t, letters) \in Seq(Good) /\ Len(Stamped(t, letters)) = Len(letters)
    BY <1>3, <1>4, StampedIn DEF Stamped
  <1>6. \A i \in 1 .. Len(letters) : Stamped(t, letters)[i] \in Packet
    <2> SUFFICES ASSUME NEW i \in 1 .. Len(letters) PROVE Stamped(t, letters)[i] \in Packet
      OBVIOUS
    <2>1. Stamped(t, letters)[i] \in Good
      BY <1>5, ElementOfSeq
    <2>2. letters[i] \in JoinSends(t)
      BY ElementOfSeq
    <2>3. Stamped(t, letters)[i] = [id |-> <<t, sent[t] + i>>, sender |-> t,
                                    dest |-> letters[i].dest, body |-> letters[i].body]
      BY DEF Stamped
    <2> QED BY <2>1, <2>2, <2>3 DEF Packet, JoinSends
  <1>7. Stamped(t, letters) \in Seq(Packet)
    BY <1>4, <1>5, <1>6, IsASeq DEF Stamped
  <1> QED BY <1>2, <1>3, <1>4, <1>5, <1>7, ConcatProperties DEF Says

LEMMA TakeShape ==
    ASSUME Calmly, NEW s \in Site, NEW t \in Site, link[s][t] # <<>>,
           NEW R \in SUBSET Site, NEW old, \A v \in R \ tee[t] : old[v] \in Uncopied(t),
           ~(s = t /\ t \in R \ tee[t]),
           NEW letters \in Seq(JoinSends(t)),
           TakeAmong(Linked(t, R, old), s, t, R, letters, <<>>)
    PROVE  /\ Takes(s, t, R, Says(s, t, letters), old)
           /\ sent' = [sent EXCEPT ![t] = @ + Len(letters)]
  <1> DEFINE q == Says(s, t, letters)
             base == Linked(t, R, old)
             cut == [base EXCEPT ![s][t] = Tail(@)]
  <1>1. q \in Seq(Packet) /\ q \o <<>> = q
    <2>1. q \in Seq(Packet)
      BY SaysTyped
    <2> HIDE DEF q
    <2> QED BY <2>1, ConcatEmptySeq
  <1>2. link \in Net(Packet) /\ tee \in [Site -> SUBSET Site] /\ s # t
    BY LinkingFacts DEF Calmly, Linking, Typing, MemberTypeOK
  <1>3. \A r \in Site : r \in R \ tee[t] => old[r] \in Seq(Packet)
    BY <1>2, UncopiedTyped
  <1>4. /\ base \in Net(Packet)
        /\ \A u, v \in Site : base[u][v] = IF u = t /\ v \in R \ tee[t] THEN old[v]
                                           ELSE link[u][v]
    BY <1>2, <1>3, LinkedTyped
  <1>5. base[s][t] = link[s][t] /\ base[s][t] # <<>>
    BY <1>4
  <1>6. /\ link' = Written(cut, t, R, q)
        /\ seen' = [seen EXCEPT ![t] = @ \cup {FirstOf(s, t).id}]
        /\ sent' = [sent EXCEPT ![t] = @ + Len(letters)]
    <2>1. /\ link' = Written(cut, t, R, Again1(s, t) \o Stamped(t, letters) \o <<>>)
          /\ seen' = [seen EXCEPT ![t] = @ \cup {FirstOf(s, t).id}]
          /\ sent' = [sent EXCEPT ![t] = @ + Len(letters)]
      BY DEF TakeAmong, Again1, Id
    <2> QED BY <1>1, <2>1 DEF Says
  <1> HIDE DEF q, base
  <1>7. /\ cut \in Net(Packet)
        /\ \A u, v \in Site : cut[u][v] = IF u = s /\ v = t THEN Tail(base[u][v])
                                          ELSE base[u][v]
    <2>1. base \in Net(Packet) /\ base[s][t] # <<>>
      BY <1>4, <1>5
    <2> QED BY <2>1, PoppedIn
  <1> HIDE DEF cut
  <1>8. \A u, v \in Site :
           link'[u][v] = IF u = t /\ v \in R THEN cut[u][v] \o q ELSE cut[u][v]
    BY <1>1, <1>6, <1>7, WrittenIn
  <1>9. ASSUME NEW u \in Site, NEW v \in Site
        PROVE  link'[u][v] = IF u = s /\ v = t THEN Tail(link[u][v])
                             ELSE IF u = t /\ v \in R
                             THEN (IF v \in tee[t] THEN link[u][v] ELSE old[v]) \o q
                             ELSE link[u][v]
    BY <1>2, <1>4, <1>5, <1>7, <1>8
  <1> QED BY <1>1, <1>2, <1>6, <1>9 DEF Takes, q

LEMMA TakeToShape ==
    ASSUME Calmly, NEW s \in Site, NEW t \in Site, link[s][t] # <<>>,
           NEW letters \in Seq(JoinSends(t)), TakeTo(s, t, tee[t], letters)
    PROVE  /\ Takes(s, t, tee[t], Says(s, t, letters), link[t])
           /\ sent' = [sent EXCEPT ![t] = @ + Len(letters)]
  <1>1. link \in Net(Packet) /\ tee[t] \in SUBSET Site
    BY DEF Calmly, Linking, Typing, MemberTypeOK
  <1>2. Linked(t, tee[t], link[t]) = link
    <2>1. Linked(t, tee[t], link[t]) =
             [link EXCEPT ![t] = [r \in Site |-> @[r]]]
      BY DEF Linked
    <2>2. [r \in Site |-> link[t][r]] = link[t]
      BY <1>1 DEF Net
    <2> QED BY <1>1, <2>1, <2>2 DEF Net
  <1>3. TakeAmong(Linked(t, tee[t], link[t]), s, t, tee[t], letters, <<>>)
    BY <1>2 DEF TakeTo, TakeWith
  <1>4. \A v \in tee[t] \ tee[t] : link[t][v] \in Uncopied(t)
    OBVIOUS
  <1>5. ~(s = t /\ t \in tee[t] \ tee[t])
    OBVIOUS
  <1> HIDE DEF Calmly
  <1> QED BY <1>1, <1>3, <1>4, <1>5, TakeShape

(* The letters of the election and of the release bring nobody in.         *)
LEMMA ChatLetters ==
    ASSUME NEW t \in Site, NEW elu \in Site, NEW p \in Site \cup {NoSite}
    PROVE  /\ BuildElectionWave(elu, p) \in Chat(t)
           /\ BuildElectionEcho(elu, p) \in Chat(t)
           /\ BuildElected(elu) \in Chat(t)
  <1>1. /\ BuildElectionWave(elu, p) \in Sends(t)
        /\ BuildElectionEcho(elu, p) \in Sends(t)
        /\ BuildElected(elu) \in Sends(t)
    BY ElectionLetters
  <1> QED BY <1>1 DEF Chat, ChatAction, BuildElectionWave, BuildElectionEcho,
                      BuildElected, Letter

LEMMA ChatIsJoin ==
    ASSUME NEW t \in Site
    PROVE  Chat(t) \subseteq JoinSends(t) /\ Seq(Chat(t)) \subseteq Seq(JoinSends(t))
  <1>1. Chat(t) \subseteq JoinSends(t)
    BY DEF Chat, JoinSends, JoinAction, ChatAction
  <1> QED BY <1>1, SeqMonotonic

LEMMA CalmShape ==
    ASSUME Calmly, NEW s \in Site, NEW t \in Site, link[s][t] # <<>>,
           NEW letters \in Seq(Chat(t)), TakeTo(s, t, tee[t], letters),
           waiting' = IF Gets(s, t, "ASKING_TO_JOIN")
                      THEN [waiting EXCEPT ![t] = Append(@, FirstOf(s, t).sender)]
                      ELSE waiting,
           directory' = [directory EXCEPT ![t] =
              IF Gets(s, t, "UPDATE_LISTE") THEN FirstOf(s, t).body.list
              ELSE IF Gets(s, t, "ADD_USER_CONFIRM") THEN WithUser(t, FirstOf(s, t).body.who)
              ELSE @],
           UNCHANGED <<tee, nb, asksLeft>>
    PROVE  Calm(s, t, letters)
  <1>1. letters \in Seq(JoinSends(t))
    BY ChatIsJoin
  <1>2. /\ Takes(s, t, tee[t], Says(s, t, letters), link[t])
        /\ sent' = [sent EXCEPT ![t] = @ + Len(letters)]
    BY <1>1, TakeToShape
  <1> QED BY <1>2 DEF Calm

LEMMA ElectionCalm ==
    ASSUME Calmly, NEW s \in Site, NEW t \in Site, link[s][t] # <<>>, ElectionStep(s, t)
    PROVE  \E letters \in Seq(Chat(t)) : Calm(s, t, letters)
  <1> DEFINE m == FirstOf(s, t)
  <1>1. /\ m \in Good /\ m.sender \in Site /\ m.body \in MemberBody
        /\ directory \in [Site -> Directory]
    BY FirstGood DEF Calmly, Typing, MemberTypeOK
  <1>2. ASSUME NEW letters \in Seq(Chat(t)), TakeTo(s, t, tee[t], letters),
               ~Gets(s, t, "ASKING_TO_JOIN"), ~Gets(s, t, "UPDATE_LISTE"),
               ~Gets(s, t, "ADD_USER_CONFIRM"), UNCHANGED <<nb, tee>>
        PROVE  \E letter \in Seq(Chat(t)) : Calm(s, t, letter)
    <2>1. waiting' = waiting /\ directory' = directory /\ asksLeft' = asksLeft
      BY DEF ElectionStep, joinVars
    <2>2. directory' = [directory EXCEPT ![t] = @]
      BY <1>1, <2>1
    <2>3. Calm(s, t, letters)
      BY <1>2, <2>1, <2>2, CalmShape
    <2> QED BY <2>3
  <1>3. ASSUME NEW a, Gets(s, t, a), a \in ChatAction
        PROVE  /\ ~Gets(s, t, "ASKING_TO_JOIN") /\ ~Gets(s, t, "UPDATE_LISTE")
               /\ ~Gets(s, t, "ADD_USER_CONFIRM")
    BY <1>3 DEF Gets, ChatAction
  <1>4. <<>> \in Seq(Chat(t))
    OBVIOUS
  <1>5. ASSUME NEW elu \in Site, NEW p \in Site \cup {NoSite}
        PROVE  /\ <<BuildElectionWave(elu, p)>> \in Seq(Chat(t))
               /\ <<BuildElectionEcho(elu, p)>> \in Seq(Chat(t))
    BY ChatLetters
  <1>6. election[t].elu \in Site \cup {NoSite} /\ election[t].parent \in Site \cup {NoSite}
    BY DEF Calmly, Typing, MemberTypeOK
  <1>7. m.body.action \in {"WAVE_ELECTION", "ECHO_ELECTION", "ELECTED"} => m.body.elu \in Site
    BY <1>1, BodyFacts
  <1>a. CASE AdoptWave(s, t)
    <2>1. Gets(s, t, "WAVE_ELECTION") /\ m.body.elu \in Site
      BY <1>a, <1>7 DEF AdoptWave, Gets
    <2>2. <<IF nb[t] = 1 THEN BuildElectionEcho(m.body.elu, m.sender)
            ELSE BuildElectionWave(m.body.elu, m.sender)>> \in Seq(Chat(t))
      BY <1>1, <1>5, <2>1
    <2> QED BY <1>2, <1>3, <1>a, <2>1, <2>2 DEF AdoptWave, ChatAction
  <1>b. CASE IgnoreWave(s, t)
    BY <1>2, <1>3, <1>4, <1>b DEF IgnoreWave, ChatAction
  <1>c. CASE CountWave(s, t)
    <2>1. /\ Gets(s, t, "WAVE_ELECTION") /\ m.body.elu \in Site
          /\ election[t].elu = m.body.elu
      BY <1>c, <1>7 DEF CountWave, Gets
    <2>2. (IF election[t].pending = 1
           THEN <<BuildElectionEcho(election[t].elu, election[t].parent)>> ELSE <<>>)
             \in Seq(Chat(t))
      BY <1>4, <1>5, <1>6, <2>1
    <2> QED BY <1>2, <1>3, <1>c, <2>1, <2>2 DEF CountWave, ChatAction
  <1>d. CASE IgnoreEcho(s, t)
    BY <1>2, <1>3, <1>4, <1>d DEF IgnoreEcho, ChatAction
  <1>e. CASE WaitForMoreEchoes(s, t)
    BY <1>2, <1>3, <1>4, <1>e DEF WaitForMoreEchoes, CountEcho, ChatAction
  <1>f. CASE PassEchoToParent(s, t)
    <2>1. /\ Gets(s, t, "ECHO_ELECTION") /\ m.body.elu \in Site
          /\ election[t].elu = m.body.elu
      BY <1>f, <1>7 DEF PassEchoToParent, CountEcho, Gets, Answers
    <2>2. <<BuildElectionEcho(election[t].elu, election[t].parent)>> \in Seq(Chat(t))
      BY <1>5, <1>6, <2>1
    <2> QED BY <1>2, <1>3, <1>f, <2>1, <2>2 DEF PassEchoToParent, CountEcho, ChatAction
  <1>g. CASE HandleElected(s, t)
    BY <1>2, <1>3, <1>4, <1>g DEF HandleElected, ChatAction
  <1>h. CASE Pass(s, t)
    BY <1>2, <1>4, <1>h DEF Pass, RelayTo, Gets, Receives
  <1> QED BY <1>a, <1>b, <1>c, <1>d, <1>e, <1>f, <1>g, <1>h
          DEF ElectionStep, WaveStep, EchoStep

LEMMA SeqWithin ==
    ASSUME NEW P, NEW Q, NEW q \in Seq(P), \A i \in 1 .. Len(q) : q[i] \in Q
    PROVE  q \in Seq(Q)
  OBVIOUS

(* The elected site writes to those it lets in as well.                    *)
LEMMA WelcomesAreJoin ==
    ASSUME Calmly, NEW t \in Site
    PROVE  /\ <<BuildElected(t)>> \o Welcomes(t) \in Seq(JoinSends(t))
           /\ Len(Welcomes(t)) = 3 * Len(waiting[t])
  <1>1. Typing /\ Len(waiting[t]) \in Nat
    BY LenProperties DEF Calmly, Typing, MemberTypeOK
  <1>2. BuildElected(t) \in JoinSends(t)
    BY ChatLetters, ChatIsJoin
  <1>3. Welcomes(t) \in Seq(Sends(t)) /\ Len(Welcomes(t)) = 3 * Len(waiting[t])
    BY <1>1, WelcomesTyped
  <1>4. ASSUME NEW k \in 1 .. Len(Welcomes(t)) PROVE Welcomes(t)[k] \in JoinSends(t)
    <2>1. Welcomes(t)[k] = Welcome(t, (k + 2) \div 3)[((k + 2) % 3) + 1]
      BY <1>1, <1>3 DEF Welcomes
    <2>2. ((k + 2) % 3) + 1 \in 1 .. 3
      BY <1>1, <1>3
    <2>3. ASSUME NEW i, NEW r \in 1 .. 3
          PROVE  Welcome(t, i)[r].body.action \in
                    {"UPDATE_LISTE", "ADD_USER_CONFIRM", "RELEASE_ELECTION"}
      <3>1. r = 1 \/ r = 2 \/ r = 3
        OBVIOUS
      <3> QED BY <3>1 DEF Welcome, UpdateListe, AddUserConfirm, ReleaseElection, Plain, Letter
    <2>4. Welcomes(t)[k] \in Sends(t)
      BY <1>3, ElementOfSeq
    <2>5. Welcomes(t)[k].body.action \in
             {"UPDATE_LISTE", "ADD_USER_CONFIRM", "RELEASE_ELECTION"}
      BY <2>1, <2>2, <2>3
    <2> QED BY <2>4, <2>5 DEF JoinSends, JoinAction, ChatAction
  <1>5. Welcomes(t) \in Seq(JoinSends(t))
    BY <1>3, <1>4, SeqWithin
  <1>6. <<BuildElected(t)>> \in Seq(JoinSends(t))
    BY <1>2
  <1> QED BY <1>3, <1>5, <1>6, ConcatProperties

LEMMA WelcomingShape ==
    ASSUME Calmly, NEW s \in Site, NEW t \in Site, link[s][t] # <<>>,
           StartJoiningProcess(s, t), waiting[t] # <<>>
    PROVE  \E old \in [ToSet(waiting[t]) -> Uncopied(t)] : Welcoming(s, t, old)
  <1> DEFINE R == tee[t] \cup ToSet(waiting[t])
             letters == <<BuildElected(t)>> \o Welcomes(t)
  <1>1. /\ Typing /\ waiting[t] \in Seq(Newcomer) /\ directory[t] \in Seq(Site)
        /\ tee[t] \subseteq Site
    BY DEF Calmly, Typing, MemberTypeOK, Directory
  <1>2. t \in Old
    BY DEF Old, Calmly, Typing
  <1>3. letters \in Seq(JoinSends(t))
    BY WelcomesAreJoin
  <1>4. LinkedBothWays(t, waiting[t])[t] = R
    BY DEF LinkedBothWays
  <1>5. PICK old \in [ToSet(waiting[t]) -> Uncopied(t)] :
           TakeAmong(Linked(t, R, old), s, t, R, letters, <<>>)
    BY <1>4 DEF StartJoiningProcess
  <1>6. ToSet(waiting[t]) \subseteq Newcomer
    BY <1>1 DEF ToSet
  <1>7. /\ R \in SUBSET Site /\ \A v \in R \ tee[t] : old[v] \in Uncopied(t)
        /\ ~(s = t /\ t \in R \ tee[t])
    BY <1>1, <1>2, <1>6, NewcomerAssumption DEF Old
  <1>8. /\ Takes(s, t, R, Says(s, t, letters), old)
        /\ sent' = [sent EXCEPT ![t] = @ + Len(letters)]
    <2> HIDE DEF R, letters
    <2> QED BY <1>3, <1>5, <1>7, TakeShape
  <1>9. /\ Gets(s, t, "ECHO_ELECTION")
        /\ directory' = [directory EXCEPT ![t] = ListWith(t, Len(waiting[t]))]
        /\ waiting' = [waiting EXCEPT ![t] = <<>>]
        /\ nb' = [nb EXCEPT ![t] = @ + Len(waiting[t])]
        /\ tee' = LinkedBothWays(t, waiting[t])
        /\ UNCHANGED asksLeft
    BY DEF StartJoiningProcess, LastEcho
  <1>10. ListWith(t, Len(waiting[t])) = directory[t] \o waiting[t]
    <2>1. SubSeq(waiting[t], 1, Len(waiting[t])) = waiting[t]
      BY <1>1
    <2> QED BY <2>1 DEF ListWith
  <1> QED BY <1>2, <1>8, <1>9, <1>10 DEF Welcoming

LEMMA JoinStepShape ==
    ASSUME Calmly, NEW s \in Site, NEW t \in Site, link[s][t] # <<>>, JoinStep(s, t)
    PROVE  \/ \E letters \in Seq(Chat(t)) : Calm(s, t, letters)
           \/ \E old \in [ToSet(waiting[t]) -> Uncopied(t)] : Welcoming(s, t, old)
  <1> DEFINE m == FirstOf(s, t)
  <1>1. /\ directory \in [Site -> Directory] /\ waiting \in [Site -> Seq(Newcomer)]
        /\ Typing
    BY DEF Calmly, Typing, MemberTypeOK
  <1>2. /\ <<>> \in Seq(Chat(t)) /\ WaveIf(t) \in Seq(Chat(t)) /\ WaveAgain(t) \in Seq(Chat(t))
        /\ <<BuildElected(t)>> \in Seq(Chat(t))
    <2>1. BuildElectionWave(t, t) \in Chat(t) /\ BuildElected(t) \in Chat(t)
      BY ChatLetters
    <2>2. /\ <<>> \in Seq(Chat(t)) /\ <<BuildElectionWave(t, t)>> \in Seq(Chat(t))
          /\ <<BuildElected(t)>> \in Seq(Chat(t))
      BY <2>1, OneLetter
    <2> QED BY <2>2 DEF WaveIf, WaveAgain
  <1>3. ReleaseElection \in Chat(t)
    BY PlainLetters, NoSiteFacts DEF Dest, Chat, ChatAction, ReleaseElection, Plain, Letter
  <1>4. directory = [directory EXCEPT ![t] = @]
    BY <1>1
  <1>a. CASE HandlePeerAskingToJoin(s, t)
    <2>1. Gets(s, t, "ASKING_TO_JOIN") /\ ~Gets(s, t, "UPDATE_LISTE")
          /\ ~Gets(s, t, "ADD_USER_CONFIRM")
      BY <1>a DEF HandlePeerAskingToJoin, Gets
    <2>2. Calm(s, t, WaveIf(t))
      BY <1>a, <1>2, <1>4, <2>1, CalmShape DEF HandlePeerAskingToJoin
    <2> QED BY <1>2, <2>2
  <1>b. CASE StartJoiningProcess(s, t)
    <2>1. CASE waiting[t] # <<>>
      BY <1>b, <2>1, WelcomingShape
    <2>2. CASE waiting[t] = <<>>
      <3>1. ToSet(waiting[t]) = {}
        BY <2>2 DEF ToSet
      <3>2. LinkedBothWays(t, waiting[t]) = tee
        BY <3>1 DEF LinkedBothWays, Calmly, Typing, MemberTypeOK
      <3>3. PICK old \in [ToSet(waiting[t]) -> Uncopied(t)] :
               TakeAmong(Linked(t, tee[t], old), s, t, tee[t],
                         <<BuildElected(t)>> \o Welcomes(t), <<>>)
        BY <1>b, <3>2 DEF StartJoiningProcess
      <3>4. <<BuildElected(t)>> \o Welcomes(t) = <<BuildElected(t)>>
        <4>1. Welcomes(t) = <<>>
          BY <2>2 DEF Welcomes
        <4> QED BY <4>1
      <3>5. Linked(t, tee[t], old) = link
        <4>1. link \in [Site -> [Site -> Seq(Packet)]]
          BY DEF Calmly, Linking, Net
        <4>2. [r \in Site |-> IF r \in tee[t] \ tee[t] THEN old[r] ELSE link[t][r]] = link[t]
          BY <4>1
        <4> QED BY <4>1, <4>2 DEF Linked
      <3>6. TakeTo(s, t, tee[t], <<BuildElected(t)>>)
        BY <3>3, <3>4, <3>5 DEF TakeTo, TakeWith
      <3>7. /\ Gets(s, t, "ECHO_ELECTION")
            /\ directory' = [directory EXCEPT ![t] = ListWith(t, Len(waiting[t]))]
            /\ waiting' = [waiting EXCEPT ![t] = <<>>]
            /\ nb' = [nb EXCEPT ![t] = @ + Len(waiting[t])]
            /\ tee' = LinkedBothWays(t, waiting[t])
            /\ UNCHANGED asksLeft
        BY <1>b DEF StartJoiningProcess, LastEcho
      <3>8. ListWith(t, Len(waiting[t])) = directory[t]
        BY <1>1, <2>2 DEF ListWith, Directory
      <3>9. waiting' = waiting /\ directory' = directory /\ UNCHANGED <<tee, nb, asksLeft>>
        BY <1>1, <2>2, <3>2, <3>7, <3>8 DEF Calmly, Typing, MemberTypeOK
      <3>10. ~Gets(s, t, "ASKING_TO_JOIN") /\ ~Gets(s, t, "UPDATE_LISTE")
             /\ ~Gets(s, t, "ADD_USER_CONFIRM")
        BY <3>7 DEF Gets
      <3>11. Calm(s, t, <<BuildElected(t)>>)
        BY <1>2, <1>4, <3>6, <3>9, <3>10, CalmShape
      <3> QED BY <1>2, <3>11
    <2> QED BY <2>1, <2>2
  <1>c. CASE HandleUpdateListe(s, t)
    <2>1. Gets(s, t, "UPDATE_LISTE") /\ ~Gets(s, t, "ASKING_TO_JOIN")
      BY <1>c DEF HandleUpdateListe, Gets
    <2>2. Calm(s, t, <<>>)
      BY <1>c, <1>2, <2>1, CalmShape DEF HandleUpdateListe
    <2> QED BY <1>2, <2>2
  <1>d. CASE HandleAddUserConfirm(s, t)
    <2>1. Gets(s, t, "ADD_USER_CONFIRM") /\ ~Gets(s, t, "ASKING_TO_JOIN")
          /\ ~Gets(s, t, "UPDATE_LISTE")
      BY <1>d DEF HandleAddUserConfirm, Gets
    <2>2. Calm(s, t, <<>>)
      BY <1>d, <1>2, <2>1, CalmShape DEF HandleAddUserConfirm
    <2> QED BY <1>2, <2>2
  <1>e. CASE HandleReleaseElected(s, t)
    <2>1. ~Gets(s, t, "UPDATE_LISTE") /\ ~Gets(s, t, "ASKING_TO_JOIN")
          /\ ~Gets(s, t, "ADD_USER_CONFIRM")
      BY <1>e DEF HandleReleaseElected, Gets
    <2>2. Calm(s, t, WaveAgain(t))
      BY <1>e, <1>2, <1>4, <2>1, CalmShape DEF HandleReleaseElected, joinVars
    <2> QED BY <1>2, <2>2
  <1> QED BY <1>a, <1>b, <1>c, <1>d, <1>e DEF JoinStep

(* Nobody leaves: there is nothing to leave with.                          *)
LEMMA NoLeaveStep ==
    ASSUME Calmly, NEW s \in Site, NEW t \in Site, link[s][t] # <<>>
    PROVE  ~LeaveStep(s, t) /\ ~UserLeaves(s) /\ ~DoneWithSCLeaving(s)
  <1>1. FirstOf(s, t).body.action \in JoinAction
    BY LinkingFacts DEF Packet
  <1>2. /\ \A u \in Site : section[u] = 0 /\ goal[u] # "LEAVING"
        /\ stays = {}
    BY DEF Calmly, Typing, MemberTypeOK
  <1>3. ~UserLeaves(s) /\ ~DoneWithSCLeaving(s)
    BY <1>2 DEF UserLeaves, DoneWithSCLeaving
  <1>4. ~LeaveStep(s, t)
    BY <1>1, <1>2
       DEF LeaveStep, HandleNeighborsSearch, HandleFindNeighbors, HandleIMNeighborMessage,
           StartLeavingProcess, ReceiveLeavingProcess, HandleTeeUpdate, RestartTee, Gets,
           JoinAction, ChatAction
  <1> QED BY <1>3, <1>4

Talk ==
    \E s, t \in Site : \E letters \in Seq(Chat(t)) : Calm(s, t, letters)
Welcomed ==
    \E s, t \in Site : \E old \in [ToSet(waiting[t]) -> Uncopied(t)] : Welcoming(s, t, old)

LEMMA StepShape ==
    ASSUME Calmly, MemberNext
    PROVE  plan' = plan /\ ((\E n \in Newcomer : AskPeerToJoinNetwork(n)) \/ Talk \/ Welcomed)
  <1>1. ASSUME NEW s \in Site, UserLeaves(s) \/ DoneWithSCLeaving(s) PROVE FALSE
    <2>1. section[s] = 0 /\ stays = {}
      BY DEF Calmly, Typing, MemberTypeOK
    <2> QED BY <1>1, <2>1 DEF UserLeaves, DoneWithSCLeaving
  <1>2. ASSUME NEW s \in Site, NEW t \in Site, MemberStep(s, t) PROVE Talk \/ Welcomed
    <2>1. CASE ElectionStep(s, t)
      BY <1>2, <2>1, ElectionCalm DEF MemberStep, Talk
    <2>2. CASE JoinStep(s, t)
      BY <1>2, <2>2, JoinStepShape DEF MemberStep, Talk, Welcomed
    <2>3. CASE LeaveStep(s, t)
      BY <1>2, <2>3, NoLeaveStep DEF MemberStep
    <2> QED BY <1>2, <2>1, <2>2, <2>3 DEF MemberStep
  <1> QED BY <1>1, <1>2 DEF MemberNext

(* A newcomer asks: one message more on the link to its peer.              *)
Request(n) ==
    [id |-> <<n, sent[n] + 1>>, sender |-> n, dest |-> plan.peer[n],
     body |-> Plain("ASKING_TO_JOIN")]

LEMMA AskShape ==
    ASSUME Calmly, NEW n \in Newcomer, AskPeerToJoinNetwork(n)
    PROVE  /\ n \in Site /\ plan.peer[n] \in Old /\ n # plan.peer[n]
           /\ Request(n) \in Packet
           /\ \A u, v \in Site :
                 link'[u][v] = IF u = n /\ v = plan.peer[n]
                               THEN Append(link[u][v], Request(n)) ELSE link[u][v]
           /\ sent' = [sent EXCEPT ![n] = @ + 1]
           /\ nb' = [nb EXCEPT ![n] = @ + 1]
           /\ asksLeft' = [asksLeft EXCEPT ![n] = @ - 1] /\ asksLeft[n] > 0
           /\ UNCHANGED <<seen, tee, directory, waiting>>
  <1>1. n \in Site /\ plan.peer[n] \in Old /\ n # plan.peer[n]
    BY LeaversOld, NewcomerAssumption DEF Old, Calmly, Typing, MemberTypeOK
  <1> DEFINE letters == <<AskingToJoin(plan.peer[n])>>
  <1>2. letters \in Seq(Sends(n)) /\ Len(letters) = 1
    <2>1. AskingToJoin(plan.peer[n]) \in Sends(n)
      BY <1>1, PlainLetters DEF Dest, Old
    <2> QED BY <2>1
  <1>3. sent[n] \in Nat
    BY <1>1 DEF Calmly, Typing, MemberTypeOK, LinksTypeOK
  <1>4. Stamped(n, letters) = <<Request(n)>>
    BY <1>2 DEF Stamped, Request, AskingToJoin, Letter
  <1>5. Stamped(n, letters) \in Seq(Good)
    BY <1>1, <1>2, <1>3, StampedIn
  <1>6. Request(n) \in Good
    <2>1. <<Request(n)>> \in Seq(Good)
      BY <1>4, <1>5
    <2>2. <<Request(n)>>[1] \in Good
      BY <2>1, ElementOfSeq
    <2> QED BY <2>2
  <1>7. Request(n) \in Packet
    BY <1>6 DEF Request, Packet, Plain, JoinAction
  <1>8. /\ link' = Written(link, n, {plan.peer[n]}, <<Request(n)>>)
        /\ sent' = [sent EXCEPT ![n] = @ + 1]
        /\ seen' = seen
    BY <1>2, <1>4 DEF AskPeerToJoinNetwork, OriginateTo
  <1>9. link \in Net(Packet) /\ <<Request(n)>> \in Seq(Packet)
    BY <1>7 DEF Calmly, Linking
  <1>10. \A u, v \in Site :
            link'[u][v] = IF u = n /\ v = plan.peer[n]
                          THEN link[u][v] \o <<Request(n)>> ELSE link[u][v]
    <2> DEFINE q == <<Request(n)>>
    <2>1. q \in Seq(Packet) /\ link' = Written(link, n, {plan.peer[n]}, q)
      BY <1>8, <1>9
    <2> HIDE DEF q
    <2>2. \A u, v \in Site :
             Written(link, n, {plan.peer[n]}, q)[u][v] =
                IF u = n /\ v \in {plan.peer[n]} THEN link[u][v] \o q ELSE link[u][v]
      BY <1>1, <1>9, <2>1, WrittenIn
    <2>3. \A u, v \in Site :
             link'[u][v] = IF u = n /\ v = plan.peer[n] THEN link[u][v] \o q ELSE link[u][v]
      BY <2>1, <2>2
    <2> QED BY <2>3 DEF q
  <1>11. \A u, v \in Site : link[u][v] \o <<Request(n)>> = Append(link[u][v], Request(n))
    <2>1. \A u, v \in Site : link[u][v] \in Seq(Packet)
      BY <1>9 DEF Net
    <2> HIDE DEF Request
    <2> QED BY <2>1, <1>7
  <1>12. /\ nb' = [nb EXCEPT ![n] = @ + 1]
         /\ asksLeft' = [asksLeft EXCEPT ![n] = @ - 1] /\ asksLeft[n] > 0
         /\ UNCHANGED <<tee, directory, waiting>>
    BY DEF AskPeerToJoinNetwork
  <1>13. \A u, v \in Site :
            link'[u][v] = IF u = n /\ v = plan.peer[n]
                          THEN Append(link[u][v], Request(n)) ELSE link[u][v]
    <2> SUFFICES ASSUME NEW u \in Site, NEW v \in Site
                 PROVE  link'[u][v] = IF u = n /\ v = plan.peer[n]
                                      THEN Append(link[u][v], Request(n)) ELSE link[u][v]
      OBVIOUS
    <2>1. link[u][v] \o <<Request(n)>> = Append(link[u][v], Request(n))
      BY <1>11
    <2>2. link'[u][v] = IF u = n /\ v = plan.peer[n]
                        THEN link[u][v] \o <<Request(n)>> ELSE link[u][v]
      BY <1>10
    <2> QED BY <2>1, <2>2, Zenon
  <1> HIDE DEF letters
  <1> QED BY <1>1, <1>7, <1>8, <1>12, <1>13

LEMMA TakesNet ==
    ASSUME Calmly, Typing', plan' = plan, NEW s \in Site, NEW t \in Site,
           NEW R, NEW q, NEW old, Takes(s, t, R, q, old)
    PROVE  (link \in Net(Packet))'
  <1>1. link \in Net(Packet) /\ tee \in [Site -> SUBSET Site]
    BY DEF Calmly, Linking, Typing, MemberTypeOK
  <1>2. Packet' = Packet /\ Good' = Good
    BY DEF Packet, Good, Sound
  <1>3. ASSUME NEW u \in Site, NEW v \in Site PROVE link'[u][v] \in Seq(Packet)
    <2>1. link[u][v] \in Seq(Packet) /\ q \in Seq(Packet)
      BY <1>1 DEF Net, Takes
    <2>2. CASE u = s /\ v = t
      <3>1. link'[u][v] = Tail(link[u][v]) /\ link[u][v] # <<>>
        BY <2>2 DEF Takes
      <3> QED BY <2>1, <3>1
    <2>3. CASE ~(u = s /\ v = t) /\ u = t /\ v \in R
      <3>1. link'[u][v] = (IF v \in tee[t] THEN link[u][v] ELSE old[v]) \o q
        BY <2>3 DEF Takes
      <3>2. v \notin tee[t] => old[v] \in Uncopied(t)
        BY <2>3 DEF Takes
      <3>3. v \notin tee[t] => old[v] \in Seq(Packet)
        BY <1>1, <3>2, UncopiedTyped
      <3> QED BY <2>1, <3>1, <3>3
    <2>4. CASE ~(u = s /\ v = t) /\ ~(u = t /\ v \in R)
      BY <2>1, <2>4 DEF Takes
    <2> QED BY <2>2, <2>3, <2>4
  <1>4. link' \in [Site -> [Site -> Seq(Good)]]
    BY <1>2 DEF Typing, Net
  <1>5. link' \in [Site -> [Site -> Seq(Packet)]]
    BY <1>3, <1>4
  <1> QED BY <1>2, <1>5 DEF Net

(* Those that wait at t have asked t.                                      *)
LEMMA WaitersPeer ==
    ASSUME Calmly, NEW t \in Site, NEW n \in ToSet(waiting[t])
    PROVE  n \in Newcomer /\ plan.peer[n] = t
  <1>1. PICK i \in DOMAIN waiting[t] : n = waiting[t][i]
    BY DEF ToSet
  <1>2. waiting[t] \in Seq(Newcomer)
    BY DEF Calmly, Typing, MemberTypeOK
  <1> QED BY <1>1, <1>2 DEF Calmly, Linking

LEMMA CalmlyStep ==
    ASSUME Calmly, [MemberNext]_allVars
    PROVE  Calmly'
  <1>1. Typing'
    BY TypingStep DEF Calmly
  <1>2. CASE UNCHANGED allVars
    <2>1. plan' = plan /\ link' = link /\ tee' = tee /\ waiting' = waiting
      BY <1>2 DEF allVars, memberVars, vars, linkVars, joinVars
    <2> QED BY <1>1, <2>1 DEF Calmly, Linking, Packet, Good, Sound
  <1>3. ASSUME MemberNext, NEW n \in Newcomer, AskPeerToJoinNetwork(n), plan' = plan
        PROVE  Linking'
    <2>1. /\ \A u, v \in Site :
                 link'[u][v] = IF u = n /\ v = plan.peer[n]
                               THEN Append(link[u][v], Request(n)) ELSE link[u][v]
          /\ Request(n) \in Packet /\ UNCHANGED <<tee, waiting>>
      BY <1>3, AskShape
    <2>2. link \in Net(Packet) /\ Packet' = Packet
      BY <1>3 DEF Calmly, Linking, Packet, Good, Sound
    <2>3. link' \in [Site -> [Site -> Seq(Good')]]
      BY <1>1 DEF Typing, Net
    <2>4. ASSUME NEW u \in Site, NEW v \in Site PROVE link'[u][v] \in Seq(Packet)
      <3>1. link[u][v] \in Seq(Packet)
        BY <2>2 DEF Net
      <3>2. Append(link[u][v], Request(n)) \in Seq(Packet)
        BY <2>1, <3>1
      <3> QED BY <2>1, <3>1, <3>2
    <2>5. (link \in Net(Packet))'
      BY <2>2, <2>3, <2>4 DEF Net
    <2>6. \A a, b \in Site : link'[a][b] # <<>> =>
             b \in tee[a] \/ (a \in Newcomer /\ b = plan.peer[a])
      BY <2>1 DEF Calmly, Linking
    <2> QED BY <1>3, <2>1, <2>5, <2>6 DEF Calmly, Linking
  <1>4. ASSUME NEW s \in Site, NEW t \in Site, NEW letters \in Seq(Chat(t)),
               Calm(s, t, letters), plan' = plan
        PROVE  Linking'
    <2>1. Takes(s, t, tee[t], Says(s, t, letters), link[t])
      BY <1>4 DEF Calm
    <2>2. (link \in Net(Packet))'
      BY <1>1, <1>4, <2>1, TakesNet
    <2>3. \A a, b \in Site : link'[a][b] # <<>> =>
             b \in tee[a] \/ (a \in Newcomer /\ b = plan.peer[a])
      BY <2>1 DEF Calmly, Linking, Takes
    <2>4. \A u \in Site : \A i \in DOMAIN waiting'[u] : plan.peer[waiting'[u][i]] = u
      <3>1. CASE waiting' = waiting
        BY <3>1 DEF Calmly, Linking
      <3>2. CASE Gets(s, t, "ASKING_TO_JOIN")
        <4>1. waiting' = [waiting EXCEPT ![t] = Append(@, FirstOf(s, t).sender)]
          BY <1>4, <3>2 DEF Calm
        <4>2. FirstOf(s, t) \in Packet /\ waiting \in [Site -> Seq(Newcomer)]
          BY <2>1, LinkingFacts DEF Takes, Calmly, Typing, MemberTypeOK
        <4>3. /\ FirstOf(s, t).dest = t /\ FirstOf(s, t).dest = plan.peer[FirstOf(s, t).sender]
              /\ FirstOf(s, t).sender \in Newcomer
          BY <3>2, <4>2, NoSiteFacts
             DEF Gets, Receives, Processes, Packet, Good, Sound
        <4> QED BY SMTT(30), <4>1, <4>2, <4>3 DEF Calmly, Linking
      <3> QED BY <1>4, <3>1, <3>2 DEF Calm
    <2>5. tee' = tee
      BY <1>4 DEF Calm
    <2> QED BY <1>4, <2>2, <2>3, <2>4, <2>5 DEF Calmly, Linking
  <1>5. ASSUME NEW s \in Site, NEW t \in Site, NEW old \in [ToSet(waiting[t]) -> Uncopied(t)],
               Welcoming(s, t, old), plan' = plan
        PROVE  Linking'
    <2> DEFINE R == tee[t] \cup ToSet(waiting[t])
    <2>1. \E q : Takes(s, t, R, q, old)
      BY <1>5 DEF Welcoming
    <2>2. (link \in Net(Packet))'
      BY <1>1, <1>5, <2>1, TakesNet
    <2>3. \A n \in ToSet(waiting[t]) : n \in Newcomer /\ plan.peer[n] = t
      BY WaitersPeer
    <2>4. /\ t \in Old
          /\ \A r \in Site : tee'[r] = IF r = t THEN R
                                       ELSE IF r \in ToSet(waiting[t]) THEN tee[r] \cup {t}
                                       ELSE tee[r]
      BY <1>5 DEF Welcoming, LinkedBothWays
    <2>9. /\ \A a, b \in Site : link[a][b] # <<>> =>
                b \in tee[a] \/ (a \in Newcomer /\ b = plan.peer[a])
          /\ \A a, b \in Site : b \in tee[a] => a \in tee[b]
          /\ \A a \in Old : tee[a] \ Newcomer = Neighbours[a]
          /\ \A n \in Newcomer : tee[n] \subseteq {plan.peer[n]}
      BY DEF Calmly, Linking
    <2>10. \A a \in Site : tee[a] \subseteq tee'[a]
      BY <2>4
    <2>5. ASSUME NEW a \in Site, NEW b \in Site, link'[a][b] # <<>>
          PROVE  b \in tee'[a] \/ (a \in Newcomer /\ b = plan.peer[a])
      <3>1. CASE a = t /\ b \in R
        BY <2>4, <3>1
      <3>2. CASE ~(a = t /\ b \in R)
        <4>1. link[a][b] # <<>>
          BY <2>1, <2>5, <3>2 DEF Takes
        <4> QED BY <2>9, <2>10, <4>1
      <3> QED BY <3>1, <3>2
    <2>6. ASSUME NEW a \in Site, NEW b \in Site, b \in tee'[a] PROVE a \in tee'[b]
      <3>1. CASE b \in tee[a]
        BY <2>9, <2>10, <3>1
      <3>2. CASE b \notin tee[a]
        <4>1. (a = t /\ b \in ToSet(waiting[t])) \/ (a \in ToSet(waiting[t]) /\ b = t)
          BY <2>4, <2>6, <3>2
        <4> QED BY <2>3, <2>4, <4>1 DEF Old
      <3> QED BY <3>1, <3>2
    <2>7. /\ \A a \in Old : tee'[a] \ Newcomer = Neighbours[a]
          /\ \A n \in Newcomer : tee'[n] \subseteq {plan.peer[n]}
      <3>1. ASSUME NEW a \in Old PROVE tee'[a] \ Newcomer = Neighbours[a]
        <4>1. tee'[a] = IF a = t THEN R ELSE tee[a]
          BY <2>3, <2>4 DEF Old
        <4> QED BY <2>3, <2>9, <4>1
      <3>2. ASSUME NEW n \in Newcomer PROVE tee'[n] \subseteq {plan.peer[n]}
        <4>1. tee'[n] = IF n \in ToSet(waiting[t]) THEN tee[n] \cup {t} ELSE tee[n]
          BY <2>4, NewcomerAssumption DEF Old
        <4> QED BY <2>3, <2>9, <4>1
      <3> QED BY <3>1, <3>2
    <2>8. \A u \in Site : \A i \in DOMAIN waiting'[u] : plan.peer[waiting'[u][i]] = u
      <3>1. waiting' = [waiting EXCEPT ![t] = <<>>] /\ waiting \in [Site -> Seq(Newcomer)]
        BY <1>5 DEF Welcoming, Calmly, Typing, MemberTypeOK
      <3> QED BY <3>1 DEF Calmly, Linking
    <2> QED BY <1>5, <2>2, <2>5, <2>6, <2>7, <2>8 DEF Linking
  <1>6. CASE MemberNext
    <2>1. plan' = plan /\ ((\E n \in Newcomer : AskPeerToJoinNetwork(n)) \/ Talk \/ Welcomed)
      BY <1>6, StepShape
    <2>2. Linking'
      BY <1>3, <1>4, <1>5, <1>6, <2>1 DEF Talk, Welcomed
    <2> QED BY <1>1, <2>1, <2>2 DEF Calmly
  <1> QED BY <1>2, <1>6

LEMMA CalmlyInit ==
    ASSUME MemberInit, OnlyJoins
    PROVE  Calmly
  <1>1. Typing
    BY MemberInitTyped
  <1>2. /\ link = [s \in Site |-> [t \in Site |-> <<>>]] /\ tee = Neighbours
        /\ waiting = [s \in Site |-> <<>>] /\ plan \in Plan
    BY DEF MemberInit, Init, LinksInit
  <1>3. link \in Net(Packet)
    BY <1>2 DEF Net
  <1>4. \A a \in Old : Neighbours[a] \cap Newcomer = {}
    BY NeighboursAssumption, NewcomerAssumption DEF Old
  <1>5. Linking
    BY <1>2, <1>3, <1>4, NeighboursAssumption, NewcomerAssumption DEF Linking, Old
  <1> QED BY <1>1, <1>2, <1>5 DEF Calmly, OnlyJoins

(* The first network is connected.                                         *)
FirstConnected ==
    \A S \in SUBSET Old : S # {} /\ (\A s \in S : Neighbours[s] \subseteq S) => S = Old

(* Wherever the newcomers ask, those that are in the network can all reach *)
(* each other, as they could at first: a newcomer is linked to its peer,   *)
(* both ways, and no link of the first network goes away.                  *)
THEOREM JoinsConnected ==
    ASSUME OnlyJoins, FirstConnected
    PROVE  MemberSpec => []StayConnected
  <1>1. Calmly => StayConnected
    <2> SUFFICES ASSUME Calmly, NEW S \in SUBSET Member, S # {}, Closed(S)
                 PROVE  S = Member
      BY DEF StayConnected
    <2>1. /\ left = {} /\ Member = {s \in Site : tee[s] # {}}
          /\ tee \in [Site -> SUBSET Site]
      BY DEF Calmly, Typing, MemberTypeOK, Member
    <2>2. \A s \in Site : tee[s] \subseteq Member
      BY <2>1 DEF Calmly, Linking
    <2>3. \A n \in Newcomer : plan.peer[n] \in Old
      BY LeaversOld DEF Old, Calmly, Typing, MemberTypeOK
    <2>4. PICK s \in S : TRUE
      OBVIOUS
    <2>5. S \cap Old # {}
      <3>1. s \in Newcomer => tee[s] = {plan.peer[s]}
        BY <2>1, <2>4 DEF Calmly, Linking
      <3>2. tee[s] \subseteq S
        BY <2>1, <2>2, <2>4 DEF Closed
      <3> QED BY <2>1, <2>3, <2>4, <3>1, <3>2 DEF Old
    <2>6. \A a \in S \cap Old : Neighbours[a] \subseteq S \cap Old
      <3> SUFFICES ASSUME NEW a \in S \cap Old PROVE Neighbours[a] \subseteq S \cap Old
        OBVIOUS
      <3>1. Neighbours[a] = tee[a] \ Newcomer /\ tee[a] \subseteq S
        BY <2>2 DEF Calmly, Linking, Closed, Old
      <3> QED BY <2>1, <3>1 DEF Old
    <2>7. S \cap Old = Old
      BY <2>5, <2>6 DEF FirstConnected
    <2>8. ASSUME NEW n \in Member, n \in Newcomer PROVE n \in S
      <3>1. tee[n] = {plan.peer[n]} /\ plan.peer[n] \in S
        BY <2>1, <2>3, <2>7, <2>8 DEF Calmly, Linking
      <3>2. n \in tee[plan.peer[n]] /\ tee[plan.peer[n]] \subseteq S
        BY <2>1, <2>2, <2>3, <2>8, <3>1 DEF Calmly, Linking, Closed, Old
      <3> QED BY <3>2
    <2> QED BY <2>1, <2>7, <2>8 DEF Old
  <1>2. MemberInit => Calmly
    BY CalmlyInit
  <1>3. Calmly /\ [MemberNext]_allVars => Calmly'
    BY CalmlyStep
  <1> QED BY <1>1, <1>2, <1>3, PTL DEF MemberSpec

-----------------------------------------------------------------------------
(* The numbers of neighbours.                                              *)

(* The user of a newcomer asks once.                                       *)
AskOnce == \A p \in Plan : \A n \in Newcomer : p.asks[n] <= 1

IsRequest(m) == m.body.action = "ASKING_TO_JOIN"

(* Who has asked and is not in yet stands in one place: it is on its way,  *)
(* or waits at its peer.                                                   *)
Requests ==
    /\ \A a, b \in Site : \A i \in Places(a, b) :
          IsRequest(link[a][b][i]) =>
             /\ a \in Newcomer /\ b = plan.peer[a] /\ link[a][b][i].sender = a
             /\ a \in Asked /\ tee[a] = {} /\ a \notin ToSet(waiting[b])
             /\ \A j \in Places(a, b) : IsRequest(link[a][b][j]) => j = i
    /\ \A t \in Site : \A i \in DOMAIN waiting[t] :
          /\ waiting[t][i] \in Asked /\ tee[waiting[t][i]] = {}
          /\ \A j \in DOMAIN waiting[t] : waiting[t][j] = waiting[t][i] => j = i

Counts ==
    /\ \A s \in Old : nb[s] = Cardinality(tee[s])
    /\ \A n \in Newcomer :
          /\ plan.asks[n] <= 1 /\ asksLeft[n] <= plan.asks[n]
          /\ nb[n] = plan.asks[n] - asksLeft[n]
          /\ tee[n] # {} => n \in Asked

(* What a new reader gets is the end of what another one is to read.       *)
LEMMA UncopiedEnd ==
    ASSUME Calmly, NEW t \in Site, NEW q \in Uncopied(t)
    PROVE  \/ q = <<>>
           \/ \E r \in tee[t] : \E k \in 1 .. Len(link[t][r]) + 1 :
                 q = SubSeq(link[t][r], k, Len(link[t][r]))
  <1>1. link \in Net(Packet) /\ tee \in [Site -> SUBSET Site]
    BY DEF Calmly, Linking, Typing, MemberTypeOK
  <1>2. CASE Readers(t) = {}
    BY <1>2 DEF Uncopied
  <1>3. CASE Readers(t) # {}
    <2> DEFINE r == CHOOSE r \in Readers(t) :
                       \A o \in Readers(t) : Len(link[t][r]) <= Len(link[t][o])
    <2>1. Readers(t) \in SUBSET Site /\ Readers(t) \subseteq tee[t]
      BY <1>1 DEF Readers
    <2>2. r \in Readers(t)
      BY <1>1, <1>3, <2>1, ShortestLink
    <2>3. q \in {SubSeq(link[t][r], k, Len(link[t][r])) : k \in 1 .. Len(link[t][r]) + 1}
      BY <1>3 DEF Uncopied
    <2> QED BY <2>1, <2>2, <2>3
  <1> QED BY <1>2, <1>3

LEMMA UncopiedFrom ==
    ASSUME Calmly, NEW t \in Site, NEW q \in Uncopied(t), NEW i \in 1 .. Len(q)
    PROVE  \E r \in tee[t] : \E k \in Places(t, r) : q[i] = link[t][r][k]
  <1>1. link \in Net(Packet) /\ tee \in [Site -> SUBSET Site]
    BY DEF Calmly, Linking, Typing, MemberTypeOK
  <1>2. q # <<>>
    OBVIOUS
  <1>3. PICK r \in tee[t] : \E k \in 1 .. Len(link[t][r]) + 1 :
                               q = SubSeq(link[t][r], k, Len(link[t][r]))
    BY <1>2, UncopiedEnd
  <1>6. PICK k \in 1 .. Len(link[t][r]) + 1 : q = SubSeq(link[t][r], k, Len(link[t][r]))
    BY <1>3
  <1>4. r \in Site /\ link[t][r] \in Seq(Packet) /\ Len(link[t][r]) \in Nat
    BY <1>1 DEF Net
  <1>5. k + i - 1 \in Places(t, r) /\ q[i] = link[t][r][k + i - 1]
    BY <1>6, <1>4 DEF Places
  <1> QED BY <1>5

(* What is written when a message is taken is no request.                  *)
LEMMA SaysNoRequest ==
    ASSUME Calmly, Requests, NEW s \in Site, NEW t \in Site, link[s][t] # <<>>,
           NEW letters \in Seq(JoinSends(t))
    PROVE  /\ Says(s, t, letters) \in Seq(Packet)
           /\ \A i \in 1 .. Len(Says(s, t, letters)) : ~IsRequest(Says(s, t, letters)[i])
  <1> DEFINE m == FirstOf(s, t)
             w == Stamped(t, letters)
  <1>1. /\ m \in Packet /\ m = link[s][t][1] /\ 1 \in Places(s, t)
        /\ Again1(s, t) \in Seq(Packet) /\ w \in Seq(Packet) /\ Len(w) = Len(letters)
        /\ Says(s, t, letters) = Again1(s, t) \o w
        /\ Says(s, t, letters) \in Seq(Packet) /\ Len(letters) \in Nat
    BY LinkingFacts, SaysTyped DEF Says
  <1>2. IsRequest(m) => Again1(s, t) = <<>>
    <2>1. IsRequest(m) => m.dest = t
      BY <1>1 DEF Requests, Packet, IsRequest
    <2> QED BY <2>1 DEF Again1, Forwards
  <1>3. \A i \in 1 .. Len(w) : ~IsRequest(w[i])
    <2> SUFFICES ASSUME NEW i \in 1 .. Len(w) PROVE ~IsRequest(w[i])
      OBVIOUS
    <2>1. letters[i] \in JoinSends(t)
      BY <1>1, ElementOfSeq
    <2>2. w[i].body = letters[i].body
      BY <1>1 DEF Stamped
    <2> QED BY <2>1, <2>2 DEF JoinSends, IsRequest
  <1>4. Again1(s, t) = <<>> \/ (Again1(s, t) = <<m>> /\ ~IsRequest(m))
    BY <1>2 DEF Again1
  <1> HIDE DEF m, w
  <1>5. ASSUME NEW i \in 1 .. Len(Again1(s, t) \o w) PROVE ~IsRequest((Again1(s, t) \o w)[i])
    <2>1. CASE i <= Len(Again1(s, t))
      <3>1. (Again1(s, t) \o w)[i] = m /\ ~IsRequest(m)
        BY <1>1, <1>4, <2>1
      <3> QED BY <3>1
    <2>2. CASE i > Len(Again1(s, t))
      <3>1. i - Len(Again1(s, t)) \in 1 .. Len(w)
            /\ (Again1(s, t) \o w)[i] = w[i - Len(Again1(s, t))]
        BY <1>1, <2>2
      <3> QED BY <1>3, <3>1
    <2>3. i \in Int /\ Len(Again1(s, t)) \in Nat
      BY <1>1
    <2> QED BY <2>1, <2>2, <2>3
  <1> QED BY <1>1, <1>5

(* So the requests that are on their way after it were before.             *)
Shift(s, t, u, v) == IF u = s /\ v = t THEN 1 ELSE 0
LEMMA RequestsTaken ==
    ASSUME Calmly, Requests, NEW s \in Site, NEW t \in Site, NEW R, NEW q, NEW old,
           Takes(s, t, R, q, old), \A i \in 1 .. Len(q) : ~IsRequest(q[i]),
           t \in Old \/ R \subseteq tee[t],
           NEW u \in Site, NEW v \in Site, NEW i \in 1 .. Len(link'[u][v]),
           IsRequest(link'[u][v][i])
    PROVE  /\ i + Shift(s, t, u, v) \in Places(u, v)
           /\ link[u][v][i + Shift(s, t, u, v)] = link'[u][v][i]
  <1>1. link[u][v] \in Seq(Packet) /\ q \in Seq(Packet) /\ Len(link[u][v]) \in Nat
        /\ link[s][t] # <<>>
    BY DEF Calmly, Linking, Net, Takes
  <1>2. CASE u = s /\ v = t
    <2>1. link'[u][v] = Tail(link[u][v]) /\ link[u][v] # <<>>
      BY <1>2 DEF Takes
    <2> QED BY <1>1, <1>2, <2>1 DEF Shift, Places
  <1>3. CASE ~(u = s /\ v = t) /\ u = t /\ v \in R /\ v \in tee[t]
    <2>1. link'[u][v] = link[u][v] \o q
      BY <1>3 DEF Takes
    <2>2. i <= Len(link[u][v])
      <3> SUFFICES ASSUME i > Len(link[u][v]) PROVE FALSE
        BY <1>1, <2>1
      <3>1. i - Len(link[u][v]) \in 1 .. Len(q) /\ link'[u][v][i] = q[i - Len(link[u][v])]
        BY <1>1, <2>1
      <3> QED BY <3>1
    <2> QED BY <1>1, <1>3, <2>1, <2>2 DEF Shift, Places
  <1>4. CASE ~(u = s /\ v = t) /\ u = t /\ v \in R /\ v \notin tee[t]
    <2>1. link'[u][v] = old[v] \o q /\ old[v] \in Uncopied(t)
      BY <1>4 DEF Takes
    <2>2. old[v] \in Seq(Packet) /\ t \in Old
      BY <1>4, <2>1, UncopiedTyped DEF Calmly, Linking, Typing, MemberTypeOK
    <2>3. CASE i <= Len(old[v])
      <3>1. i \in 1 .. Len(old[v]) /\ link'[u][v][i] = old[v][i]
        BY <1>1, <2>1, <2>2, <2>3
      <3>2. PICK r \in tee[t] : \E k \in Places(t, r) : old[v][i] = link[t][r][k]
        BY <2>1, <3>1, UncopiedFrom
      <3>3. r \in Site /\ t \notin Newcomer
        BY <2>2 DEF Old, Calmly, Typing, MemberTypeOK
      <3> QED BY <3>1, <3>2, <3>3 DEF Requests
    <2>4. CASE i > Len(old[v])
      <3>1. i - Len(old[v]) \in 1 .. Len(q) /\ link'[u][v][i] = q[i - Len(old[v])]
        BY <1>1, <2>1, <2>2, <2>4
      <3> QED BY <3>1
    <2>5. i \in Int /\ Len(old[v]) \in Int
      BY <2>2
    <2> QED BY <2>3, <2>4, <2>5
  <1>5. CASE ~(u = s /\ v = t) /\ ~(u = t /\ v \in R)
    <2>1. link'[u][v] = link[u][v]
      BY <1>5 DEF Takes
    <2> QED BY <1>1, <1>5, <2>1 DEF Shift, Places
  <1> QED BY <1>2, <1>3, <1>4, <1>5

LEMMA OnceEach ==
    ASSUME NEW S, NEW q \in Seq(S),
           \A i, j \in DOMAIN q : q[i] = q[j] => i = j
    PROVE  IsFiniteSet(ToSet(q)) /\ Cardinality(ToSet(q)) = Len(q)
  <1>1. Len(q) \in Nat /\ DOMAIN q = 1 .. Len(q) /\ q \in [1 .. Len(q) -> S]
    BY LenProperties
  <1>2. ToSet(q) = {q[i] : i \in 1 .. Len(q)}
    BY <1>1 DEF ToSet
  <1>3. q \in [1 .. Len(q) -> ToSet(q)]
    BY <1>1, <1>2
  <1>4. q \in Bijection(1 .. Len(q), ToSet(q))
    BY <1>1, <1>2, <1>3 DEF Bijection, Injection, Surjection, IsInjective
  <1>5. ExistsBijection(1 .. Len(q), ToSet(q))
    BY <1>4 DEF ExistsBijection
  <1>6. IsFiniteSet(1 .. Len(q)) /\ Cardinality(1 .. Len(q)) = Len(q)
    BY <1>1, FS_Interval
  <1> QED BY <1>5, <1>6, FS_Bijection

Counting == Calmly /\ Requests /\ Counts

LEMMA CountingAsk ==
    ASSUME Counting, Calmly', plan' = plan, NEW n \in Newcomer, AskPeerToJoinNetwork(n)
    PROVE  Requests' /\ Counts'
  <1> DEFINE p == plan.peer[n]
  <1>1. /\ n \in Site /\ p \in Old /\ p \in Site
        /\ \A u, v \in Site :
              link'[u][v] = IF u = n /\ v = p
                            THEN Append(link[u][v], Request(n)) ELSE link[u][v]
        /\ nb' = [nb EXCEPT ![n] = @ + 1]
        /\ asksLeft' = [asksLeft EXCEPT ![n] = @ - 1] /\ asksLeft[n] > 0
        /\ UNCHANGED <<tee, waiting>>
    BY AskShape DEF Counting, Old
  <1>2. /\ nb \in [Site -> Int] /\ asksLeft \in [Newcomer -> Nat]
        /\ plan.asks \in [Newcomer -> Nat] /\ Newcomer \subseteq Site
        /\ waiting \in [Site -> Seq(Newcomer)]
    BY LeaversOld, NewcomerAssumption DEF Counting, Calmly, Typing, MemberTypeOK
  <1>3. asksLeft[n] = 1 /\ plan.asks[n] = 1 /\ nb[n] = 0 /\ n \notin Asked /\ tee[n] = {}
    <2>1. /\ plan.asks[n] <= 1 /\ asksLeft[n] <= plan.asks[n]
          /\ nb[n] = plan.asks[n] - asksLeft[n]
          /\ tee[n] # {} => n \in Asked
      BY DEF Counting, Counts
    <2>2. asksLeft[n] \in Nat /\ plan.asks[n] \in Nat
      BY <1>2
    <2>3. asksLeft[n] = 1 /\ plan.asks[n] = 1 /\ nb[n] = 0
      BY <1>1, <2>1, <2>2
    <2> QED BY <2>1, <2>3 DEF Asked
  <1>4. Asked' = Asked \cup {n}
    BY <1>1, <1>2, <1>3 DEF Asked
  <1>5. Counts'
    BY <1>1, <1>2, <1>3, <1>4 DEF Counting, Counts, Old
  <1>6. ASSUME NEW a \in Site, NEW b \in Site, NEW i \in 1 .. Len(link'[a][b]),
               IsRequest(link'[a][b][i])
        PROVE  /\ a \in Newcomer /\ b = plan.peer[a] /\ link'[a][b][i].sender = a
               /\ a \in Asked' /\ tee[a] = {} /\ a \notin ToSet(waiting[b])
               /\ \A j \in 1 .. Len(link'[a][b]) : IsRequest(link'[a][b][j]) => j = i
    <2>1. link[a][b] \in Seq(Packet)
      BY DEF Counting, Calmly, Linking, Net
    <2>2. CASE a = n /\ b = p
      <3>1. \A j \in Places(a, b) : ~IsRequest(link[a][b][j])
        BY <1>3, <2>2 DEF Counting, Requests
      <3>2. link'[a][b] = Append(link[a][b], Request(n))
        BY <1>1, <2>2
      <3>3. /\ Len(link'[a][b]) = Len(link[a][b]) + 1 /\ Len(link[a][b]) \in Nat
            /\ link'[a][b][Len(link[a][b]) + 1] = Request(n)
            /\ \A j \in Places(a, b) : link'[a][b][j] = link[a][b][j]
        <4> HIDE DEF Request
        <4> QED BY <2>1, <3>2 DEF Places
      <3>4. \A j \in 1 .. Len(link'[a][b]) :
               IsRequest(link'[a][b][j]) => j = Len(link[a][b]) + 1
        BY <3>1, <3>3 DEF Places
      <3>5. link'[a][b][i].sender = n
        BY <1>6, <3>3, <3>4 DEF Request
      <3>6. n \notin ToSet(waiting[p])
        BY <1>1, <1>3 DEF Counting, Requests, ToSet
      <3> QED BY <1>1, <1>3, <1>4, <1>6, <2>2, <3>4, <3>5, <3>6
    <2>3. CASE ~(a = n /\ b = p)
      <3>1. link'[a][b] = link[a][b]
        BY <1>1, <2>3
      <3> QED BY <1>4, <1>6, <3>1 DEF Counting, Requests, Places
    <2> QED BY <2>2, <2>3
  <1>7. \A t \in Site : \A i \in DOMAIN waiting[t] :
          /\ waiting[t][i] \in Asked' /\ tee[waiting[t][i]] = {}
          /\ \A j \in DOMAIN waiting[t] : waiting[t][j] = waiting[t][i] => j = i
    BY <1>4 DEF Counting, Requests
  <1> HIDE DEF p
  <1>8. Requests'
    BY <1>1, <1>6, <1>7 DEF Requests, Places
  <1> QED BY <1>5, <1>8

LEMMA CountingCalm ==
    ASSUME Counting, Calmly', plan' = plan, NEW s \in Site, NEW t \in Site,
           NEW letters \in Seq(Chat(t)), Calm(s, t, letters)
    PROVE  Requests' /\ Counts'
  <1> DEFINE q == Says(s, t, letters)
             m == FirstOf(s, t)
  <1>1. Takes(s, t, tee[t], q, link[t]) /\ link[s][t] # <<>>
        /\ UNCHANGED <<tee, nb, asksLeft>>
    BY DEF Calm, Takes
  <1>2. letters \in Seq(JoinSends(t)) /\ Calmly /\ Requests
    BY ChatIsJoin DEF Counting
  <1>3. \A i \in 1 .. Len(q) : ~IsRequest(q[i])
    BY <1>1, <1>2, SaysNoRequest
  <1>4. m = link[s][t][1] /\ 1 \in Places(s, t) /\ Newcomer \subseteq Site
        /\ waiting \in [Site -> Seq(Newcomer)] /\ m \in Packet
    BY <1>1, <1>2, LinkingFacts, NewcomerAssumption DEF Counting, Calmly, Typing, MemberTypeOK
  <1>5. Asked' = Asked
    BY <1>1 DEF Asked
  <1>6. Counts'
    BY <1>1, <1>5 DEF Counting, Counts
  <1>7. CASE ~Gets(s, t, "ASKING_TO_JOIN")
    <2>1. waiting' = waiting
      BY <1>7 DEF Calm
    <2>2. ASSUME NEW a \in Site, NEW b \in Site, NEW i \in 1 .. Len(link'[a][b]),
                 IsRequest(link'[a][b][i])
          PROVE  /\ a \in Newcomer /\ b = plan.peer[a] /\ link'[a][b][i].sender = a
                 /\ a \in Asked /\ tee[a] = {} /\ a \notin ToSet(waiting[b])
                 /\ \A j \in 1 .. Len(link'[a][b]) : IsRequest(link'[a][b][j]) => j = i
      <3>1. /\ i + Shift(s, t, a, b) \in Places(a, b)
            /\ link[a][b][i + Shift(s, t, a, b)] = link'[a][b][i]
        BY <1>1, <1>2, <1>3, <2>2, RequestsTaken
      <3>2. ASSUME NEW j \in 1 .. Len(link'[a][b]), IsRequest(link'[a][b][j]) PROVE j = i
        <4>1. /\ j + Shift(s, t, a, b) \in Places(a, b)
              /\ link[a][b][j + Shift(s, t, a, b)] = link'[a][b][j]
          BY <1>1, <1>2, <1>3, <3>2, RequestsTaken
        <4>2. j + Shift(s, t, a, b) = i + Shift(s, t, a, b)
          BY <1>2, <2>2, <3>1, <3>2, <4>1 DEF Requests
        <4> QED BY <4>2 DEF Shift
      <3> QED BY <1>2, <2>2, <3>1, <3>2 DEF Requests
    <2>3. Requests'
      BY <1>1, <1>2, <1>5, <2>1, <2>2 DEF Requests, Places
    <2> QED BY <1>6, <2>3
  <1>8. CASE Gets(s, t, "ASKING_TO_JOIN")
    <2>1. waiting' = [waiting EXCEPT ![t] = Append(@, m.sender)] /\ IsRequest(m)
      BY <1>8 DEF Calm, Gets, IsRequest
    <2>2. /\ s \in Newcomer /\ t = plan.peer[s] /\ m.sender = s /\ s \in Asked /\ tee[s] = {}
          /\ s \notin ToSet(waiting[t])
          /\ \A j \in Places(s, t) : IsRequest(link[s][t][j]) => j = 1
      BY <1>2, <1>4, <2>1 DEF Requests
    <2>3. /\ DOMAIN waiting'[t] = 1 .. Len(waiting[t]) + 1 /\ Len(waiting[t]) \in Nat
          /\ waiting'[t][Len(waiting[t]) + 1] = s
          /\ \A i \in 1 .. Len(waiting[t]) : waiting'[t][i] = waiting[t][i]
          /\ DOMAIN waiting[t] = 1 .. Len(waiting[t])
          /\ \A r \in Site : r # t => waiting'[r] = waiting[r]
      <3>1. t \in Site /\ waiting[t] \in Seq(Newcomer) /\ s \in Newcomer
        BY <1>4, <2>2
      <3>2. waiting'[t] = Append(waiting[t], s) /\ \A r \in Site : r # t => waiting'[r] = waiting[r]
        BY <1>4, <2>1, <2>2
      <3> QED BY <3>1, <3>2
    <2>4. ASSUME NEW a \in Site, NEW b \in Site, NEW i \in 1 .. Len(link'[a][b]),
                 IsRequest(link'[a][b][i])
          PROVE  /\ a \in Newcomer /\ b = plan.peer[a] /\ link'[a][b][i].sender = a
                 /\ a \in Asked /\ tee[a] = {} /\ a \notin ToSet(waiting'[b])
                 /\ \A j \in 1 .. Len(link'[a][b]) : IsRequest(link'[a][b][j]) => j = i
      <3>1. /\ i + Shift(s, t, a, b) \in Places(a, b)
            /\ link[a][b][i + Shift(s, t, a, b)] = link'[a][b][i]
        BY <1>1, <1>2, <1>3, <2>4, RequestsTaken
      <3>2. ASSUME NEW j \in 1 .. Len(link'[a][b]), IsRequest(link'[a][b][j]) PROVE j = i
        <4>1. /\ j + Shift(s, t, a, b) \in Places(a, b)
              /\ link[a][b][j + Shift(s, t, a, b)] = link'[a][b][j]
          BY <1>1, <1>2, <1>3, <3>2, RequestsTaken
        <4>2. j + Shift(s, t, a, b) = i + Shift(s, t, a, b)
          BY <1>2, <2>4, <3>1, <3>2, <4>1 DEF Requests
        <4> QED BY <4>2 DEF Shift
      <3>3. /\ a \in Newcomer /\ b = plan.peer[a] /\ link'[a][b][i].sender = a
            /\ a \in Asked /\ tee[a] = {} /\ a \notin ToSet(waiting[b])
        BY <1>2, <2>4, <3>1 DEF Requests
      <3>4. a # s
        <4>1. ASSUME a = s PROVE FALSE
          <5>1. b = t /\ i + 1 \in Places(s, t) /\ IsRequest(link[s][t][i + 1])
            BY <2>2, <2>4, <3>1, <3>3, <4>1 DEF Shift
          <5>2. i + 1 = 1
            BY <2>2, <5>1
          <5> QED BY <5>2
        <4> QED BY <4>1
      <3>5. a \notin ToSet(waiting'[b])
        <4>1. CASE b # t
          <5>1. waiting'[b] = waiting[b]
            BY <2>3, <4>1
          <5> QED BY <3>3, <5>1
        <4>2. CASE b = t
          <5> SUFFICES ASSUME NEW k \in DOMAIN waiting'[t], waiting'[t][k] = a PROVE FALSE
            BY <4>2 DEF ToSet
          <5>1. k \in 1 .. Len(waiting[t])
            BY <2>3, <3>4
          <5>2. waiting[t][k] = a
            BY <2>3, <5>1
          <5> QED BY <2>3, <3>3, <4>2, <5>1, <5>2 DEF ToSet
        <4> QED BY <4>1, <4>2
      <3> QED BY <3>2, <3>3, <3>5
    <2>5. ASSUME NEW r \in Site, NEW i \in DOMAIN waiting'[r]
          PROVE  /\ waiting'[r][i] \in Asked /\ tee[waiting'[r][i]] = {}
                 /\ \A j \in DOMAIN waiting'[r] : waiting'[r][j] = waiting'[r][i] => j = i
      <3>0. \A u \in Site : \A k \in DOMAIN waiting[u] :
               /\ waiting[u][k] \in Asked /\ tee[waiting[u][k]] = {}
               /\ \A j \in DOMAIN waiting[u] : waiting[u][j] = waiting[u][k] => j = k
        BY <1>2 DEF Requests
      <3>1. CASE r # t
        <4>1. waiting'[r] = waiting[r]
          BY <2>3, <3>1
        <4> QED BY <3>0, <4>1
      <3>2. CASE r = t /\ i <= Len(waiting[t])
        <4>1. i \in DOMAIN waiting[t] /\ waiting'[r][i] = waiting[t][i]
          BY <2>3, <3>2
        <4>2. waiting[t][i] # s
          BY <2>2, <4>1 DEF ToSet
        <4>3. /\ waiting[t][i] \in Asked /\ tee[waiting[t][i]] = {}
              /\ \A j \in DOMAIN waiting[t] : waiting[t][j] = waiting[t][i] => j = i
          BY <3>0, <4>1
        <4>4. ASSUME NEW j \in DOMAIN waiting'[r], waiting'[r][j] = waiting'[r][i] PROVE j = i
          <5>1. j \in 1 .. Len(waiting[t])
            BY <2>3, <3>2, <4>1, <4>2, <4>4
          <5> QED BY <2>3, <4>1, <4>3, <4>4, <5>1, <3>2
        <4> QED BY <4>1, <4>3, <4>4
      <3>3. CASE r = t /\ i > Len(waiting[t])
        <4>1. waiting'[r][i] = s /\ i = Len(waiting[t]) + 1
          BY <2>3, <3>3
        <4>2. \A j \in 1 .. Len(waiting[t]) : waiting[t][j] # s
          BY <2>2, <2>3 DEF ToSet
        <4>3. waiting'[r][i] \in Asked /\ tee[waiting'[r][i]] = {}
          BY <2>2, <4>1
        <4>4. ASSUME NEW j \in DOMAIN waiting'[r], waiting'[r][j] = waiting'[r][i] PROVE j = i
          <5>1. j \in 1 .. Len(waiting[t]) + 1 /\ Len(waiting[t]) \in Nat
            BY <2>3, <3>3
          <5>2. j \in 1 .. Len(waiting[t]) => waiting'[r][j] = waiting[t][j]
            BY <2>3, <3>3
          <5>3. j \notin 1 .. Len(waiting[t])
            BY <4>1, <4>2, <4>4, <5>2
          <5> QED BY <4>1, <5>1, <5>3
        <4> QED BY <4>3, <4>4
      <3>4. r = t => i \in Int
        BY <2>3
      <3> QED BY <2>3, <3>1, <3>2, <3>3, <3>4
    <2>6. Requests'
      BY <1>1, <1>5, <2>4, <2>5 DEF Requests, Places
    <2> QED BY <1>6, <2>6
  <1> QED BY <1>7, <1>8

LEMMA CountingWelcome ==
    ASSUME Counting, Calmly', plan' = plan, NEW s \in Site, NEW t \in Site,
           NEW old \in [ToSet(waiting[t]) -> Uncopied(t)], Welcoming(s, t, old)
    PROVE  Requests' /\ Counts'
  <1> DEFINE W == ToSet(waiting[t])
             R == tee[t] \cup W
             q == Says(s, t, <<BuildElected(t)>> \o Welcomes(t))
  <1>1. /\ Takes(s, t, R, q, old) /\ link[s][t] # <<>> /\ t \in Old
        /\ waiting' = [waiting EXCEPT ![t] = <<>>]
        /\ tee' = LinkedBothWays(t, waiting[t])
        /\ nb' = [nb EXCEPT ![t] = @ + Len(waiting[t])]
        /\ asksLeft' = asksLeft
    BY DEF Welcoming, Takes
  <1>2. /\ Calmly /\ Requests /\ nb \in [Site -> Int] /\ tee \in [Site -> SUBSET Site]
        /\ waiting \in [Site -> Seq(Newcomer)] /\ Newcomer \subseteq Site
    BY NewcomerAssumption DEF Counting, Calmly, Typing, MemberTypeOK
  <1>3. \A i \in 1 .. Len(q) : ~IsRequest(q[i])
    BY <1>1, <1>2, WelcomesAreJoin, SaysNoRequest
  <1>4. \A n \in W : n \in Newcomer /\ plan.peer[n] = t /\ n \in Asked /\ tee[n] = {}
    <2>1. \A n \in W : n \in Newcomer /\ plan.peer[n] = t
      BY <1>2, WaitersPeer
    <2> QED BY <1>2, <2>1 DEF Requests, ToSet
  <1>5. \A r \in Site : tee'[r] = IF r = t THEN R ELSE IF r \in W THEN tee[r] \cup {t} ELSE tee[r]
    BY <1>1 DEF LinkedBothWays
  <1>6. Asked' = Asked
    BY <1>1 DEF Asked
  <1>a. Calmly /\ Requests /\ (t \in Old \/ R \subseteq tee[t])
    BY <1>1 DEF Counting
  <1> HIDE DEF q, W, R
  <1>7. ASSUME NEW a \in Site, NEW b \in Site, NEW i \in 1 .. Len(link'[a][b]),
               IsRequest(link'[a][b][i])
        PROVE  /\ a \in Newcomer /\ b = plan.peer[a] /\ link'[a][b][i].sender = a
               /\ a \in Asked /\ tee'[a] = {} /\ a \notin ToSet(waiting'[b])
               /\ \A j \in 1 .. Len(link'[a][b]) : IsRequest(link'[a][b][j]) => j = i
    <2>1. /\ i + Shift(s, t, a, b) \in Places(a, b)
          /\ link[a][b][i + Shift(s, t, a, b)] = link'[a][b][i]
      BY <1>1, <1>3, <1>7, <1>a, RequestsTaken
    <2>2. ASSUME NEW j \in 1 .. Len(link'[a][b]), IsRequest(link'[a][b][j]) PROVE j = i
      <3>1. /\ j + Shift(s, t, a, b) \in Places(a, b)
            /\ link[a][b][j + Shift(s, t, a, b)] = link'[a][b][j]
        BY <1>1, <1>3, <2>2, <1>a, RequestsTaken
      <3>2. j + Shift(s, t, a, b) = i + Shift(s, t, a, b)
        BY <1>7, <1>a, <2>1, <2>2, <3>1 DEF Requests
      <3> QED BY <3>2 DEF Shift
    <2>3. /\ a \in Newcomer /\ b = plan.peer[a] /\ link'[a][b][i].sender = a
          /\ a \in Asked /\ tee[a] = {} /\ a \notin ToSet(waiting[b])
      BY <1>7, <1>a, <2>1 DEF Requests
    <2>4. a # t /\ a \notin W
      BY <1>1, <1>4, <2>3 DEF Old, W
    <2>5. ToSet(waiting'[b]) \subseteq ToSet(waiting[b])
      <3>1. waiting'[b] = waiting[b] \/ waiting'[b] = <<>>
        BY <1>1, <1>2
      <3>2. ToSet(<<>>) = {}
        BY DEF ToSet
      <3> QED BY <3>1, <3>2
    <2> QED BY <1>5, <2>2, <2>3, <2>4, <2>5
  <1>8. ASSUME NEW u \in Site, NEW i \in DOMAIN waiting'[u]
        PROVE  /\ waiting'[u][i] \in Asked /\ tee'[waiting'[u][i]] = {}
               /\ \A j \in DOMAIN waiting'[u] : waiting'[u][j] = waiting'[u][i] => j = i
    <2>1. waiting'[u] = waiting[u] /\ u # t
      BY <1>1, <1>2, <1>8
    <2>2. /\ waiting[u][i] \in Asked /\ tee[waiting[u][i]] = {}
          /\ \A j \in DOMAIN waiting[u] : waiting[u][j] = waiting[u][i] => j = i
      BY <1>2, <2>1, <1>8 DEF Requests
    <2>3. waiting[u][i] \in Newcomer /\ plan.peer[waiting[u][i]] = u
      <3>1. waiting[u][i] \in ToSet(waiting[u])
        BY <1>8, <2>1 DEF ToSet
      <3> QED BY <1>2, <3>1, WaitersPeer
    <2>4. waiting[u][i] \notin W /\ waiting[u][i] # t /\ waiting[u][i] \in Site
      BY <1>1, <1>2, <1>4, <2>1, <2>3 DEF Old
    <2> QED BY <1>5, <2>1, <2>2, <2>4
  <1>9. Requests'
    <2>1. \A a, b \in Site : \A i \in 1 .. Len(link'[a][b]) : IsRequest(link'[a][b][i]) =>
             /\ a \in Newcomer /\ b = plan.peer[a] /\ link'[a][b][i].sender = a
             /\ a \in Asked /\ tee'[a] = {} /\ a \notin ToSet(waiting'[b])
             /\ \A j \in 1 .. Len(link'[a][b]) : IsRequest(link'[a][b][j]) => j = i
      BY <1>7
    <2>2. \A u \in Site : \A i \in DOMAIN waiting'[u] :
             /\ waiting'[u][i] \in Asked /\ tee'[waiting'[u][i]] = {}
             /\ \A j \in DOMAIN waiting'[u] : waiting'[u][j] = waiting'[u][i] => j = i
      BY <1>8
    <2> HIDE DEF Asked
    <2>3. \A u \in Site : \A i \in DOMAIN waiting'[u] :
             /\ waiting'[u][i] \in Asked' /\ tee'[waiting'[u][i]] = {}
             /\ \A j \in DOMAIN waiting'[u] : waiting'[u][j] = waiting'[u][i] => j = i
      BY <1>6, <2>2
    <2>4. \A a, b \in Site : \A i \in 1 .. Len(link'[a][b]) : IsRequest(link'[a][b][i]) =>
             /\ a \in Newcomer /\ b = plan'.peer[a] /\ link'[a][b][i].sender = a
             /\ a \in Asked' /\ tee'[a] = {} /\ a \notin ToSet(waiting'[b])
             /\ \A j \in 1 .. Len(link'[a][b]) : IsRequest(link'[a][b][j]) => j = i
      BY <1>6, <2>1
    <2> QED BY <2>3, <2>4 DEF Requests, Places
  <1>10. nb'[t] = Cardinality(tee'[t])
    <2>1. IsFiniteSet(W) /\ Cardinality(W) = Len(waiting[t])
      <3>1. waiting[t] \in Seq(Newcomer)
        BY <1>2
      <3>2. \A i, j \in DOMAIN waiting[t] : waiting[t][i] = waiting[t][j] => i = j
        BY <1>2 DEF Requests
      <3> QED BY <3>1, <3>2, OnceEach DEF W
    <2>2. IsFiniteSet(tee[t])
      BY <1>2, SiteFinite, FS_Subset
    <2>3. tee[t] \cap W = {}
      <3> SUFFICES ASSUME NEW n \in W, n \in tee[t] PROVE FALSE
        OBVIOUS
      <3>1. t \in tee[n] /\ n \in Site
        BY <1>2, <1>4 DEF Calmly, Linking
      <3> QED BY <1>4, <3>1
    <2>4. Cardinality(R) = Cardinality(tee[t]) + Len(waiting[t])
      <3>1. Cardinality(R) = Cardinality(tee[t]) + Cardinality(W) - Cardinality(tee[t] \cap W)
        BY <2>1, <2>2, FS_Union DEF R
      <3>2. Cardinality(tee[t] \cap W) = 0 /\ Cardinality(tee[t]) \in Nat
        BY <2>2, <2>3, FS_EmptySet, FS_CardinalityType
      <3>3. Len(waiting[t]) \in Nat
        BY <1>2
      <3> QED BY <2>1, <3>1, <3>2, <3>3
    <2>5. nb[t] = Cardinality(tee[t])
      BY <1>1 DEF Counting, Counts
    <2>6. nb'[t] = nb[t] + Len(waiting[t]) /\ tee'[t] = R
      BY <1>1, <1>2, <1>5
    <2> QED BY <2>4, <2>5, <2>6
  <1>11. Counts'
    <2>1. ASSUME NEW u \in Old PROVE nb'[u] = Cardinality(tee'[u])
      <3>1. CASE u = t
        BY <1>10, <3>1
      <3>2. CASE u # t
        <4>1. u \in Site /\ nb'[u] = nb[u] /\ tee'[u] = tee[u]
          BY <1>1, <1>2, <1>4, <1>5, <3>2 DEF Old
        <4> QED BY <4>1 DEF Counting, Counts
      <3> QED BY <3>1, <3>2
    <2>2. ASSUME NEW n \in Newcomer
          PROVE  /\ plan.asks[n] <= 1 /\ asksLeft[n] <= plan.asks[n]
                 /\ nb'[n] = plan.asks[n] - asksLeft[n]
                 /\ tee'[n] # {} => n \in Asked
      <3>1. n \in Site /\ n # t /\ nb'[n] = nb[n]
        BY <1>1, <1>2 DEF Old
      <3>2. n \in W \/ tee'[n] = tee[n]
        BY <1>5, <3>1
      <3> QED BY <1>4, <3>1, <3>2 DEF Counting, Counts
    <2> QED BY <1>1, <1>6, <2>1, <2>2 DEF Counts
  <1> QED BY <1>9, <1>11

LEMMA CountingStep ==
    ASSUME Counting, [MemberNext]_allVars
    PROVE  Counting'
  <1>1. Calmly'
    BY CalmlyStep DEF Counting
  <1>2. CASE UNCHANGED allVars
    <2>1. /\ plan' = plan /\ link' = link /\ tee' = tee /\ waiting' = waiting
          /\ nb' = nb /\ asksLeft' = asksLeft
      BY <1>2 DEF allVars, memberVars, vars, linkVars, joinVars
    <2>2. Asked' = Asked
      BY <2>1 DEF Asked
    <2> QED BY <1>1, <2>1, <2>2 DEF Counting, Requests, Counts, Places
  <1>3. CASE MemberNext
    <2>1. plan' = plan /\ ((\E n \in Newcomer : AskPeerToJoinNetwork(n)) \/ Talk \/ Welcomed)
      BY <1>3, StepShape DEF Counting
    <2>2. Requests' /\ Counts'
      BY <1>1, <2>1, CountingAsk, CountingCalm, CountingWelcome DEF Talk, Welcomed
    <2> QED BY <1>1, <2>2 DEF Counting
  <1> QED BY <1>2, <1>3

LEMMA CountingInit ==
    ASSUME MemberInit, OnlyJoins, AskOnce
    PROVE  Counting
  <1>1. Calmly
    BY CalmlyInit
  <1>2. /\ link = [s \in Site |-> [t \in Site |-> <<>>]] /\ tee = Neighbours
        /\ waiting = [s \in Site |-> <<>>] /\ asksLeft = plan.asks
        /\ nb = [s \in Site |-> Cardinality(Neighbours[s])] /\ plan \in Plan
    BY DEF MemberInit, Init, LinksInit
  <1>3. Requests
    BY <1>2 DEF Requests, Places
  <1>4. Counts
    <2>1. \A n \in Newcomer : n \in Site /\ Neighbours[n] = {}
      BY NewcomerAssumption
    <2>2. plan.asks \in [Newcomer -> Nat] /\ \A n \in Newcomer : plan.asks[n] <= 1
      BY <1>2, LeaversOld DEF AskOnce
    <2>3. \A n \in Newcomer : nb[n] = 0 /\ tee[n] = {} /\ asksLeft[n] = plan.asks[n]
      BY <1>2, <2>1, FS_EmptySet
    <2>4. \A s \in Site : nb[s] = Cardinality(tee[s])
      BY <1>2
    <2>5. \A n \in Newcomer : plan.asks[n] - asksLeft[n] = 0 /\ asksLeft[n] <= plan.asks[n]
      BY <2>2, <2>3
    <2> QED BY <2>2, <2>3, <2>4, <2>5 DEF Counts, Old
  <1> QED BY <1>1, <1>3, <1>4 DEF Counting

(* When nobody leaves and a newcomer asks once, a site waits in a wave for *)
(* as many answers as it has neighbours: the peer counts those it lets in, *)
(* each of them once, and the newcomer has counted its peer.               *)
THEOREM JoinsCounted ==
    ASSUME OnlyJoins, AskOnce
    PROVE  MemberSpec => []CountsMatchLinks
  <1>1. Counting => CountsMatchLinks
    <2> SUFFICES ASSUME Counting, NEW s \in Member
                 PROVE  nb[s] = Cardinality(tee[s] \ left)
      BY DEF CountsMatchLinks
    <2>1. left = {} /\ s \in Site /\ tee[s] # {} /\ tee[s] \ left = tee[s]
      BY DEF Counting, Calmly, Typing, MemberTypeOK, Member
    <2>2. CASE s \in Old
      BY <2>1, <2>2 DEF Counting, Counts
    <2>3. CASE s \in Newcomer
      <3>1. tee[s] = {plan.peer[s]}
        BY <2>1, <2>3 DEF Counting, Calmly, Linking
      <3>2. plan.asks[s] \in Nat /\ asksLeft[s] \in Nat
        BY <2>3, LeaversOld DEF Counting, Calmly, Typing, MemberTypeOK
      <3>3. nb[s] = 1
        BY <2>1, <2>3, <3>2 DEF Counting, Counts, Asked
      <3> QED BY <2>1, <3>1, <3>3, FS_Singleton
    <2> QED BY <2>1, <2>2, <2>3 DEF Old
  <1>2. MemberInit => Counting
    BY CountingInit
  <1>3. Counting /\ [MemberNext]_allVars => Counting'
    BY CountingStep
  <1> QED BY <1>1, <1>2, <1>3, PTL DEF MemberSpec

-----------------------------------------------------------------------------
(* The directories, when all the newcomers ask the same peer p.            *)

AtOne(p) == \A n \in Newcomer : plan.asks[n] > 0 => plan.peer[n] = p

First == Len(Layout)
Joined(p) == First + 1 .. Len(directory[p])

(* The messages on their way; the news of p: who is new, and the directory *)
(* for somebody new.                                                       *)
OnLink(a, b, m) == \E i \in Places(a, b) : link[a][b][i] = m
Travelling == {m \in Packet : \E a, b \in Site : OnLink(a, b, m)}
IsNews(m) == m.body.action \in {"UPDATE_LISTE", "ADD_USER_CONFIRM"}
Adds(m, n) == m.body.action = "ADD_USER_CONFIRM" /\ m.body.who = n
Lists(m, n) == m.body.action = "UPDATE_LISTE" /\ m.dest = n
AddOnLink(a, b, n) == \E i \in Places(a, b) : Adds(link[a][b][i], n)

(* The directory of p: the first sites, then those it has let in.          *)
RollOK(p) ==
    /\ First <= Len(directory[p]) /\ SubSeq(directory[p], 1, First) = Layout
    /\ \A j \in Joined(p) : directory[p][j] \in Newcomer /\ tee[directory[p][j]] # {}
    /\ \A i, j \in 1 .. Len(directory[p]) : directory[p][i] = directory[p][j] => i = j
    /\ \A n \in Newcomer : tee[n] # {} => \E j \in Joined(p) : directory[p][j] = n

(* An id has been drawn, and stands for one message.                       *)
Stamps ==
    /\ \A m \in Travelling : m.id[2] <= sent[m.sender]
    /\ \A b \in Site : \A id \in seen[b] : id[2] <= sent[id[1]]
    /\ \A m, o \in Travelling : m.id = o.id => m = o

(* p has written the news, in the order of its directory.                  *)
Before(m, o) == m.id[2] < o.id[2]
NewsOK(p) ==
    /\ \A m \in Travelling : IsNews(m) => m.sender = p
    /\ \A m \in Travelling : m.body.action = "ADD_USER_CONFIRM" =>
          m.dest = BROADCAST /\ \E j \in Joined(p) : Adds(m, directory[p][j])
    /\ \A m \in Travelling : m.body.action = "UPDATE_LISTE" =>
          \E j \in Joined(p) :
             Lists(m, directory[p][j]) /\ m.body.list = SubSeq(directory[p], 1, j)
    /\ \A m, o \in Travelling : \A j, k \in Joined(p) :
          /\ Adds(m, directory[p][j]) /\ Adds(o, directory[p][k]) =>
                (j < k => Before(m, o)) /\ (j = k => m.id = o.id)
          /\ Lists(m, directory[p][j]) /\ Adds(o, directory[p][k]) =>
                (j <= k => Before(m, o)) /\ (j > k => Before(o, m))

(* The first sites: each has a beginning of the directory of p; what comes *)
(* next reaches it in the same order.                                      *)
Behind(p, a, b) ==
    \A i \in Places(a, b) : \A j \in Joined(p) :
       Adds(link[a][b][i], directory[p][j]) =>
          \A k \in First + 1 .. j - 1 :
             \/ k <= Len(directory[b])
             \/ \E h \in 1 .. i - 1 : Adds(link[a][b][h], directory[p][k])
PassedOn(p, a, b) ==
    \A j \in Joined(a) : j <= Len(directory[b]) \/ AddOnLink(a, b, directory[p][j])
OldOK(p) ==
    \A b \in Old \ {p} :
       /\ First <= Len(directory[b]) /\ Len(directory[b]) <= Len(directory[p])
       /\ directory[b] = SubSeq(directory[p], 1, Len(directory[b]))
       /\ \A m \in Travelling : \A j \in Joined(p) : Adds(m, directory[p][j]) =>
             (m.id \in seen[b] <=> j <= Len(directory[b]))
       /\ \A a \in Site : Behind(p, a, b)
       /\ \A a \in Old : b \in tee[a] => PassedOn(p, a, b)

(* The newcomers that were let in: each has its list to come, or a         *)
(* beginning of the directory of p; what comes next is on its way.         *)
Updated(p, n) == \A i \in Places(p, n) : ~Lists(link[p][n][i], n)
Upright(p, r) ==
    \A i, k \in Places(p, r) :
       i < k /\ link[p][r][i].sender = p /\ link[p][r][k].sender = p =>
          Before(link[p][r][i], link[p][r][k])
Unseen(p, n) ==
    /\ \A i \in Places(p, n) : link[p][n][i].sender = p => link[p][n][i].id \notin seen[n]
    /\ tee[n] = {} => seen[n] = {}
UpToDate(p, f, n) ==
    /\ f <= Len(directory[n]) /\ Len(directory[n]) <= Len(directory[p])
    /\ directory[n] = SubSeq(directory[p], 1, Len(directory[n]))
    /\ \A i \in Places(p, n) : \A j \in Joined(p) :
          Adds(link[p][n][i], directory[p][j]) => j > Len(directory[n]) \/ j = f
Coming(p, f, n) ==
    \A j \in f + 1 .. Len(directory[p]) :
       (Updated(p, n) /\ j <= Len(directory[n])) \/ AddOnLink(p, n, directory[p][j])
NewOK(p) ==
    /\ \A r \in Site : Upright(p, r)
    /\ \A n \in Newcomer : Unseen(p, n)
    /\ \A f \in Joined(p) :
          /\ Updated(p, directory[p][f]) => UpToDate(p, f, directory[p][f])
          /\ Coming(p, f, directory[p][f])

Ordered(p) == Counting /\ AtOne(p) /\ RollOK(p) /\ Stamps /\ NewsOK(p) /\ OldOK(p) /\ NewOK(p)

LEMMA PeerFacts ==
    ASSUME NEW p \in Old, Ordered(p)
    PROVE  /\ p \in Site /\ p \notin Newcomer /\ Newcomer \subseteq Site
           /\ directory \in [Site -> Seq(Site)] /\ Len(directory[p]) \in Nat
           /\ \A b \in Site : Len(directory[b]) \in Nat
           /\ First \in Nat /\ Joined(p) \subseteq Nat
           /\ \A t \in Site : waiting[t] # <<>> => t = p
           /\ \A n \in Newcomer : tee[n] # {} => tee[n] = {p} /\ n \in tee[p]
           /\ \A a \in Site, n \in Newcomer : link[a][n] # <<>> => a = p /\ tee[n] # {}
           /\ tee \in [Site -> SUBSET Site] /\ seen \in [Site -> SUBSET Ids]
           /\ sent \in [Site -> Nat]
  <1>1. /\ p \in Site /\ p \notin Newcomer /\ Newcomer \subseteq Site
        /\ directory \in [Site -> Seq(Site)] /\ tee \in [Site -> SUBSET Site]
        /\ seen \in [Site -> SUBSET Ids] /\ sent \in [Site -> Nat]
        /\ waiting \in [Site -> Seq(Newcomer)]
    <2>1. directory \in [Site -> Directory] /\ Directory \subseteq Seq(Site)
      BY DEF Ordered, Counting, Calmly, Typing, MemberTypeOK, Directory
    <2> QED BY <2>1, NewcomerAssumption
            DEF Old, Ordered, Counting, Calmly, Typing, MemberTypeOK, LinksTypeOK
  <1>2. \A b \in Site : Len(directory[b]) \in Nat
    BY <1>1, LenProperties
  <1>3. First \in Nat
    BY LayoutAssumption, LenProperties DEF First
  <1>4. Joined(p) \subseteq Nat
    BY <1>1, <1>2, <1>3 DEF Joined
  <1>5. \A n \in Newcomer : n \in Asked => plan.peer[n] = p
    <2>1. plan.asks \in [Newcomer -> Nat] /\ asksLeft \in [Newcomer -> Nat]
      BY LeaversOld DEF Ordered, Counting, Calmly, Typing, MemberTypeOK
    <2> QED BY <2>1 DEF Ordered, AtOne, Asked
  <1>6. ASSUME NEW t \in Site, waiting[t] # <<>> PROVE t = p
    <2>1. 1 \in DOMAIN waiting[t] /\ waiting[t][1] \in Newcomer
      BY <1>1, <1>6
    <2>2. plan.peer[waiting[t][1]] = t
      BY <2>1 DEF Ordered, Counting, Calmly, Linking
    <2>3. waiting[t][1] \in Asked
      BY <2>1 DEF Ordered, Counting, Requests
    <2> QED BY <1>5, <2>1, <2>2, <2>3
  <1>7. ASSUME NEW n \in Newcomer, tee[n] # {} PROVE tee[n] = {p} /\ n \in tee[p]
    <2>1. n \in Asked
      BY <1>7 DEF Ordered, Counting, Counts
    <2>2. tee[n] \subseteq {plan.peer[n]}
      BY DEF Ordered, Counting, Calmly, Linking
    <2>3. tee[n] = {p}
      BY <1>5, <1>7, <2>1, <2>2
    <2> QED BY <1>1, <2>3 DEF Ordered, Counting, Calmly, Linking
  <1>8. ASSUME NEW a \in Site, NEW n \in Newcomer, link[a][n] # <<>>
        PROVE  a = p /\ tee[n] # {}
    <2>1. n \in tee[a] \/ (a \in Newcomer /\ n = plan.peer[a])
      BY <1>1, <1>8 DEF Ordered, Counting, Calmly, Linking
    <2>2. \A r \in Newcomer : plan.peer[r] \notin Newcomer
      BY LeaversOld DEF Ordered, Counting, Calmly, Typing, MemberTypeOK
    <2>3. a \in tee[n]
      BY <1>1, <2>1, <2>2 DEF Ordered, Counting, Calmly, Linking
    <2> QED BY <1>7, <2>3
  <1> QED BY <1>1, <1>2, <1>3, <1>4, <1>6, <1>7, <1>8

(* Every message on a link is on its way.                                  *)
LEMMA PacketFacts ==
    ASSUME NEW m \in Packet
    PROVE  /\ m.sender \in Site /\ m.id[1] = m.sender /\ m.id[2] \in Nat \ {0}
           /\ m.id = <<m.sender, m.id[2]>>
           /\ m.body \in MemberBody /\ m.dest \in Dest
           /\ m.id \in Ids
  <1>1. m.id \in Site \X (Nat \ {0}) /\ m.sender = m.id[1] /\ m.body \in MemberBody
        /\ m.sender \in Site /\ m.dest \in Site \cup {NoSite, BROADCAST, BROADCAST_NEIGHBORS}
    BY DEF Packet, Good, Message, Ids, Sound
  <1> QED BY <1>1 DEF Dest, Ids

LEMMA OnLinkTravels ==
    ASSUME Calmly, NEW a \in Site, NEW b \in Site, NEW i \in Places(a, b)
    PROVE  /\ link[a][b] \in Seq(Packet) /\ Len(link[a][b]) \in Nat
           /\ link[a][b][i] \in Packet /\ link[a][b][i] \in Travelling
           /\ i \in Nat
  <1>1. link[a][b] \in Seq(Packet) /\ Len(link[a][b]) \in Nat
    BY DEF Calmly, Linking, Net
  <1>2. link[a][b][i] \in Packet
    BY <1>1, ElementOfSeq DEF Places
  <1> QED BY <1>1, <1>2 DEF Places, Travelling, OnLink

(* What t writes: the message it takes, then its own, with fresh ids.      *)
Lead(s, t) == Len(Again1(s, t))
LEMMA SaysFrom ==
    ASSUME Calmly, NEW s \in Site, NEW t \in Site, link[s][t] # <<>>,
           NEW letters \in Seq(JoinSends(t))
    PROVE  /\ Lead(s, t) = IF IsNew(t, FirstOf(s, t)) /\ Forwards(t, FirstOf(s, t)) THEN 1 ELSE 0
           /\ Len(letters) \in Nat
           /\ Says(s, t, letters) \in Seq(Packet)
           /\ Len(Says(s, t, letters)) = Lead(s, t) + Len(letters)
           /\ Lead(s, t) = 1 => Says(s, t, letters)[1] = FirstOf(s, t)
           /\ \A k \in 1 .. Len(letters) :
                 /\ Says(s, t, letters)[Lead(s, t) + k] = Stamped(t, letters)[k]
                 /\ Stamped(t, letters)[k] \in Packet
                 /\ Stamped(t, letters)[k].id = <<t, sent[t] + k>>
                 /\ Stamped(t, letters)[k].sender = t
                 /\ Stamped(t, letters)[k].dest = letters[k].dest
                 /\ Stamped(t, letters)[k].body = letters[k].body
  <1> DEFINE A == Again1(s, t)
             w == Stamped(t, letters)
  <1>1. /\ A \in Seq(Packet) /\ w \in Seq(Packet) /\ Len(w) = Len(letters)
        /\ Len(letters) \in Nat /\ Says(s, t, letters) = A \o w
        /\ Says(s, t, letters) \in Seq(Packet)
    BY SaysTyped DEF Says
  <1>2. A = IF IsNew(t, FirstOf(s, t)) /\ Forwards(t, FirstOf(s, t))
            THEN <<FirstOf(s, t)>> ELSE <<>>
    BY DEF Again1
  <1>3. Lead(s, t) = Len(A) /\ Len(A) \in Nat
    BY <1>1 DEF Lead
  <1>4. ASSUME NEW k \in 1 .. Len(letters)
        PROVE  /\ w[k].id = <<t, sent[t] + k>> /\ w[k].sender = t
               /\ w[k].dest = letters[k].dest /\ w[k].body = letters[k].body
               /\ w[k] \in Packet
    <2>1. w[k] \in Packet
      BY <1>1, ElementOfSeq
    <2> QED BY <2>1 DEF Stamped
  <1>5. /\ Len(A) = IF IsNew(t, FirstOf(s, t)) /\ Forwards(t, FirstOf(s, t)) THEN 1 ELSE 0
        /\ Len(A) = 1 => A[1] = FirstOf(s, t)
    BY <1>2
  <1> HIDE DEF A, w
  <1>6. /\ Len(A \o w) = Len(A) + Len(letters)
        /\ Len(A) = 1 => (A \o w)[1] = A[1]
        /\ \A k \in 1 .. Len(letters) : (A \o w)[Len(A) + k] = w[k]
    <2>1. A \in Seq(Packet) /\ w \in Seq(Packet) /\ Len(w) = Len(letters) /\ Len(w) \in Nat
      BY <1>1
    <2>2. Len(A \o w) = Len(A) + Len(w)
      BY <2>1
    <2>3. \A i \in 1 .. Len(A) + Len(w) :
             (A \o w)[i] = IF i <= Len(A) THEN A[i] ELSE w[i - Len(A)]
      BY <2>1
    <2>4. \A k \in 1 .. Len(w) : (A \o w)[Len(A) + k] = w[k]
      <3> TAKE k \in 1 .. Len(w)
      <3>1. Len(A) + k \in 1 .. Len(A) + Len(w) /\ Len(A) + k > Len(A)
            /\ (Len(A) + k) - Len(A) = k
        BY <1>3, <2>1
      <3> QED BY <1>3, <2>3, <3>1
    <2>5. Len(A) = 1 => (A \o w)[1] = A[1]
      BY <1>3, <2>1, <2>3
    <2> QED BY <2>1, <2>2, <2>4, <2>5
  <1> QED BY <1>1, <1>3, <1>4, <1>5, <1>6 DEF w

(* The place of a message in what t writes.                                *)
LEMMA SaysPlace ==
    ASSUME Calmly, NEW s \in Site, NEW t \in Site, link[s][t] # <<>>,
           NEW letters \in Seq(JoinSends(t)), NEW i \in 1 .. Len(Says(s, t, letters))
    PROVE  \/ /\ i = 1 /\ Lead(s, t) = 1 /\ Says(s, t, letters)[i] = FirstOf(s, t)
              /\ IsNew(t, FirstOf(s, t)) /\ Forwards(t, FirstOf(s, t))
           \/ /\ i - Lead(s, t) \in 1 .. Len(letters) /\ i > Lead(s, t)
              /\ Says(s, t, letters)[i] = Stamped(t, letters)[i - Lead(s, t)]
  <1>1. /\ Lead(s, t) = IF IsNew(t, FirstOf(s, t)) /\ Forwards(t, FirstOf(s, t)) THEN 1 ELSE 0
        /\ Len(letters) \in Nat
        /\ Len(Says(s, t, letters)) = Lead(s, t) + Len(letters)
        /\ Lead(s, t) = 1 => Says(s, t, letters)[1] = FirstOf(s, t)
        /\ \A k \in 1 .. Len(letters) :
              Says(s, t, letters)[Lead(s, t) + k] = Stamped(t, letters)[k]
    BY SaysFrom
  <1>2. CASE i <= Lead(s, t)
    BY <1>1, <1>2
  <1>3. CASE i > Lead(s, t)
    <2>1. i - Lead(s, t) \in 1 .. Len(letters) /\ Lead(s, t) + (i - Lead(s, t)) = i
      BY <1>1, <1>3
    <2> QED BY <1>1, <1>3, <2>1
  <1> QED BY <1>1, <1>2, <1>3

Wrote(t, letters) == {Stamped(t, letters)[k] : k \in 1 .. Len(letters)}

LEMMA TakesTravelling ==
    ASSUME Calmly, Calmly', plan' = plan, NEW s \in Site, NEW t \in Site, NEW R, NEW old,
           NEW letters \in Seq(JoinSends(t)), Takes(s, t, R, Says(s, t, letters), old)
    PROVE  /\ Travelling' \subseteq Travelling \cup Wrote(t, letters)
           /\ FirstOf(s, t) \in Travelling
  <1> DEFINE q == Says(s, t, letters)
  <1>1. Packet' = Packet
    BY DEF Packet, Good, Sound
  <1>2. link[s][t] # <<>> /\ q \in Seq(Packet)
    BY DEF Takes
  <1>3. FirstOf(s, t) \in Travelling
    <2>1. FirstOf(s, t) = link[s][t][1] /\ 1 \in Places(s, t)
      BY <1>2, LinkingFacts
    <2> QED BY <2>1, OnLinkTravels
  <1>4. ASSUME NEW i \in 1 .. Len(q) PROVE q[i] \in Travelling \cup Wrote(t, letters)
    BY <1>2, <1>3, <1>4, SaysPlace DEF Wrote
  <1>5. ASSUME NEW u \in Site, NEW v \in Site, NEW i \in 1 .. Len(link'[u][v])
        PROVE  link'[u][v][i] \in Travelling \cup Wrote(t, letters)
    <2>1. /\ link[u][v] \in Seq(Packet) /\ Len(link[u][v]) \in Nat
          /\ \A k \in 1 .. Len(link[u][v]) : link[u][v][k] \in Travelling
      <3>1. link[u][v] \in Seq(Packet) /\ Len(link[u][v]) \in Nat
        BY DEF Calmly, Linking, Net
      <3>2. \A k \in Places(u, v) : link[u][v][k] \in Travelling
        BY OnLinkTravels
      <3> QED BY <3>1, <3>2 DEF Places
    <2>2. CASE u = s /\ v = t
      <3>1. link'[u][v] = Tail(link[u][v]) /\ link[u][v] # <<>>
        BY <2>2 DEF Takes
      <3>2. i + 1 \in 1 .. Len(link[u][v]) /\ link'[u][v][i] = link[u][v][i + 1]
        BY <2>1, <3>1
      <3> QED BY <2>1, <3>2
    <2>3. CASE ~(u = s /\ v = t) /\ u = t /\ v \in R
      <3> DEFINE base == IF v \in tee[t] THEN link[u][v] ELSE old[v]
      <3>1. link'[u][v] = base \o q
        BY <2>3 DEF Takes
      <3>2. /\ base \in Seq(Packet) /\ Len(base) \in Nat
            /\ \A k \in 1 .. Len(base) : base[k] \in Travelling
        <4>1. CASE v \in tee[t]
          BY <2>1, <4>1
        <4>2. CASE v \notin tee[t]
          <5>1. old[v] \in Uncopied(t)
            BY <2>3, <4>2 DEF Takes
          <5>2. old[v] \in Seq(Packet)
            BY <5>1, UncopiedTyped DEF Calmly, Linking, Typing, MemberTypeOK
          <5>3. ASSUME NEW k \in 1 .. Len(old[v]) PROVE old[v][k] \in Travelling
            <6>1. PICK r \in tee[t] : \E h \in Places(t, r) : old[v][k] = link[t][r][h]
              BY <5>1, UncopiedFrom
            <6>2. r \in Site
              BY DEF Calmly, Typing, MemberTypeOK
            <6> QED BY <6>1, <6>2, OnLinkTravels
          <5> QED BY <4>2, <5>2, <5>3
        <4> QED BY <4>1, <4>2
      <3> HIDE DEF base, q
      <3>3. CASE i <= Len(base)
        BY <1>2, <3>1, <3>2, <3>3
      <3>4. CASE i > Len(base)
        <4>1. i - Len(base) \in 1 .. Len(q) /\ link'[u][v][i] = q[i - Len(base)]
          BY <1>2, <3>1, <3>2, <3>4
        <4> QED BY <1>4, <4>1
      <3> QED BY <3>2, <3>3, <3>4
    <2>4. CASE ~(u = s /\ v = t) /\ ~(u = t /\ v \in R)
      BY <2>1, <2>4 DEF Takes
    <2> QED BY <2>2, <2>3, <2>4
  <1>6. Travelling' = {m \in Packet : \E a, b \in Site :
                          \E i \in 1 .. Len(link'[a][b]) : link'[a][b][i] = m}
    BY <1>1 DEF Travelling, OnLink, Places
  <1> QED BY <1>3, <1>5, <1>6

LEMMA StampsStep ==
    ASSUME Calmly, Stamps, NEW t \in Site, NEW letters, Len(letters) \in Nat,
           Travelling' \subseteq Travelling \cup Wrote(t, letters),
           \A k \in 1 .. Len(letters) :
              /\ Stamped(t, letters)[k].id = <<t, sent[t] + k>>
              /\ Stamped(t, letters)[k].sender = t,
           sent' = [sent EXCEPT ![t] = @ + Len(letters)],
           \A b \in Site : \A id \in seen'[b] :
              id \in seen[b] \/ \E m \in Travelling : m.id = id
    PROVE  Stamps'
  <1>1. sent \in [Site -> Nat] /\ seen \in [Site -> SUBSET Ids]
    BY DEF Calmly, Typing, MemberTypeOK, LinksTypeOK
  <1>2. \A m \in Travelling : /\ m.sender \in Site /\ m.id[1] = m.sender
                              /\ m.id[2] \in Nat /\ m.id[2] <= sent[m.sender]
    BY PacketFacts DEF Travelling, Stamps
  <1>3. \A u \in Site : sent'[u] \in Nat /\ sent[u] <= sent'[u]
    BY <1>1
  <1>4. \A m \in Wrote(t, letters) : \E k \in 1 .. Len(letters) :
           m = Stamped(t, letters)[k] /\ m.id = <<t, sent[t] + k>> /\ m.sender = t
    BY DEF Wrote
  <1>5. ASSUME NEW m \in Travelling' PROVE m.id[2] <= sent'[m.sender]
    <2>1. CASE m \in Travelling
      BY <1>1, <1>2, <1>3, <2>1
    <2>2. CASE m \in Wrote(t, letters)
      <3>1. PICK k \in 1 .. Len(letters) : m.id = <<t, sent[t] + k>> /\ m.sender = t
        BY <1>4, <2>2
      <3> QED BY <1>1, <3>1
    <2> QED BY <2>1, <2>2
  <1>6. ASSUME NEW b \in Site, NEW id \in seen'[b] PROVE id[2] <= sent'[id[1]]
    <2>1. CASE id \in seen[b]
      <3>1. id[1] \in Site /\ id[2] \in Nat /\ id[2] <= sent[id[1]]
        BY <1>1, <2>1 DEF Stamps, Ids
      <3> QED BY <1>1, <1>3, <3>1
    <2>2. CASE id \notin seen[b]
      <3>1. PICK m \in Travelling : m.id = id
        BY <2>2
      <3> QED BY <1>1, <1>2, <1>3, <3>1
    <2> QED BY <2>1, <2>2
  <1>7. ASSUME NEW m \in Travelling', NEW o \in Travelling', m.id = o.id PROVE m = o
    <2>1. CASE m \in Travelling /\ o \in Travelling
      BY <1>7, <2>1 DEF Stamps
    <2>2. ASSUME NEW x \in Travelling, NEW y \in Wrote(t, letters), x.id = y.id PROVE FALSE
      <3>1. PICK k \in 1 .. Len(letters) : y.id = <<t, sent[t] + k>>
        BY <1>4
      <3>2. x.id[1] = t /\ x.id[2] = sent[t] + k
        BY <2>2, <3>1
      <3> QED BY <1>1, <1>2, <3>2
    <2>3. CASE m \in Wrote(t, letters) /\ o \in Wrote(t, letters)
      <3>1. PICK h \in 1 .. Len(letters) : m = Stamped(t, letters)[h] /\ m.id = <<t, sent[t] + h>>
        BY <1>4, <2>3
      <3>2. PICK k \in 1 .. Len(letters) : o = Stamped(t, letters)[k] /\ o.id = <<t, sent[t] + k>>
        BY <1>4, <2>3
      <3>3. sent[t] + h = sent[t] + k
        BY <1>7, <3>1, <3>2
      <3> QED BY <1>1, <3>1, <3>2, <3>3
    <2> QED BY <1>7, <2>1, <2>2, <2>3
  <1> QED BY <1>5, <1>6, <1>7 DEF Stamps

(* The links to those that read already, and the one that is read.         *)
Grows(u, v) ==
    /\ Len(link[u][v]) <= Len(link'[u][v])
    /\ \A i \in Places(u, v) : link'[u][v][i] = link[u][v][i]

LEMMA TakesLinks ==
    ASSUME Calmly, NEW s \in Site, NEW t \in Site, NEW R, NEW q, NEW old,
           Takes(s, t, R, q, old)
    PROVE  /\ \A u, v \in Site : ~(u = s /\ v = t) /\ ~(u = t /\ v \in R \ tee[t]) => Grows(u, v)
           /\ Len(link'[s][t]) = Len(link[s][t]) - 1
           /\ \A k \in 1 .. Len(link[s][t]) - 1 : link'[s][t][k] = link[s][t][k + 1]
           /\ \A u, v \in Site : ~(u = t /\ v \in R \ tee[t]) =>
                 \A i \in 1 .. Len(link'[u][v]) : i > Len(link[u][v]) =>
                    /\ u = t /\ v \in R /\ i - Len(link[u][v]) \in 1 .. Len(q)
                    /\ link'[u][v][i] = q[i - Len(link[u][v])]
           /\ \A v \in R : v \in tee[t] =>
                 /\ Len(link'[t][v]) = Len(link[t][v]) + Len(q)
                 /\ \A k \in 1 .. Len(q) : link'[t][v][Len(link[t][v]) + k] = q[k]
           /\ \A u \in Site : u # t => seen'[u] = seen[u]
           /\ seen'[t] = seen[t] \cup {FirstOf(s, t).id}
  <1>1. /\ \A u, v \in Site : link[u][v] \in Seq(Packet) /\ Len(link[u][v]) \in Nat
        /\ q \in Seq(Packet) /\ Len(q) \in Nat /\ s # t /\ link[s][t] # <<>>
        /\ R \subseteq Site /\ seen \in [Site -> SUBSET Ids]
        /\ seen' = [seen EXCEPT ![t] = @ \cup {FirstOf(s, t).id}]
    BY SMTT(30) DEF Calmly, Linking, Net, Takes, Typing, MemberTypeOK, LinksTypeOK
  <1>2. link'[s][t] = Tail(link[s][t])
    BY DEF Takes
  <1>3. \A v \in R : v \in tee[t] => link'[t][v] = link[t][v] \o q
    BY <1>1 DEF Takes
  <1>4. \A u, v \in Site : ~(u = s /\ v = t) /\ ~(u = t /\ v \in R) => link'[u][v] = link[u][v]
    BY DEF Takes
  <1>5. /\ Len(link'[s][t]) = Len(link[s][t]) - 1
        /\ \A k \in 1 .. Len(link[s][t]) - 1 : link'[s][t][k] = link[s][t][k + 1]
    BY <1>1, <1>2
  <1>6. ASSUME NEW v \in R, v \in tee[t]
        PROVE  /\ Len(link'[t][v]) = Len(link[t][v]) + Len(q)
               /\ \A k \in 1 .. Len(link[t][v]) : link'[t][v][k] = link[t][v][k]
               /\ \A k \in 1 .. Len(q) : link'[t][v][Len(link[t][v]) + k] = q[k]
    <2>1. link'[t][v] = link[t][v] \o q /\ link[t][v] \in Seq(Packet) /\ Len(link[t][v]) \in Nat
      BY <1>1, <1>3, <1>6
    <2>2. \A i \in 1 .. Len(link[t][v]) + Len(q) :
             link'[t][v][i] = IF i <= Len(link[t][v]) THEN link[t][v][i]
                              ELSE q[i - Len(link[t][v])]
      BY <1>1, <2>1
    <2>3. ASSUME NEW k \in 1 .. Len(q) PROVE link'[t][v][Len(link[t][v]) + k] = q[k]
      <3> DEFINE L == Len(link[t][v])
                 M == Len(q)
      <3>1. L \in Nat /\ M \in Nat /\ k \in 1 .. M
        BY <1>1, <2>1
      <3>2. L + k \in 1 .. L + M /\ ~(L + k <= L) /\ (L + k) - L = k
        <4> HIDE DEF L, M
        <4> QED BY <3>1
      <3> QED BY <2>2, <3>2
    <2> QED BY <1>1, <2>1, <2>2, <2>3
  <1>7. ASSUME NEW u \in Site, NEW v \in Site, ~(u = s /\ v = t), ~(u = t /\ v \in R \ tee[t])
        PROVE  Grows(u, v)
    BY <1>1, <1>4, <1>6, <1>7 DEF Grows, Places
  <1>8. ASSUME NEW u \in Site, NEW v \in Site, ~(u = t /\ v \in R \ tee[t]),
               NEW i \in 1 .. Len(link'[u][v]), i > Len(link[u][v])
        PROVE  /\ u = t /\ v \in R /\ i - Len(link[u][v]) \in 1 .. Len(q)
               /\ link'[u][v][i] = q[i - Len(link[u][v])]
    <2>1. CASE u = t /\ v \in R
      <3>1. /\ Len(link'[u][v]) = Len(link[u][v]) + Len(q)
            /\ \A k \in 1 .. Len(q) : link'[u][v][Len(link[u][v]) + k] = q[k]
        BY <1>6, <1>8, <2>1
      <3>2. /\ i - Len(link[u][v]) \in 1 .. Len(q)
            /\ Len(link[u][v]) + (i - Len(link[u][v])) = i
        BY <1>1, <1>8, <3>1
      <3> QED BY <2>1, <3>1, <3>2
    <2>2. CASE ~(u = t /\ v \in R)
      <3>1. Len(link[u][v]) \in Nat /\ i \in Nat /\ ~(i <= Len(link[u][v]))
        BY <1>1, <1>8
      <3>2. CASE u = s /\ v = t
        BY <1>5, <1>8, <3>1, <3>2
      <3>3. CASE ~(u = s /\ v = t)
        <4>1. link'[u][v] = link[u][v]
          BY <1>4, <2>2, <3>3
        <4> QED BY <1>8, <3>1, <4>1
      <3> QED BY <3>2, <3>3
    <2> QED BY <2>1, <2>2
  <1>9. /\ \A u \in Site : u # t => seen'[u] = seen[u]
        /\ seen'[t] = seen[t] \cup {FirstOf(s, t).id}
    BY <1>1
  <1> QED BY <1>5, <1>6, <1>7, <1>8, <1>9

(* What stays true when no news is written and p lets nobody in.           *)
LEMMA NewsKept ==
    ASSUME NEW p, NewsOK(p), directory'[p] = directory[p],
           \A m \in Travelling' : IsNews(m) => m \in Travelling
    PROVE  NewsOK(p)'
  <1>1. /\ \A m \in Travelling : IsNews(m) => m.sender = p
        /\ \A m \in Travelling : m.body.action = "ADD_USER_CONFIRM" =>
              m.dest = BROADCAST /\ \E j \in Joined(p) : Adds(m, directory[p][j])
        /\ \A m \in Travelling : m.body.action = "UPDATE_LISTE" =>
              \E j \in Joined(p) :
                 Lists(m, directory[p][j]) /\ m.body.list = SubSeq(directory[p], 1, j)
        /\ \A m, o \in Travelling : \A j, k \in Joined(p) :
              /\ Adds(m, directory[p][j]) /\ Adds(o, directory[p][k]) =>
                    (j < k => Before(m, o)) /\ (j = k => m.id = o.id)
              /\ Lists(m, directory[p][j]) /\ Adds(o, directory[p][k]) =>
                    (j <= k => Before(m, o)) /\ (j > k => Before(o, m))
    BY DEF NewsOK
  <1>2. \A m \in Travelling' :
           /\ m.body.action = "ADD_USER_CONFIRM" => m \in Travelling
           /\ m.body.action = "UPDATE_LISTE" => m \in Travelling
           /\ \A n : Adds(m, n) \/ Lists(m, n) => m \in Travelling
    BY DEF IsNews, Adds, Lists
  <1>3. Joined(p)' = Joined(p)
    BY DEF Joined
  <1>4. /\ \A m \in Travelling' : IsNews(m) => m.sender = p
        /\ \A m \in Travelling' : m.body.action = "ADD_USER_CONFIRM" =>
              m.dest = BROADCAST /\ \E j \in Joined(p) : Adds(m, directory[p][j])
        /\ \A m \in Travelling' : m.body.action = "UPDATE_LISTE" =>
              \E j \in Joined(p) :
                 Lists(m, directory[p][j]) /\ m.body.list = SubSeq(directory[p], 1, j)
    BY <1>1, <1>2
  <1>5. \A m, o \in Travelling' : \A j, k \in Joined(p) :
           /\ Adds(m, directory[p][j]) /\ Adds(o, directory[p][k]) =>
                 (j < k => Before(m, o)) /\ (j = k => m.id = o.id)
           /\ Lists(m, directory[p][j]) /\ Adds(o, directory[p][k]) =>
                 (j <= k => Before(m, o)) /\ (j > k => Before(o, m))
    BY <1>1, <1>2
  <1> QED BY <1>3, <1>4, <1>5 DEF NewsOK

LEMMA BehindKept ==
    ASSUME NEW p, NEW a, NEW b, Behind(p, a, b), directory'[p] = directory[p],
           Len(link[a][b]) \in Nat, Len(link'[a][b]) \in Nat, Len(directory[p]) \in Nat,
           Len(directory[b]) \in Nat, Len(directory'[b]) \in Nat,
           Len(directory[b]) <= Len(directory'[b]), Grows(a, b),
           \A i \in 1 .. Len(link'[a][b]) : i > Len(link[a][b]) =>
              link'[a][b][i].body.action # "ADD_USER_CONFIRM"
    PROVE  Behind(p, a, b)'
  <1>1. Joined(p)' = Joined(p) /\ First \in Nat
    BY LayoutAssumption, LenProperties DEF Joined, First
  <1> SUFFICES ASSUME NEW i \in 1 .. Len(link'[a][b]), NEW j \in Joined(p),
                      Adds(link'[a][b][i], directory[p][j]), NEW k \in First + 1 .. j - 1
               PROVE  \/ k <= Len(directory'[b])
                      \/ \E h \in 1 .. i - 1 : Adds(link'[a][b][h], directory[p][k])
    BY <1>1 DEF Behind, Places
  <1>2. i \in Places(a, b) /\ link'[a][b][i] = link[a][b][i]
    BY SMTT(30) DEF Adds, Grows, Places
  <1>3. \/ k <= Len(directory[b])
        \/ \E h \in 1 .. i - 1 : Adds(link[a][b][h], directory[p][k])
    BY <1>2 DEF Behind
  <1>4. \A h \in 1 .. i - 1 : link'[a][b][h] = link[a][b][h]
    BY <1>2 DEF Grows, Places
  <1>5. k \in Int
    BY <1>1 DEF Joined
  <1> QED BY <1>3, <1>4, <1>5

LEMMA PassedOnKept ==
    ASSUME NEW p, NEW a, NEW b, PassedOn(p, a, b), directory'[p] = directory[p],
           Len(link[a][b]) \in Nat, Len(link'[a][b]) \in Nat,
           Len(directory[a]) \in Nat, Len(directory'[a]) = Len(directory[a]),
           Len(directory[b]) \in Nat, Len(directory'[b]) \in Nat,
           Len(directory[b]) <= Len(directory'[b]), Grows(a, b)
    PROVE  PassedOn(p, a, b)'
  <1>1. First \in Nat /\ Joined(a)' = Joined(a)
    BY LayoutAssumption, LenProperties DEF First, Joined
  <1> SUFFICES ASSUME NEW j \in Joined(a)
               PROVE  j <= Len(directory'[b]) \/
                      \E i \in 1 .. Len(link'[a][b]) : Adds(link'[a][b][i], directory[p][j])
    BY <1>1 DEF PassedOn, AddOnLink, Places
  <1>2. j <= Len(directory[b]) \/ AddOnLink(a, b, directory[p][j])
    BY DEF PassedOn
  <1>3. CASE j <= Len(directory[b])
    BY <1>1, <1>3 DEF Joined
  <1>4. CASE AddOnLink(a, b, directory[p][j])
    <2>1. PICK i \in Places(a, b) : Adds(link[a][b][i], directory[p][j])
      BY <1>4 DEF AddOnLink
    <2>2. i \in 1 .. Len(link'[a][b]) /\ link'[a][b][i] = link[a][b][i]
      BY <2>1 DEF Grows, Places
    <2> QED BY <2>1, <2>2
  <1> QED BY <1>2, <1>3, <1>4

(* What is on the links of t after it has written: what was there, or what *)
(* a new reader gets first; the message taken, if it is written again; the *)
(* letters.                                                                *)
Base(t, v, old) == IF v \in tee[t] THEN link[t][v] ELSE old[v]
LEMMA WrittenOn ==
    ASSUME Calmly, NEW s \in Site, NEW t \in Site, NEW R, NEW old,
           NEW letters \in Seq(JoinSends(t)), Takes(s, t, R, Says(s, t, letters), old),
           NEW v \in R
    PROVE  /\ Base(t, v, old) \in Seq(Packet) /\ Len(Base(t, v, old)) \in Nat
           /\ \A i \in 1 .. Len(Base(t, v, old)) : Base(t, v, old)[i] \in Travelling
           /\ Lead(s, t) \in {0, 1} /\ Len(letters) \in Nat
           /\ Len(link'[t][v]) = Len(Base(t, v, old)) + Lead(s, t) + Len(letters)
           /\ \A i \in 1 .. Len(Base(t, v, old)) : link'[t][v][i] = Base(t, v, old)[i]
           /\ \A k \in 1 .. Len(letters) :
                 link'[t][v][Len(Base(t, v, old)) + Lead(s, t) + k] = Stamped(t, letters)[k]
           /\ \A i \in 1 .. Len(link'[t][v]) : i > Len(Base(t, v, old)) =>
                 \/ /\ i = Len(Base(t, v, old)) + 1 /\ Lead(s, t) = 1
                    /\ link'[t][v][i] = FirstOf(s, t)
                    /\ IsNew(t, FirstOf(s, t)) /\ Forwards(t, FirstOf(s, t))
                 \/ /\ i - (Len(Base(t, v, old)) + Lead(s, t)) \in 1 .. Len(letters)
                    /\ link'[t][v][i] =
                          Stamped(t, letters)[i - (Len(Base(t, v, old)) + Lead(s, t))]
  <1> DEFINE q == Says(s, t, letters)
             B == Base(t, v, old)
  <1>1. /\ link[s][t] # <<>> /\ s # t /\ R \in SUBSET Site /\ q \in Seq(Packet) /\ v \in Site
        /\ link'[t][v] = B \o q
        /\ link[t][v] \in Seq(Packet) /\ Len(link[t][v]) \in Nat
    <2>1. link[s][t] # <<>> /\ s # t /\ R \in SUBSET Site /\ q \in Seq(Packet)
      BY DEF Takes
    <2>2. v \in Site /\ link[t][v] \in Seq(Packet)
      BY <2>1 DEF Calmly, Linking, Net
    <2>3. link'[t][v] = IF t = s /\ v = t THEN Tail(link[t][v])
                        ELSE IF t = t /\ v \in R
                        THEN (IF v \in tee[t] THEN link[t][v] ELSE old[v]) \o q
                        ELSE link[t][v]
      BY <2>2 DEF Takes
    <2>4. link'[t][v] = B \o q
      BY <2>1, <2>3 DEF Base
    <2> QED BY <2>1, <2>2, <2>4, LenProperties
  <1>2. /\ Lead(s, t) = IF IsNew(t, FirstOf(s, t)) /\ Forwards(t, FirstOf(s, t)) THEN 1 ELSE 0
        /\ Len(letters) \in Nat
        /\ Len(q) = Lead(s, t) + Len(letters)
        /\ Lead(s, t) = 1 => q[1] = FirstOf(s, t)
        /\ \A k \in 1 .. Len(letters) : q[Lead(s, t) + k] = Stamped(t, letters)[k]
    BY <1>1, SaysFrom
  <1>3. B \in Seq(Packet) /\ Len(B) \in Nat /\ \A i \in 1 .. Len(B) : B[i] \in Travelling
    <2>1. CASE v \in tee[t]
      <3>1. B = link[t][v]
        BY <2>1 DEF Base
      <3>2. \A i \in Places(t, v) : link[t][v][i] \in Travelling
        BY <1>1, OnLinkTravels
      <3> QED BY <1>1, <3>1, <3>2 DEF Places
    <2>2. CASE v \notin tee[t]
      <3>1. B = old[v] /\ old[v] \in Uncopied(t)
        BY <2>2 DEF Base, Takes
      <3>2. old[v] \in Seq(Packet)
        BY <3>1, UncopiedTyped DEF Calmly, Linking, Typing, MemberTypeOK
      <3>3. ASSUME NEW k \in 1 .. Len(old[v]) PROVE old[v][k] \in Travelling
        <4>1. PICK r \in tee[t] : \E h \in Places(t, r) : old[v][k] = link[t][r][h]
          BY <3>1, UncopiedFrom
        <4>2. r \in Site
          BY DEF Calmly, Typing, MemberTypeOK
        <4> QED BY <4>1, <4>2, OnLinkTravels
      <3>4. Len(old[v]) \in Nat
        BY <3>2, LenProperties
      <3> QED BY <3>1, <3>2, <3>3, <3>4
    <2> QED BY <2>1, <2>2
  <1> HIDE DEF q, B
  <1>4. /\ Len(B \o q) = Len(B) + Len(q) /\ Len(q) \in Nat
        /\ \A i \in 1 .. Len(B) : (B \o q)[i] = B[i]
        /\ \A i \in 1 .. Len(B) + Len(q) : i > Len(B) => (B \o q)[i] = q[i - Len(B)]
    BY <1>1, <1>3
  <1>5. Lead(s, t) \in {0, 1}
    BY <1>2
  <1>6. ASSUME NEW k \in 1 .. Len(letters)
        PROVE  link'[t][v][Len(B) + Lead(s, t) + k] = Stamped(t, letters)[k]
    <2>1. /\ Len(B) + Lead(s, t) + k \in 1 .. Len(B) + Len(q)
          /\ Len(B) + Lead(s, t) + k > Len(B)
          /\ (Len(B) + Lead(s, t) + k) - Len(B) = Lead(s, t) + k
      BY <1>2, <1>3, <1>5
    <2> QED BY <1>1, <1>2, <1>4, <2>1
  <1>7. ASSUME NEW i \in 1 .. Len(link'[t][v]), i > Len(B)
        PROVE  \/ /\ i = Len(B) + 1 /\ Lead(s, t) = 1 /\ link'[t][v][i] = FirstOf(s, t)
                  /\ IsNew(t, FirstOf(s, t)) /\ Forwards(t, FirstOf(s, t))
               \/ /\ i - (Len(B) + Lead(s, t)) \in 1 .. Len(letters)
                  /\ link'[t][v][i] = Stamped(t, letters)[i - (Len(B) + Lead(s, t))]
    <2>1. i \in Int /\ i - Len(B) \in 1 .. Len(q) /\ link'[t][v][i] = q[i - Len(B)]
      BY <1>1, <1>3, <1>4, <1>7
    <2>2. CASE i - Len(B) <= Lead(s, t)
      <3>1. Lead(s, t) = 1 /\ i - Len(B) = 1 /\ i = Len(B) + 1
        BY <1>3, <1>5, <2>1, <2>2
      <3> QED BY <1>2, <2>1, <3>1
    <2>3. CASE i - Len(B) > Lead(s, t)
      <3> DEFINE k == i - (Len(B) + Lead(s, t))
      <3>1. k \in 1 .. Len(letters) /\ Lead(s, t) + k = i - Len(B)
        BY <1>2, <1>3, <1>5, <2>1, <2>3
      <3> QED BY <1>2, <2>1, <3>1
    <2> QED BY <1>3, <1>5, <2>1, <2>2, <2>3
  <1>8. Len(link'[t][v]) = Len(B) + Lead(s, t) + Len(letters)
    BY <1>1, <1>2, <1>3, <1>4, <1>5
  <1>9. \A i \in 1 .. Len(B) : link'[t][v][i] = B[i]
    BY <1>1, <1>4
  <1> QED BY <1>2, <1>3, <1>5, <1>6, <1>7, <1>8, <1>9 DEF B

LEMMA WrittenToReader ==
    ASSUME Calmly, NEW s \in Site, NEW t \in Site, NEW R, NEW old,
           NEW letters \in Seq(JoinSends(t)), Takes(s, t, R, Says(s, t, letters), old),
           NEW v \in R, v \in tee[t]
    PROVE  /\ Lead(s, t) \in {0, 1} /\ Len(letters) \in Nat /\ Len(link[t][v]) \in Nat
           /\ Len(link'[t][v]) = Len(link[t][v]) + Lead(s, t) + Len(letters)
           /\ \A i \in 1 .. Len(link[t][v]) : link'[t][v][i] = link[t][v][i]
           /\ \A k \in 1 .. Len(letters) :
                 link'[t][v][Len(link[t][v]) + Lead(s, t) + k] = Stamped(t, letters)[k]
           /\ \A i \in 1 .. Len(link'[t][v]) : i > Len(link[t][v]) =>
                 \/ /\ i = Len(link[t][v]) + 1 /\ Lead(s, t) = 1
                    /\ link'[t][v][i] = FirstOf(s, t)
                    /\ IsNew(t, FirstOf(s, t)) /\ Forwards(t, FirstOf(s, t))
                 \/ /\ i - (Len(link[t][v]) + Lead(s, t)) \in 1 .. Len(letters)
                    /\ link'[t][v][i] =
                          Stamped(t, letters)[i - (Len(link[t][v]) + Lead(s, t))]
  <1> DEFINE B == Base(t, v, old)
  <1>1. B = link[t][v]
    BY DEF Base
  <1>2. /\ Lead(s, t) \in {0, 1} /\ Len(letters) \in Nat /\ Len(B) \in Nat
        /\ Len(link'[t][v]) = Len(B) + Lead(s, t) + Len(letters)
    BY WrittenOn
  <1>3. /\ \A i \in 1 .. Len(B) : link'[t][v][i] = B[i]
        /\ \A k \in 1 .. Len(letters) :
              link'[t][v][Len(B) + Lead(s, t) + k] = Stamped(t, letters)[k]
    BY WrittenOn
  <1>4. \A i \in 1 .. Len(link'[t][v]) : i > Len(B) =>
           \/ /\ i = Len(B) + 1 /\ Lead(s, t) = 1
              /\ link'[t][v][i] = FirstOf(s, t)
              /\ IsNew(t, FirstOf(s, t)) /\ Forwards(t, FirstOf(s, t))
           \/ /\ i - (Len(B) + Lead(s, t)) \in 1 .. Len(letters)
              /\ link'[t][v][i] = Stamped(t, letters)[i - (Len(B) + Lead(s, t))]
    BY WrittenOn
  <1> HIDE DEF B
  <1> QED BY <1>1, <1>2, <1>3, <1>4

(* A step that brings nobody in writes no news, and p does not hear its    *)
(* own.                                                                    *)
LEMMA CalmNews ==
    ASSUME NEW p \in Old, Ordered(p), Calmly', plan' = plan, NEW s \in Site, NEW t \in Site,
           NEW letters \in Seq(Chat(t)), Calm(s, t, letters)
    PROVE  /\ Calmly /\ letters \in Seq(JoinSends(t)) /\ link[s][t] # <<>> /\ s # t
           /\ Takes(s, t, tee[t], Says(s, t, letters), link[t])
           /\ FirstOf(s, t) \in Travelling /\ FirstOf(s, t) = link[s][t][1]
           /\ 1 \in Places(s, t)
           /\ IsNews(FirstOf(s, t)) => FirstOf(s, t).sender = p
           /\ Travelling' \subseteq Travelling \cup Wrote(t, letters)
           /\ \A k \in 1 .. Len(letters) : ~IsNews(Stamped(t, letters)[k])
           /\ \A m \in Travelling' : IsNews(m) => m \in Travelling
           /\ \A b \in Site : b # t => directory'[b] = directory[b]
           /\ directory'[p] = directory[p]
  <1>1. Calmly /\ letters \in Seq(JoinSends(t))
    BY ChatIsJoin DEF Ordered, Counting
  <1>2. Takes(s, t, tee[t], Says(s, t, letters), link[t]) /\ link[s][t] # <<>> /\ s # t
    BY DEF Calm, Takes
  <1>3. Travelling' \subseteq Travelling \cup Wrote(t, letters) /\ FirstOf(s, t) \in Travelling
    BY <1>1, <1>2, TakesTravelling
  <1>4. FirstOf(s, t) = link[s][t][1] /\ 1 \in Places(s, t)
    BY <1>1, <1>2, LinkingFacts
  <1>5. ASSUME NEW k \in 1 .. Len(letters) PROVE ~IsNews(Stamped(t, letters)[k])
    <2>1. Stamped(t, letters)[k].body = letters[k].body
      BY <1>1, <1>2, SaysFrom
    <2>2. letters[k] \in Chat(t)
      BY ElementOfSeq
    <2> QED BY <2>1, <2>2 DEF Chat, ChatAction, IsNews
  <1>6. IsNews(FirstOf(s, t)) => FirstOf(s, t).sender = p
    BY <1>3 DEF Ordered, NewsOK
  <1>7. directory \in [Site -> Seq(Site)] /\ p \in Site
    BY PeerFacts
  <1>8. /\ \A b \in Site : b # t => directory'[b] = directory[b]
        /\ directory'[p] = directory[p]
    <2>1. \A b \in Site : b # t => directory'[b] = directory[b]
      BY <1>7 DEF Calm
    <2>2. CASE t = p
      <3>1. ~Gets(s, t, "UPDATE_LISTE") /\ ~Gets(s, t, "ADD_USER_CONFIRM")
        BY <1>6, <2>2 DEF Gets, Receives, Processes, IsNews
      <3> QED BY <1>7, <2>2, <3>1 DEF Calm
    <2> QED BY <1>7, <2>1, <2>2
  <1>9. \A m \in Travelling' : IsNews(m) => m \in Travelling
    BY <1>3, <1>5 DEF Wrote
  <1> QED BY <1>1, <1>2, <1>3, <1>4, <1>5, <1>6, <1>8, <1>9

(* What a first site learns from a message: the next name, or nothing.     *)
LEMMA Heard ==
    ASSUME NEW p \in Old, Ordered(p), Calmly', plan' = plan, NEW s \in Site, NEW t \in Old \ {p},
           NEW letters \in Seq(Chat(t)), Calm(s, t, letters)
    PROVE  /\ Len(directory[t]) <= Len(directory'[t]) /\ Len(directory'[t]) <= Len(directory[p])
           /\ Len(directory'[t]) \in Nat
           /\ directory'[t] = SubSeq(directory[p], 1, Len(directory'[t]))
           /\ \A j \in Joined(p) : Adds(FirstOf(s, t), directory[p][j]) =>
                 /\ j <= Len(directory'[t])
                 /\ IsNew(t, FirstOf(s, t)) => j = Len(directory[t]) + 1
           /\ \A j \in Len(directory[t]) + 1 .. Len(directory'[t]) :
                 /\ Adds(FirstOf(s, t), directory[p][j])
                 /\ IsNew(t, FirstOf(s, t)) /\ Forwards(t, FirstOf(s, t))
           /\ \A m \in Travelling' : \A j \in Joined(p) : Adds(m, directory[p][j]) =>
                 (m.id \in seen'[t] <=> j <= Len(directory'[t]))
  <1> DEFINE m == FirstOf(s, t)
             D == directory[p]
             L == Len(directory[t])
  <1>1. /\ t \in Site /\ t \notin Newcomer /\ t # p /\ p \in Site
        /\ directory \in [Site -> Seq(Site)] /\ L \in Nat /\ Len(D) \in Nat /\ First \in Nat
        /\ D \in Seq(Site)
        /\ seen \in [Site -> SUBSET Ids] /\ Joined(p) \subseteq Nat
    BY PeerFacts DEF Old
  <1>2. /\ Calmly /\ link[s][t] # <<>> /\ m \in Travelling /\ m = link[s][t][1]
        /\ 1 \in Places(s, t) /\ s # t
        /\ Takes(s, t, tee[t], Says(s, t, letters), link[t])
        /\ \A o \in Travelling' : IsNews(o) => o \in Travelling
    BY <1>1, CalmNews
  <1>3. /\ First <= L /\ L <= Len(D) /\ directory[t] = SubSeq(D, 1, L)
        /\ \A o \in Travelling : \A j \in Joined(p) : Adds(o, D[j]) =>
              (o.id \in seen[t] <=> j <= L)
        /\ Behind(p, s, t)
    BY DEF Ordered, OldOK
  <1>4. /\ \A j \in Joined(p) : D[j] \in Newcomer
        /\ \A i, j \in 1 .. Len(D) : D[i] = D[j] => i = j
    BY DEF Ordered, RollOK
  <1>5. IsNew(t, m) <=> m.id \notin seen[t]
    BY DEF IsNew, Id
  <1>6. seen'[t] = seen[t] \cup {m.id}
    BY <1>1, <1>2 DEF Takes
  <1>7. ~Gets(s, t, "UPDATE_LISTE")
    <2> SUFFICES ASSUME Gets(s, t, "UPDATE_LISTE") PROVE FALSE
      OBVIOUS
    <2>1. m.body.action = "UPDATE_LISTE" /\ m.dest \in {BROADCAST, BROADCAST_NEIGHBORS, t}
      BY DEF Gets, Receives, Processes
    <2>2. PICK j \in Joined(p) : m.dest = D[j]
      BY <1>2, <2>1 DEF Ordered, NewsOK, Lists
    <2>3. m.dest \in Newcomer
      BY <1>4, <2>2
    <2> QED BY <1>1, <2>1, <2>3, NoSiteFacts, NewcomerAssumption
  <1>8. ASSUME NEW j \in Joined(p), Adds(m, D[j])
        PROVE  /\ m.sender = p /\ m.dest = BROADCAST
               /\ IsNew(t, m) => j = L + 1
               /\ ~IsNew(t, m) => j <= L
    <2>1. m.sender = p /\ m.dest = BROADCAST
      BY <1>2, <1>8 DEF Ordered, NewsOK, Adds, IsNews
    <2>2. ~IsNew(t, m) => j <= L
      BY <1>2, <1>3, <1>5, <1>8
    <2>3. IsNew(t, m) => j = L + 1
      <3> SUFFICES ASSUME IsNew(t, m) PROVE j = L + 1
        OBVIOUS
      <3>1. ~(j <= L) /\ j \in Nat
        BY <1>1, <1>2, <1>3, <1>5, <1>8
      <3>2. \A k \in First + 1 .. j - 1 : k <= L \/ \E h \in 1 .. 1 - 1 : Adds(link[s][t][h], D[k])
        BY <1>2, <1>3, <1>8 DEF Behind
      <3>3. \A k \in First + 1 .. j - 1 : k <= L
        BY <3>2
      <3>4. CASE j > L + 1
        <4>1. L + 1 \in First + 1 .. j - 1
          BY <1>1, <1>3, <3>1, <3>4
        <4> QED BY <1>1, <3>3, <4>1
      <3> QED BY <1>1, <3>1, <3>4
    <2> QED BY <2>1, <2>2, <2>3
  <1>9. CASE \E j \in Joined(p) : Adds(m, D[j]) /\ IsNew(t, m)
    <2>1. PICK j \in Joined(p) : Adds(m, D[j]) /\ IsNew(t, m)
      BY <1>9
    <2>2. m.sender = p /\ m.dest = BROADCAST /\ j = L + 1
      BY <1>8, <2>1
    <2>3. Processes(t, m) /\ Forwards(t, m) /\ Gets(s, t, "ADD_USER_CONFIRM")
      BY <1>1, <1>2, <2>1, <2>2, NoSiteFacts
         DEF Processes, Forwards, Gets, Receives, Adds, BROADCAST, BROADCAST_NEIGHBORS
    <2>4. D[j] \in Newcomer /\ m.body.who = D[j] /\ j \in 1 .. Len(D)
      BY <1>1, <1>4, <2>1 DEF Adds, Joined
    <2>5. directory'[t] = Append(directory[t], D[j])
      BY <1>1, <1>7, <2>3, <2>4 DEF Calm, WithUser
    <2>6. directory'[t] = SubSeq(D, 1, j) /\ Len(directory'[t]) = j
      <3> HIDE DEF D
      <3>1. Append(SubSeq(D, 1, L), D[L + 1]) = SubSeq(D, 1, L + 1) /\ Len(SubSeq(D, 1, L + 1)) = L + 1
        <4> HIDE DEF L
        <4> QED BY <1>1, <1>3, <2>2, <2>4
      <3> QED BY <1>3, <2>2, <2>5, <3>1
    <2>7. ASSUME NEW o \in Travelling', NEW k \in Joined(p), Adds(o, D[k])
          PROVE  o.id \in seen'[t] <=> k <= j
      <3>1. o \in Travelling
        BY <1>2, <2>7 DEF Adds, IsNews
      <3>2. o.id = m.id => k = j
        <4>1. o.id = m.id => o = m
          BY <1>2, <3>1 DEF Ordered, Stamps
        <4>2. k \in 1 .. Len(D)
          BY <1>1 DEF Joined
        <4> QED BY <1>4, <2>1, <2>4, <2>7, <4>1, <4>2 DEF Adds
      <3>3. k = j => o.id = m.id
        BY <1>2, <2>1, <2>7, <3>1 DEF Ordered, NewsOK
      <3>4. o.id \in seen[t] <=> k <= L
        BY <1>3, <2>7, <3>1
      <3> QED BY <1>1, <1>6, <2>2, <3>2, <3>3, <3>4
    <2>8. ASSUME NEW k \in Joined(p), Adds(m, D[k]) PROVE k = j
      <3>1. k \in 1 .. Len(D)
        BY <1>1 DEF Joined
      <3>2. D[k] = D[j]
        BY <2>4, <2>8 DEF Adds
      <3> HIDE DEF D
      <3> QED BY <1>4, <2>4, <3>1, <3>2
    <2>9. L <= j /\ j <= Len(D) /\ j \in Nat /\ \A k \in L + 1 .. j : k = j
      BY <1>1, <2>2, <2>4
    <2> QED BY <2>1, <2>2, <2>3, <2>6, <2>7, <2>8, <2>9
  <1>10. CASE ~\E j \in Joined(p) : Adds(m, D[j]) /\ IsNew(t, m)
    <2>1. ~Gets(s, t, "ADD_USER_CONFIRM")
      <3> SUFFICES ASSUME Gets(s, t, "ADD_USER_CONFIRM") PROVE FALSE
        OBVIOUS
      <3>1. m.body.action = "ADD_USER_CONFIRM" /\ IsNew(t, m)
        BY DEF Gets, Receives
      <3>2. \E j \in Joined(p) : Adds(m, D[j])
        BY <1>2, <3>1 DEF Ordered, NewsOK
      <3> QED BY <1>10, <3>1, <3>2
    <2>2. directory'[t] = directory[t]
      BY <1>1, <1>7, <2>1 DEF Calm
    <2>3. ASSUME NEW o \in Travelling', NEW k \in Joined(p), Adds(o, D[k])
          PROVE  o.id \in seen'[t] <=> k <= L
      <3>1. o \in Travelling
        BY <1>2, <2>3 DEF Adds, IsNews
      <3>2. o.id \in seen[t] <=> k <= L
        BY <1>3, <2>3, <3>1
      <3>3. o.id = m.id => o.id \in seen[t]
        <4>1. o.id = m.id => o = m
          BY <1>2, <3>1 DEF Ordered, Stamps
        <4> QED BY <1>5, <1>10, <2>3, <4>1
      <3> QED BY <1>6, <3>2, <3>3
    <2>4. \A j \in Joined(p) : Adds(m, D[j]) => j <= L /\ ~IsNew(t, m)
      BY <1>8, <1>10
    <2> QED BY <1>1, <1>3, <2>2, <2>3, <2>4
  <1> QED BY <1>9, <1>10

LEMMA OldCalm ==
    ASSUME NEW p \in Old, Ordered(p), Calmly', plan' = plan, NEW s \in Site, NEW t \in Site,
           NEW letters \in Seq(Chat(t)), Calm(s, t, letters)
    PROVE  OldOK(p)'
  <1> DEFINE m == FirstOf(s, t)
             D == directory[p]
  <1>1. /\ p \in Site /\ p \notin Newcomer /\ Newcomer \subseteq Site
        /\ directory \in [Site -> Seq(Site)] /\ Len(D) \in Nat
        /\ \A b \in Site : Len(directory[b]) \in Nat
        /\ First \in Nat /\ Joined(p) \subseteq Nat
        /\ \A n \in Newcomer : tee[n] # {} => tee[n] = {p}
        /\ seen \in [Site -> SUBSET Ids] /\ tee \in [Site -> SUBSET Site]
    BY PeerFacts
  <1>2. /\ Calmly /\ letters \in Seq(JoinSends(t)) /\ link[s][t] # <<>> /\ s # t
        /\ Takes(s, t, tee[t], Says(s, t, letters), link[t])
        /\ m \in Travelling /\ m = link[s][t][1] /\ 1 \in Places(s, t)
        /\ IsNews(m) => m.sender = p
        /\ \A k \in 1 .. Len(letters) : ~IsNews(Stamped(t, letters)[k])
        /\ \A o \in Travelling' : IsNews(o) => o \in Travelling
        /\ \A b \in Site : b # t => directory'[b] = directory[b]
        /\ directory'[p] = D
    BY CalmNews
  <1>3. /\ \A u, v \in Site : ~(u = s /\ v = t) => Grows(u, v)
        /\ Len(link'[s][t]) = Len(link[s][t]) - 1
        /\ \A k \in 1 .. Len(link[s][t]) - 1 : link'[s][t][k] = link[s][t][k + 1]
        /\ \A u, v \in Site : \A i \in 1 .. Len(link'[u][v]) : i > Len(link[u][v]) => u = t /\ v \in tee[t]
        /\ \A u \in Site : u # t => seen'[u] = seen[u]
    <2>1. tee[t] \ tee[t] = {}
      OBVIOUS
    <2> QED BY <1>2, <2>1, TakesLinks
  <1>4. \A u, v \in Site : Len(link[u][v]) \in Nat /\ Len(link'[u][v]) \in Nat
    BY <1>2, LenProperties DEF Calmly, Linking, Net
  <1>5. Joined(p)' = Joined(p)
    BY <1>2 DEF Joined
  <1>6. \A b \in Old \ {p} :
           /\ First <= Len(directory[b]) /\ Len(directory[b]) <= Len(D)
           /\ directory[b] = SubSeq(D, 1, Len(directory[b]))
           /\ \A o \in Travelling : \A j \in Joined(p) : Adds(o, D[j]) =>
                 (o.id \in seen[b] <=> j <= Len(directory[b]))
           /\ \A a \in Site : Behind(p, a, b)
           /\ \A a \in Old : b \in tee[a] => PassedOn(p, a, b)
    BY DEF Ordered, OldOK
  <1>7. t \in Old \ {p} =>
           /\ Len(directory[t]) <= Len(directory'[t]) /\ Len(directory'[t]) <= Len(D)
           /\ Len(directory'[t]) \in Nat
           /\ directory'[t] = SubSeq(D, 1, Len(directory'[t]))
           /\ \A j \in Joined(p) : Adds(m, D[j]) =>
                 /\ j <= Len(directory'[t])
                 /\ IsNew(t, m) => j = Len(directory[t]) + 1
           /\ \A j \in Len(directory[t]) + 1 .. Len(directory'[t]) :
                 Adds(m, D[j]) /\ IsNew(t, m) /\ Forwards(t, m)
           /\ \A o \in Travelling' : \A j \in Joined(p) : Adds(o, D[j]) =>
                 (o.id \in seen'[t] <=> j <= Len(directory'[t]))
    BY Heard
  <1>8. ASSUME NEW b \in Old \ {p}
        PROVE  /\ First <= Len(directory'[b]) /\ Len(directory'[b]) <= Len(D)
               /\ Len(directory[b]) <= Len(directory'[b]) /\ Len(directory'[b]) \in Nat
               /\ directory'[b] = SubSeq(D, 1, Len(directory'[b]))
               /\ \A o \in Travelling' : \A j \in Joined(p) : Adds(o, D[j]) =>
                     (o.id \in seen'[b] <=> j <= Len(directory'[b]))
    <2>0. b \in Site /\ Len(directory[b]) \in Nat
      BY <1>1 DEF Old
    <2>1. CASE b = t
      BY <1>1, <1>6, <1>7, <2>0, <2>1
    <2>2. CASE b # t
      <3>1. directory'[b] = directory[b] /\ seen'[b] = seen[b]
        BY <1>2, <1>3, <2>0, <2>2
      <3>2. \A o \in Travelling' : \A j \in Joined(p) : Adds(o, D[j]) => o \in Travelling
        BY <1>2 DEF Adds, IsNews
      <3> QED BY <1>6, <2>0, <3>1, <3>2
    <2> QED BY <2>1, <2>2
  <1>9. ASSUME NEW b \in Site, b \in tee[t], NEW i \in 1 .. Len(link'[t][b]), i > Len(link[t][b]),
               NEW j, Adds(link'[t][b][i], D[j]), b \in Old \ {p}
        PROVE  /\ i = Len(link[t][b]) + 1 /\ Adds(m, D[j]) /\ IsNew(t, m) /\ t \in Old \ {p}
    <2>1. \/ /\ i = Len(link[t][b]) + 1 /\ Lead(s, t) = 1 /\ link'[t][b][i] = m
             /\ IsNew(t, m) /\ Forwards(t, m)
          \/ /\ i - (Len(link[t][b]) + Lead(s, t)) \in 1 .. Len(letters)
             /\ link'[t][b][i] = Stamped(t, letters)[i - (Len(link[t][b]) + Lead(s, t))]
      <3> HIDE DEF m, D
      <3>1. \A h \in 1 .. Len(link'[t][b]) : h > Len(link[t][b]) =>
               \/ /\ h = Len(link[t][b]) + 1 /\ Lead(s, t) = 1
                  /\ link'[t][b][h] = FirstOf(s, t)
                  /\ IsNew(t, FirstOf(s, t)) /\ Forwards(t, FirstOf(s, t))
               \/ /\ h - (Len(link[t][b]) + Lead(s, t)) \in 1 .. Len(letters)
                  /\ link'[t][b][h] =
                        Stamped(t, letters)[h - (Len(link[t][b]) + Lead(s, t))]
        BY <1>2, <1>9, WrittenToReader
      <3> QED BY <1>9, <3>1 DEF m
    <2>2. i = Len(link[t][b]) + 1 /\ link'[t][b][i] = m /\ IsNew(t, m) /\ Forwards(t, m)
      BY <1>2, <1>9, <2>1 DEF Adds, IsNews
    <2>3. t # p
      BY <1>2, <1>9, <2>2 DEF Forwards, Adds, IsNews
    <2>4. t \notin Newcomer
      BY <1>1, <1>9 DEF Old
    <2> QED BY <1>9, <2>2, <2>3, <2>4 DEF Old
  <1>10. ASSUME NEW a \in Site, NEW b \in Old \ {p}, NEW i \in 1 .. Len(link'[a][b]),
                NEW j \in Joined(p), Adds(link'[a][b][i], D[j]), NEW k \in First + 1 .. j - 1
         PROVE  \/ k <= Len(directory'[b])
                \/ \E h \in 1 .. i - 1 : Adds(link'[a][b][h], D[k])
    <2>0. /\ b \in Site /\ Len(directory[b]) \in Nat /\ k \in Nat /\ j \in Nat /\ k \in Joined(p)
          /\ Len(directory[b]) <= Len(directory'[b]) /\ Len(directory'[b]) \in Nat
      BY <1>1, <1>8 DEF Old, Joined
    <2>1. CASE a = s /\ b = t
      <3>1. i + 1 \in Places(a, b) /\ link'[a][b][i] = link[a][b][i + 1] /\ i \in Nat
        <4>1. i \in 1 .. Len(link[s][t]) - 1 /\ Len(link[s][t]) \in Nat
          BY <1>3, <1>4, <1>10, <2>1
        <4>2. link'[s][t][i] = link[s][t][i + 1]
          BY <1>3, <4>1
        <4> QED BY <2>1, <4>1, <4>2 DEF Places
      <3>2. k <= Len(directory[b]) \/ \E h \in 1 .. (i + 1) - 1 : Adds(link[a][b][h], D[k])
        BY <1>6, <1>10, <3>1 DEF Behind
      <3>3. ASSUME NEW h \in 1 .. i, Adds(link[a][b][h], D[k])
            PROVE  \/ k <= Len(directory'[b])
                   \/ \E g \in 1 .. i - 1 : Adds(link'[a][b][g], D[k])
        <4>1. CASE h = 1
          BY <1>2, <1>7, <2>0, <2>1, <3>3, <4>1
        <4>2. CASE h # 1
          <5>1. h - 1 \in 1 .. i - 1 /\ h - 1 \in 1 .. Len(link[s][t]) - 1 /\ (h - 1) + 1 = h
            BY <1>4, <2>1, <3>1, <4>2 DEF Places
          <5>2. link'[a][b][h - 1] = link[a][b][h]
            BY <1>3, <2>1, <5>1
          <5> QED BY <3>3, <5>1, <5>2
        <4> QED BY <4>1, <4>2
      <3>4. (i + 1) - 1 = i
        BY <3>1
      <3> QED BY <2>0, <3>2, <3>3, <3>4
    <2>2. CASE ~(a = s /\ b = t) /\ i \in Places(a, b)
      <3>1. \A h \in Places(a, b) : link'[a][b][h] = link[a][b][h]
        BY <1>3, <2>0, <2>2 DEF Grows
      <3>2. k <= Len(directory[b]) \/ \E h \in 1 .. i - 1 : Adds(link[a][b][h], D[k])
        BY <1>6, <1>10, <2>2, <3>1 DEF Behind
      <3>3. \A h \in 1 .. i - 1 : h \in Places(a, b)
        BY <1>4, <2>0, <2>2 DEF Places
      <3> QED BY <2>0, <3>1, <3>2, <3>3
    <2>3. CASE ~(a = s /\ b = t) /\ i \notin Places(a, b)
      <3>1. i > Len(link[a][b])
        BY <1>4, <2>0, <2>3 DEF Places
      <3>2. a = t /\ b \in tee[t]
        BY <1>3, <2>0, <3>1
      <3>3. /\ i = Len(link[t][b]) + 1 /\ Adds(m, D[j]) /\ IsNew(t, m) /\ t \in Old \ {p}
        BY <1>9, <1>10, <2>0, <3>1, <3>2
      <3>4. j = Len(directory[t]) + 1 /\ Len(directory[t]) \in Nat
        BY <1>1, <1>7, <3>3 DEF Old
      <3>5. k \in Joined(t)
        BY <1>1, <2>0, <3>4 DEF Joined
      <3>6. k <= Len(directory[b]) \/ AddOnLink(t, b, D[k])
        BY <1>6, <3>2, <3>3, <3>5 DEF PassedOn
      <3>7. ASSUME NEW h \in Places(t, b), Adds(link[t][b][h], D[k])
            PROVE  h \in 1 .. i - 1 /\ Adds(link'[a][b][h], D[k])
        <4>1. link'[t][b][h] = link[t][b][h]
          BY <1>3, <2>0, <2>3, <3>2, <3>7 DEF Grows
        <4> QED BY <1>4, <2>0, <3>2, <3>3, <3>7, <4>1 DEF Places
      <3> QED BY <2>0, <3>6, <3>7 DEF AddOnLink
    <2> QED BY <2>1, <2>2, <2>3
  <1>11. ASSUME NEW a \in Old, NEW b \in Old \ {p}, b \in tee[a],
                NEW j \in First + 1 .. Len(directory'[a])
         PROVE  \/ j <= Len(directory'[b])
                \/ \E i \in 1 .. Len(link'[a][b]) : Adds(link'[a][b][i], D[j])
    <2>0. /\ a \in Site /\ b \in Site /\ Len(directory[b]) \in Nat /\ j \in Nat
          /\ Len(directory[a]) \in Nat
          /\ Len(directory[b]) <= Len(directory'[b]) /\ Len(directory'[b]) \in Nat
          /\ j \in Joined(p)
      <3>1. Len(directory'[a]) <= Len(D) /\ Len(directory'[a]) \in Nat
        BY <1>1, <1>2, <1>8
      <3> QED BY <1>1, <1>8, <3>1 DEF Old, Joined
    <2>1. CASE j \in Joined(a)
      <3>1. j <= Len(directory[b]) \/ \E i \in Places(a, b) : Adds(link[a][b][i], D[j])
        BY <1>6, <1>11, <2>1 DEF PassedOn, AddOnLink
      <3>2. ASSUME NEW i \in Places(a, b), Adds(link[a][b][i], D[j])
            PROVE  \/ j <= Len(directory'[b])
                   \/ \E g \in 1 .. Len(link'[a][b]) : Adds(link'[a][b][g], D[j])
        <4>1. CASE ~(a = s /\ b = t)
          <5>1. i \in 1 .. Len(link'[a][b]) /\ link'[a][b][i] = link[a][b][i]
            BY <1>3, <1>4, <2>0, <4>1 DEF Grows, Places
          <5> QED BY <3>2, <5>1
        <4>2. CASE a = s /\ b = t /\ i = 1
          BY <1>2, <1>7, <2>0, <3>2, <4>2
        <4>3. CASE a = s /\ b = t /\ i # 1
          <5>1. i - 1 \in 1 .. Len(link[s][t]) - 1 /\ (i - 1) + 1 = i
            BY <1>4, <2>0, <4>3 DEF Places
          <5>2. link'[s][t][i - 1] = link[s][t][i] /\ i - 1 \in 1 .. Len(link'[s][t])
            BY <1>3, <5>1
          <5> QED BY <3>2, <4>3, <5>2
        <4> QED BY <4>1, <4>2, <4>3
      <3> QED BY <2>0, <3>1, <3>2
    <2>2. CASE j \notin Joined(a)
      <3>1. j > Len(directory[a]) /\ a = t
        <4>1. j > Len(directory[a])
          BY <1>1, <2>0, <2>2 DEF Joined
        <4>2. a # t => directory'[a] = directory[a]
          BY <1>2, <2>0
        <4>3. a # t => j <= Len(directory[a])
          BY <2>0, <4>2
        <4> QED BY <2>0, <4>1, <4>3
      <3>2. t # p
        <4>1. ASSUME t = p PROVE FALSE
          <5>1. directory'[a] = directory[a]
            BY <1>2, <3>1, <4>1
          <5>2. j <= Len(directory[a])
            BY <2>0, <5>1
          <5> QED BY <2>0, <3>1, <5>2
        <4> QED BY <4>1
      <3>3. t \in Old \ {p} /\ j \in Len(directory[t]) + 1 .. Len(directory'[t])
        BY <2>0, <3>1, <3>2
      <3>4. Adds(m, D[j]) /\ IsNew(t, m) /\ Forwards(t, m)
        BY <1>7, <3>3
      <3>5. b \in tee[t]
        BY <1>11, <3>1
      <3>6. Lead(s, t) = 1 /\ Len(letters) \in Nat
        BY <1>2, <3>4, SaysFrom
      <3>7. /\ Len(link'[t][b]) = Len(link[t][b]) + 1 + Len(letters)
            /\ \A i \in 1 .. Len(link'[t][b]) : i > Len(link[t][b]) =>
                 \/ i = Len(link[t][b]) + 1 /\ link'[t][b][i] = m
                 \/ i - (Len(link[t][b]) + 1) \in 1 .. Len(letters)
        <4>1. /\ Len(link'[t][b]) = Len(link[t][b]) + Lead(s, t) + Len(letters)
              /\ \A i \in 1 .. Len(link'[t][b]) : i > Len(link[t][b]) =>
                   \/ /\ i = Len(link[t][b]) + 1 /\ Lead(s, t) = 1
                      /\ link'[t][b][i] = FirstOf(s, t)
                      /\ IsNew(t, FirstOf(s, t)) /\ Forwards(t, FirstOf(s, t))
                   \/ /\ i - (Len(link[t][b]) + Lead(s, t)) \in 1 .. Len(letters)
                      /\ link'[t][b][i] =
                            Stamped(t, letters)[i - (Len(link[t][b]) + Lead(s, t))]
          <5> HIDE DEF m, D
          <5>1. Len(link'[t][b]) = Len(link[t][b]) + Lead(s, t) + Len(letters)
            BY <1>2, <3>5, WrittenToReader
          <5>2. \A i \in 1 .. Len(link'[t][b]) : i > Len(link[t][b]) =>
                   \/ /\ i = Len(link[t][b]) + 1 /\ Lead(s, t) = 1
                      /\ link'[t][b][i] = FirstOf(s, t)
                      /\ IsNew(t, FirstOf(s, t)) /\ Forwards(t, FirstOf(s, t))
                   \/ /\ i - (Len(link[t][b]) + Lead(s, t)) \in 1 .. Len(letters)
                      /\ link'[t][b][i] =
                            Stamped(t, letters)[i - (Len(link[t][b]) + Lead(s, t))]
            BY <1>2, <3>5, WrittenToReader
          <5> QED BY <5>1, <5>2
        <4> QED BY <3>6, <4>1
      <3> DEFINE L == Len(link[t][b])
                 i == L + 1
      <3>8. i \in 1 .. Len(link'[t][b]) /\ i > L /\ i - (L + 1) \notin 1 .. Len(letters)
        <4>1. L \in Nat /\ Len(link'[t][b]) = L + 1 + Len(letters) /\ Len(letters) \in Nat
          BY <1>4, <2>0, <3>1, <3>6, <3>7
        <4> HIDE DEF L
        <4> QED BY <4>1
      <3>9. link'[t][b][i] = m
        BY <3>7, <3>8
      <3> QED BY <3>1, <3>4, <3>8, <3>9
    <2> QED BY <2>1, <2>2
  <1>12. tee' = tee
    BY DEF Calm
  <1> QED
    <2>1. \A b \in Old \ {p} : \A a \in Site : Behind(p, a, b)'
      BY <1>2, <1>5, <1>10 DEF Behind, Places
    <2>2. \A b \in Old \ {p} : \A a \in Old : b \in tee'[a] => PassedOn(p, a, b)'
      BY <1>2, <1>11, <1>12 DEF PassedOn, AddOnLink, Places, Joined
    <2> QED BY <1>2, <1>5, <1>8, <2>1, <2>2 DEF OldOK

(* A message of p that is on its way was written with an id drawn before.  *)
LEMMA Drawn ==
    ASSUME Calmly, Stamps, NEW p \in Site, NEW m \in Travelling, m.sender = p
    PROVE  /\ m.id[2] \in Nat /\ sent[p] \in Nat /\ m.id[2] <= sent[p]
           /\ m.id = <<p, m.id[2]>>
  <1>1. m \in Packet
    BY DEF Travelling
  <1>2. sent[p] \in Nat
    BY DEF Calmly, Typing, MemberTypeOK, LinksTypeOK
  <1> QED BY <1>1, <1>2, PacketFacts DEF Stamps

(* What p writes itself follows what it has written.                       *)
LEMMA UprightWritten ==
    ASSUME Calmly, Stamps, NEW s \in Site, NEW p \in Site, NEW R, NEW old,
           NEW letters \in Seq(JoinSends(p)), Takes(s, p, R, Says(s, p, letters), old),
           NEW v \in R,
           \A i, k \in 1 .. Len(Base(p, v, old)) :
              /\ i < k /\ Base(p, v, old)[i].sender = p /\ Base(p, v, old)[k].sender = p
              => Before(Base(p, v, old)[i], Base(p, v, old)[k])
    PROVE  Upright(p, v)'
  <1> DEFINE B == Base(p, v, old)
             L == Len(B) + Lead(s, p)
  <1>1. /\ Len(B) \in Nat /\ Lead(s, p) \in {0, 1} /\ Len(letters) \in Nat
        /\ \A i \in 1 .. Len(B) : B[i] \in Travelling
        /\ \A i \in 1 .. Len(B) : link'[p][v][i] = B[i]
    BY WrittenOn
  <1>2. \A i \in 1 .. Len(link'[p][v]) : i > Len(B) =>
           \/ Forwards(p, link'[p][v][i])
           \/ i - L \in 1 .. Len(letters) /\ link'[p][v][i] = Stamped(p, letters)[i - L]
    <2>1. \A i \in 1 .. Len(link'[p][v]) : i > Len(B) =>
             \/ /\ i = Len(B) + 1 /\ Lead(s, p) = 1
                /\ link'[p][v][i] = FirstOf(s, p)
                /\ IsNew(p, FirstOf(s, p)) /\ Forwards(p, FirstOf(s, p))
             \/ /\ i - (Len(B) + Lead(s, p)) \in 1 .. Len(letters)
                /\ link'[p][v][i] = Stamped(p, letters)[i - (Len(B) + Lead(s, p))]
      BY WrittenOn
    <2> QED BY <2>1
  <1>3. /\ sent[p] \in Nat /\ link[s][p] # <<>>
        /\ \A k \in 1 .. Len(letters) : Stamped(p, letters)[k].id = <<p, sent[p] + k>>
    <2>1. sent[p] \in Nat /\ link[s][p] # <<>>
      BY DEF Takes, Calmly, Typing, MemberTypeOK, LinksTypeOK
    <2> QED BY <2>1, SaysFrom
  <1>4. L \in Nat /\ Len(B) <= L
    BY <1>1
  <1>5. \A i \in 1 .. Len(B) : B[i].sender = p => B[i].id[2] \in Nat /\ B[i].id[2] <= sent[p]
    BY <1>1, Drawn
  <1> HIDE DEF B, L
  <1>6. ASSUME NEW i \in 1 .. Len(link'[p][v]), i > Len(B), link'[p][v][i].sender = p
        PROVE  i - L \in 1 .. Len(letters) /\ link'[p][v][i].id[2] = sent[p] + (i - L)
    <2>1. i - L \in 1 .. Len(letters) /\ link'[p][v][i] = Stamped(p, letters)[i - L]
      BY <1>2, <1>6 DEF Forwards
    <2>2. link'[p][v][i].id = <<p, sent[p] + (i - L)>>
      BY <1>3, <2>1
    <2> QED BY <2>1, <2>2
  <1>7. ASSUME NEW i \in 1 .. Len(link'[p][v]), NEW k \in 1 .. Len(link'[p][v]), i < k,
               link'[p][v][i].sender = p, link'[p][v][k].sender = p
        PROVE  link'[p][v][i].id[2] < link'[p][v][k].id[2]
    <2>1. CASE k <= Len(B)
      <3>1. i \in 1 .. Len(B) /\ k \in 1 .. Len(B)
        BY <1>1, <1>7, <2>1
      <3> QED BY <1>1, <1>7, <3>1 DEF B, Before
    <2>2. CASE k > Len(B) /\ i <= Len(B)
      <3>1. i \in 1 .. Len(B)
        BY <1>1, <1>7, <2>2
      <3>2. k - L \in 1 .. Len(letters) /\ link'[p][v][k].id[2] = sent[p] + (k - L)
        BY <1>6, <1>7, <2>2
      <3>3. link'[p][v][i].id[2] \in Nat /\ link'[p][v][i].id[2] <= sent[p]
        BY <1>1, <1>5, <1>7, <3>1
      <3> DEFINE d == k - L
                 x == link'[p][v][i].id[2]
                 y == link'[p][v][k].id[2]
      <3>4. d \in Nat /\ d > 0 /\ y = sent[p] + d /\ x \in Nat /\ x <= sent[p] /\ sent[p] \in Nat
        BY <1>1, <1>3, <3>2, <3>3
      <3>5. x < y
        <4> HIDE DEF d, x, y
        <4> QED BY <3>4
      <3> QED BY <3>5
    <2>3. CASE k > Len(B) /\ i > Len(B)
      <3>1. k - L \in 1 .. Len(letters) /\ link'[p][v][k].id[2] = sent[p] + (k - L)
        BY <1>6, <1>7, <2>3
      <3>2. i - L \in 1 .. Len(letters) /\ link'[p][v][i].id[2] = sent[p] + (i - L)
        BY <1>6, <1>7, <2>3
      <3> QED BY <1>1, <1>3, <1>4, <1>7, <3>1, <3>2
    <2> QED BY <1>1, <2>1, <2>2, <2>3
  <1> QED BY <1>7 DEF Upright, Before, Places

LEMMA UnseenWritten ==
    ASSUME Calmly, Stamps, NEW s \in Site, NEW p \in Site, NEW R, NEW old,
           NEW letters \in Seq(JoinSends(p)), Takes(s, p, R, Says(s, p, letters), old),
           NEW v \in R, v # p,
           \A i \in 1 .. Len(Base(p, v, old)) :
              Base(p, v, old)[i].sender = p => Base(p, v, old)[i].id \notin seen[v],
           NEW i \in 1 .. Len(link'[p][v]), link'[p][v][i].sender = p
    PROVE  link'[p][v][i].id \notin seen'[v]
  <1> DEFINE B == Base(p, v, old)
             L == Len(B) + Lead(s, p)
  <1>1. /\ Len(B) \in Nat /\ Lead(s, p) \in {0, 1} /\ Len(letters) \in Nat
        /\ \A k \in 1 .. Len(B) : link'[p][v][k] = B[k]
    <2>1. Len(B) \in Nat /\ Lead(s, p) \in {0, 1} /\ Len(letters) \in Nat
      BY WrittenOn
    <2>2. \A k \in 1 .. Len(B) : link'[p][v][k] = B[k]
      BY WrittenOn
    <2> QED BY <2>1, <2>2
  <1>2. i > Len(B) =>
           \/ Forwards(p, link'[p][v][i])
           \/ i - L \in 1 .. Len(letters) /\ link'[p][v][i] = Stamped(p, letters)[i - L]
    <2>1. \A k \in 1 .. Len(link'[p][v]) : k > Len(B) =>
             \/ /\ k = Len(B) + 1 /\ Lead(s, p) = 1
                /\ link'[p][v][k] = FirstOf(s, p)
                /\ IsNew(p, FirstOf(s, p)) /\ Forwards(p, FirstOf(s, p))
             \/ /\ k - (Len(B) + Lead(s, p)) \in 1 .. Len(letters)
                /\ link'[p][v][k] = Stamped(p, letters)[k - (Len(B) + Lead(s, p))]
      BY WrittenOn
    <2> QED BY <2>1
  <1>3. /\ sent[p] \in Nat /\ v \in Site /\ seen'[v] = seen[v] /\ link[s][p] # <<>>
        /\ \A k \in 1 .. Len(letters) : Stamped(p, letters)[k].id = <<p, sent[p] + k>>
    <2>1. /\ sent[p] \in Nat /\ v \in Site /\ link[s][p] # <<>> /\ seen \in [Site -> SUBSET Ids]
          /\ seen' = [seen EXCEPT ![p] = @ \cup {FirstOf(s, p).id}]
      BY DEF Takes, Calmly, Typing, MemberTypeOK, LinksTypeOK
    <2> QED BY <2>1, SaysFrom
  <1>4. CASE i <= Len(B)
    <2>1. i \in 1 .. Len(B)
      BY <1>1, <1>4
    <2> QED BY <1>1, <1>3, <2>1
  <1>5. CASE i > Len(B)
    <2>1. i - L \in 1 .. Len(letters) /\ link'[p][v][i] = Stamped(p, letters)[i - L]
      BY <1>2, <1>5 DEF Forwards
    <2>2. link'[p][v][i].id = <<p, sent[p] + (i - L)>> /\ i - L \in Nat /\ i - L > 0
      <3> HIDE DEF L
      <3> QED BY <1>1, <1>3, <2>1
    <2>3. \A id \in seen[v] : id[2] <= sent[id[1]]
      BY <1>3 DEF Stamps
    <2>4. ASSUME link'[p][v][i].id \in seen[v] PROVE FALSE
      <3> DEFINE k == i - L
      <3>1. link'[p][v][i].id[1] = p /\ link'[p][v][i].id[2] = sent[p] + k /\ k \in Nat /\ k > 0
        BY <2>2
      <3>2. sent[p] + k <= sent[p]
        BY <2>3, <2>4, <3>1
      <3> HIDE DEF k
      <3> QED BY <1>3, <3>1, <3>2
    <2> QED BY <1>3, <2>4
  <1> QED BY <1>1, <1>4, <1>5

(* A newcomer that takes nothing, while no news is written to it.          *)
LEMMA NewerGrown ==
    ASSUME NEW p, NEW f, NEW n, Coming(p, f, n), Updated(p, n) => UpToDate(p, f, n),
           directory'[p] = directory[p], directory'[n] = directory[n],
           Len(link[p][n]) \in Nat, Len(link'[p][n]) \in Nat, Grows(p, n),
           \A i \in 1 .. Len(link'[p][n]) : i > Len(link[p][n]) => ~IsNews(link'[p][n][i])
    PROVE  Coming(p, f, n)' /\ (Updated(p, n)' => UpToDate(p, f, n)')
  <1> DEFINE D == directory[p]
             L == link[p][n]
  <1>1. /\ \A i \in 1 .. Len(L) : i \in 1 .. Len(link'[p][n]) /\ link'[p][n][i] = L[i]
        /\ \A i \in 1 .. Len(link'[p][n]) : i \in 1 .. Len(L) \/ ~IsNews(link'[p][n][i])
    BY DEF Grows, Places
  <1>2. \A m, x : (Adds(m, x) \/ Lists(m, x)) => IsNews(m)
    BY DEF Adds, Lists, IsNews
  <1>3. Updated(p, n)' <=> Updated(p, n)
    BY <1>1, <1>2 DEF Updated, Places
  <1>4. \A x : AddOnLink(p, n, x) => \E i \in 1 .. Len(link'[p][n]) : Adds(link'[p][n][i], x)
    BY <1>1 DEF AddOnLink, Places
  <1>5. Coming(p, f, n)'
    <2>1. \A j \in f + 1 .. Len(D) :
             (Updated(p, n) /\ j <= Len(directory[n])) \/ AddOnLink(p, n, D[j])
      BY DEF Coming
    <2>2. \A j \in f + 1 .. Len(D) :
             (Updated(p, n)' /\ j <= Len(directory[n]))
                \/ \E i \in 1 .. Len(link'[p][n]) : Adds(link'[p][n][i], D[j])
      BY <1>3, <1>4, <2>1
    <2> HIDE DEF Updated
    <2> QED BY <2>2 DEF Coming, AddOnLink, Places
  <1>6. UpToDate(p, f, n) => UpToDate(p, f, n)'
    <2> SUFFICES ASSUME UpToDate(p, f, n) PROVE UpToDate(p, f, n)'
      OBVIOUS
    <2>1. /\ f <= Len(directory[n]) /\ Len(directory[n]) <= Len(D)
          /\ directory[n] = SubSeq(D, 1, Len(directory[n]))
          /\ \A i \in 1 .. Len(L) : \A j \in Joined(p) :
                Adds(L[i], D[j]) => j > Len(directory[n]) \/ j = f
      BY DEF UpToDate, Places
    <2>2. \A i \in 1 .. Len(link'[p][n]) : \A j \in Joined(p) :
             Adds(link'[p][n][i], D[j]) => j > Len(directory[n]) \/ j = f
      BY <1>1, <1>2, <2>1
    <2>3. Joined(p)' = Joined(p)
      BY DEF Joined
    <2> QED BY <2>1, <2>2, <2>3 DEF UpToDate, Places
  <1> QED BY <1>3, <1>5, <1>6

LEMMA NewerSeen ==
    ASSUME NEW p \in Old, Ordered(p), Calmly', plan' = plan, NEW s \in Site, NEW t \in Site,
           NEW letters \in Seq(Chat(t)), Calm(s, t, letters)
    PROVE  (\A r \in Site : Upright(p, r)') /\ (\A n \in Newcomer : Unseen(p, n)')
  <1> DEFINE m == FirstOf(s, t)
  <1>1. /\ p \in Site /\ p \notin Newcomer /\ Newcomer \subseteq Site
        /\ \A a \in Site, n \in Newcomer : link[a][n] # <<>> => a = p /\ tee[n] # {}
        /\ seen \in [Site -> SUBSET Ids]
    BY PeerFacts
  <1>2. /\ Calmly /\ letters \in Seq(JoinSends(t)) /\ link[s][t] # <<>> /\ s # t
        /\ Takes(s, t, tee[t], Says(s, t, letters), link[t])
        /\ m \in Travelling /\ m = link[s][t][1] /\ 1 \in Places(s, t)
    BY CalmNews
  <1>3. /\ Len(link'[s][t]) = Len(link[s][t]) - 1
        /\ \A k \in 1 .. Len(link[s][t]) - 1 : link'[s][t][k] = link[s][t][k + 1]
        /\ \A u \in Site : u # t => seen'[u] = seen[u]
        /\ seen'[t] = seen[t] \cup {m.id}
        /\ Len(link[s][t]) \in Nat
    <2>1. tee[t] \ tee[t] = {}
      OBVIOUS
    <2>2. Len(link[s][t]) \in Nat
      BY <1>2, LenProperties DEF Calmly, Linking, Net
    <2> QED BY <1>2, <2>1, <2>2, TakesLinks
  <1>4. \A u, v \in Site : ~(u = s /\ v = t) /\ ~(u = t /\ v \in tee[t]) => link'[u][v] = link[u][v]
    BY <1>2 DEF Takes
  <1>5. Stamps /\ (\A r \in Site : Upright(p, r)) /\ (\A n \in Newcomer : Unseen(p, n))
    BY DEF Ordered, NewOK
  <1>6. \A v \in tee[t] : Base(t, v, link[t]) = link[t][v] /\ v \in Site
    BY DEF Base, Calmly, Typing, MemberTypeOK, Ordered, Counting
  <1>7. ASSUME NEW r \in Site PROVE Upright(p, r)'
    <2>1. \A i, k \in Places(p, r) :
             i < k /\ link[p][r][i].sender = p /\ link[p][r][k].sender = p =>
                Before(link[p][r][i], link[p][r][k])
      BY <1>5 DEF Upright
    <2>2. CASE p = s /\ r = t
      <3>1. ASSUME NEW i \in 1 .. Len(link'[p][r])
            PROVE  i + 1 \in Places(p, r) /\ link'[p][r][i] = link[p][r][i + 1] /\ i \in Nat
        <4>1. i \in 1 .. Len(link[s][t]) - 1
          BY <1>3, <2>2, <3>1
        <4> QED BY SMTT(30), <1>3, <2>2, <4>1 DEF Places
      <3>2. \A i, k \in 1 .. Len(link'[p][r]) :
               i < k /\ link'[p][r][i].sender = p /\ link'[p][r][k].sender = p =>
                  Before(link'[p][r][i], link'[p][r][k])
        <4> SUFFICES ASSUME NEW i \in 1 .. Len(link'[p][r]), NEW k \in 1 .. Len(link'[p][r]),
                            i < k, link'[p][r][i].sender = p, link'[p][r][k].sender = p
                     PROVE  Before(link'[p][r][i], link'[p][r][k])
          OBVIOUS
        <4>1. i + 1 < k + 1
          BY <3>1
        <4> QED BY <2>1, <3>1, <4>1
      <3> QED BY <3>2 DEF Upright, Before, Places
    <2>3. CASE p = t /\ r \in tee[t]
      <3>1. \A i, k \in 1 .. Len(Base(p, r, link[t])) :
              /\ i < k /\ Base(p, r, link[t])[i].sender = p /\ Base(p, r, link[t])[k].sender = p
              => Before(Base(p, r, link[t])[i], Base(p, r, link[t])[k])
        BY <1>6, <2>1, <2>3 DEF Places
      <3> QED BY <1>1, <1>2, <1>5, <2>3, <3>1, UprightWritten
    <2>4. CASE ~(p = s /\ r = t) /\ ~(p = t /\ r \in tee[t])
      <3>1. link'[p][r] = link[p][r]
        BY <1>1, <1>4, <2>4
      <3> QED BY <2>1, <3>1 DEF Upright, Before, Places
    <2> QED BY <2>2, <2>3, <2>4
  <1>8. ASSUME NEW n \in Newcomer PROVE Unseen(p, n)'
    <2>1. /\ \A i \in Places(p, n) : link[p][n][i].sender = p => link[p][n][i].id \notin seen[n]
          /\ tee[n] = {} => seen[n] = {}
      BY <1>5 DEF Unseen
    <2>2. tee' = tee /\ n \in Site /\ n # p
      BY <1>1 DEF Calm
    <2>3. CASE t = n
      <3>1. s = p /\ tee[n] # {}
        BY <1>1, <1>2, <2>3
      <3>2. ASSUME NEW i \in 1 .. Len(link'[p][n]), link'[p][n][i].sender = p
            PROVE  link'[p][n][i].id \notin seen'[n]
        <4>1. i \in 1 .. Len(link[s][t]) - 1
          BY <1>3, <2>3, <3>1, <3>2
        <4>2. i + 1 \in Places(p, n) /\ 1 < i + 1 /\ 1 \in Places(p, n) /\ i \in Nat
          BY <1>3, <2>3, <3>1, <4>1 DEF Places
        <4>3. link'[p][n][i] = link[p][n][i + 1]
          BY <1>3, <2>3, <3>1, <4>1
        <4>4. link[p][n][i + 1].id # m.id
          <5> SUFFICES ASSUME link[p][n][i + 1].id = m.id PROVE FALSE
            OBVIOUS
          <5>1. link[p][n][i + 1] \in Travelling
            BY <1>1, <1>2, <2>2, <4>2, OnLinkTravels
          <5>2. link[p][n][i + 1] = m
            BY <1>2, <1>5, <5>1 DEF Stamps
          <5>3. m.sender = p
            BY <3>2, <4>3, <5>2
          <5>4. Before(link[p][n][1], link[p][n][i + 1])
            BY <1>2, <1>5, <2>2, <2>3, <3>1, <4>2, <5>2, <5>3 DEF Upright
          <5>5. Before(m, m) /\ m.id[2] \in Nat
            BY <1>1, <1>2, <1>5, <2>3, <3>1, <5>2, <5>3, <5>4, Drawn
          <5> QED BY <5>5 DEF Before
        <4>5. link[p][n][i + 1].id \notin seen[n]
          BY <2>1, <3>2, <4>2, <4>3
        <4> QED BY <1>3, <2>3, <4>3, <4>4, <4>5
      <3> QED BY <2>2, <3>1, <3>2 DEF Unseen, Places
    <2>4. CASE t # n /\ p = t /\ n \in tee[t]
      <3>1. \A i \in 1 .. Len(Base(p, n, link[t])) :
               Base(p, n, link[t])[i].sender = p => Base(p, n, link[t])[i].id \notin seen[n]
        BY <1>6, <2>1, <2>4 DEF Places
      <3>2. \A i \in 1 .. Len(link'[p][n]) :
               link'[p][n][i].sender = p => link'[p][n][i].id \notin seen'[n]
        BY <1>1, <1>2, <1>5, <2>2, <2>4, <3>1, UnseenWritten
      <3>3. seen'[n] = seen[n]
        BY <1>3, <2>2, <2>4
      <3> QED BY <2>1, <2>2, <3>2, <3>3 DEF Unseen, Places
    <2>5. CASE t # n /\ ~(p = t /\ n \in tee[t])
      <3>1. link'[p][n] = link[p][n] /\ seen'[n] = seen[n]
        BY <1>1, <1>3, <1>4, <2>2, <2>5
      <3> QED BY <2>1, <2>2, <3>1 DEF Unseen, Places
    <2> QED BY <2>3, <2>4, <2>5
  <1> QED BY <1>7, <1>8

(* A newcomer takes a message of p: its list, then the names that follow   *)
(* its own, in the order of the directory of p.                            *)
LEMMA NewerTakes ==
    ASSUME NEW p \in Old, Ordered(p), Calmly', plan' = plan, NEW t \in Newcomer,
           NEW letters \in Seq(Chat(t)), Calm(p, t, letters),
           NEW f \in Joined(p), directory[p][f] = t
    PROVE  Coming(p, f, t)' /\ (Updated(p, t)' => UpToDate(p, f, t)')
  <1> DEFINE m == FirstOf(p, t)
             D == directory[p]
             L == link[p][t]
             M == link'[p][t]
             K == Len(directory[t])
  <1>1. /\ p \in Site /\ p \notin Newcomer /\ t \in Site /\ t # p
        /\ directory \in [Site -> Seq(Site)] /\ Len(D) \in Nat /\ K \in Nat
        /\ First \in Nat /\ Joined(p) \subseteq Nat /\ f \in Nat /\ D \in Seq(Site)
        /\ \A j \in Joined(p) : j \in 1 .. Len(D) /\ First < j
    <2>1. /\ p \in Site /\ p \notin Newcomer /\ Newcomer \subseteq Site
          /\ directory \in [Site -> Seq(Site)] /\ Len(D) \in Nat
          /\ \A b \in Site : Len(directory[b]) \in Nat
          /\ First \in Nat /\ Joined(p) \subseteq Nat
      BY PeerFacts
    <2>2. \A j \in Joined(p) : j \in 1 .. Len(D) /\ First < j
      BY <2>1 DEF Joined
    <2> QED BY <2>1, <2>2
  <1>2. /\ Calmly /\ link[p][t] # <<>>
        /\ Takes(p, t, tee[t], Says(p, t, letters), link[t])
        /\ m \in Travelling /\ m = L[1] /\ 1 \in 1 .. Len(L)
        /\ IsNews(m) => m.sender = p
        /\ directory'[p] = D
    BY <1>1, CalmNews DEF Places
  <1>3. /\ Len(M) = Len(L) - 1 /\ Len(L) \in Nat
        /\ \A k \in 1 .. Len(M) : k + 1 \in 1 .. Len(L) /\ M[k] = L[k + 1] /\ k \in Nat
        /\ \A k \in 1 .. Len(L) : k # 1 => k - 1 \in 1 .. Len(M) /\ M[k - 1] = L[k]
    <2>1. tee[t] \ tee[t] = {}
      OBVIOUS
    <2>2. Len(L) \in Nat
      BY <1>1, <1>2, LenProperties DEF Calmly, Linking, Net
    <2>3. /\ Len(M) = Len(L) - 1
          /\ \A k \in 1 .. Len(L) - 1 : M[k] = L[k + 1]
      BY <1>1, <1>2, <2>1, TakesLinks
    <2> HIDE DEF L, M
    <2>4. \A k \in 1 .. Len(M) : k + 1 \in 1 .. Len(L) /\ M[k] = L[k + 1] /\ k \in Nat
      BY <2>2, <2>3
    <2>5. ASSUME NEW k \in 1 .. Len(L), k # 1
          PROVE  k - 1 \in 1 .. Len(M) /\ M[k - 1] = L[k]
      <3>1. k - 1 \in 1 .. Len(M) /\ (k - 1) + 1 = k
        BY <2>2, <2>3, <2>5
      <3> QED BY <2>4, <3>1
    <2> QED BY <2>2, <2>3, <2>4, <2>5
  <1>4. \A i \in 1 .. Len(L) : L[i] \in Travelling
    BY <1>1, <1>2, OnLinkTravels DEF Places
  <1>5. /\ \A i \in 1 .. Len(L) : L[i].sender = p => L[i].id \notin seen[t]
        /\ \A i, k \in 1 .. Len(L) : i < k /\ L[i].sender = p /\ L[k].sender = p => Before(L[i], L[k])
        /\ Coming(p, f, t) /\ (Updated(p, t) => UpToDate(p, f, t))
    BY <1>1 DEF Ordered, NewOK, Unseen, Upright, Places
  <1>6. /\ \A j \in Joined(p) : D[j] \in Newcomer
        /\ \A i, j \in 1 .. Len(D) : D[i] = D[j] => i = j
    BY DEF Ordered, RollOK
  <1>7. /\ \A o \in Travelling : IsNews(o) => o.sender = p
        /\ \A o \in Travelling : o.body.action = "ADD_USER_CONFIRM" =>
              o.dest = BROADCAST /\ \E j \in Joined(p) : Adds(o, D[j])
        /\ \A o \in Travelling : o.body.action = "UPDATE_LISTE" =>
              \E j \in Joined(p) : Lists(o, D[j]) /\ o.body.list = SubSeq(D, 1, j)
        /\ \A x, o \in Travelling : \A j, k \in Joined(p) :
              /\ Adds(x, D[j]) /\ Adds(o, D[k]) => (j < k => Before(x, o)) /\ (j = k => x.id = o.id)
              /\ Lists(x, D[j]) /\ Adds(o, D[k]) => (j <= k => Before(x, o)) /\ (j > k => Before(o, x))
    BY DEF Ordered, NewsOK
  <1>8. \A o \in Travelling : o.id[2] \in Nat
    BY PacketFacts DEF Travelling
  <1>9. /\ Joined(p)' = Joined(p)
        /\ Coming(p, f, t) <=>
              \A j \in f + 1 .. Len(D) :
                 (Updated(p, t) /\ j <= K) \/ \E i \in 1 .. Len(L) : Adds(L[i], D[j])
        /\ Coming(p, f, t)' <=>
              \A j \in f + 1 .. Len(D) :
                 (Updated(p, t)' /\ j <= Len(directory'[t])) \/ \E i \in 1 .. Len(M) : Adds(M[i], D[j])
        /\ Updated(p, t) <=> \A i \in 1 .. Len(L) : ~Lists(L[i], t)
        /\ Updated(p, t)' <=> \A i \in 1 .. Len(M) : ~Lists(M[i], t)
        /\ UpToDate(p, f, t) <=>
              /\ f <= K /\ K <= Len(D) /\ directory[t] = SubSeq(D, 1, K)
              /\ \A i \in 1 .. Len(L) : \A j \in Joined(p) : Adds(L[i], D[j]) => j > K \/ j = f
        /\ UpToDate(p, f, t)' <=>
              /\ f <= Len(directory'[t]) /\ Len(directory'[t]) <= Len(D)
              /\ directory'[t] = SubSeq(D, 1, Len(directory'[t]))
              /\ \A i \in 1 .. Len(M) : \A j \in Joined(p) :
                    Adds(M[i], D[j]) => j > Len(directory'[t]) \/ j = f
    <2>1. Joined(p)' = Joined(p)
      BY <1>2 DEF Joined
    <2> QED BY <1>2, <2>1 DEF Coming, Updated, UpToDate, AddOnLink, Places
  <1>10. \A j \in f + 1 .. Len(D) : j \in Joined(p) /\ j # f
    BY <1>1 DEF Joined
  (* What follows a message of news on the link was written after it. *)
  <1>11. ASSUME IsNews(m), NEW i \in 1 .. Len(M), M[i].body.action = "ADD_USER_CONFIRM"
         PROVE  M[i] \in Travelling /\ m.id[2] < M[i].id[2]
    <2>1. i + 1 \in 1 .. Len(L) /\ M[i] = L[i + 1] /\ 1 < i + 1
      BY <1>3, <1>11
    <2>2. M[i] \in Travelling
      BY <1>4, <2>1
    <2>3. M[i].sender = p /\ m.sender = p
      BY <1>2, <1>7, <1>11, <2>2 DEF IsNews
    <2>4. Before(L[1], L[i + 1])
      BY <1>2, <1>5, <2>1, <2>3
    <2> QED BY <1>2, <2>1, <2>2, <2>4 DEF Before
  <1>12. \A x : Adds(m, x) => ~Lists(m, t)
    BY DEF Adds, Lists
  <1> HIDE DEF L, M, m
  <1>13. ASSUME NEW j \in f + 1 .. Len(D), ~Adds(m, D[j]), NEW i \in 1 .. Len(L), Adds(L[i], D[j])
         PROVE  \E h \in 1 .. Len(M) : Adds(M[h], D[j])
    <2>1. i # 1
      BY <1>2, <1>13
    <2> QED BY <1>3, <1>13, <2>1
  <1>14. ~Lists(m, t) => (Updated(p, t)' <=> Updated(p, t))
    BY <1>2, <1>3, <1>9
  <1>a. CASE m.body.action = "UPDATE_LISTE" /\ m.dest = t
    <2>1. PICK j \in Joined(p) : Lists(m, D[j]) /\ m.body.list = SubSeq(D, 1, j)
      BY <1>2, <1>7, <1>a
    <2>2. j = f
      BY <1>1, <1>6, <1>a, <2>1 DEF Lists
    <2>3. Gets(p, t, "UPDATE_LISTE")
      <3>1. m.id \notin seen[t] /\ m.sender = p
        BY <1>2, <1>5, <1>a DEF IsNews
      <3>2. IsNew(t, m) /\ Processes(t, m)
        BY <1>1, <1>a, <3>1 DEF IsNew, Id, Processes
      <3> QED BY <1>2, <1>a, <3>2 DEF Gets, Receives, m
    <2>4. directory'[t] = SubSeq(D, 1, f)
      BY <1>1, <2>1, <2>2, <2>3 DEF Calm, m
    <2>5. Len(directory'[t]) = f /\ f <= Len(D)
      <3>1. f \in 1 .. Len(D)
        BY <1>1
      <3> HIDE DEF D
      <3> QED BY <1>1, <2>4, <3>1
    <2>6. ~Updated(p, t) /\ Lists(m, D[f]) /\ IsNews(m)
      BY <1>2, <1>9, <1>a, <2>1, <2>2 DEF Lists, IsNews
    <2>7. Coming(p, f, t)'
      <3>1. \A j2 \in f + 1 .. Len(D) : \E i \in 1 .. Len(L) : Adds(L[i], D[j2])
        BY <1>5, <1>9, <2>6
      <3>2. \A x : ~Adds(m, x)
        BY <1>a DEF Adds
      <3> QED BY <1>9, <1>13, <3>1, <3>2
    <2>8. ASSUME NEW i \in 1 .. Len(M), NEW k \in Joined(p), Adds(M[i], D[k]) PROVE k > f \/ k = f
      <3>1. M[i] \in Travelling /\ m.id[2] < M[i].id[2]
        BY <1>11, <2>6, <2>8 DEF Adds
      <3>2. f > k => Before(M[i], m)
        BY <1>2, <1>7, <2>6, <2>8, <3>1
      <3>3. ~Before(M[i], m)
        BY <1>2, <1>8, <3>1 DEF Before
      <3> QED BY <1>1, <3>2, <3>3
    <2> QED BY <1>1, <1>9, <2>4, <2>5, <2>7, <2>8
  <1>b. CASE m.body.action = "ADD_USER_CONFIRM"
    <2>1. PICK j \in Joined(p) : Adds(m, D[j])
      BY <1>2, <1>7, <1>b
    <2>2. Gets(p, t, "ADD_USER_CONFIRM") /\ IsNews(m)
      <3>1. m.id \notin seen[t] /\ m.sender = p /\ m.dest = BROADCAST
        BY <1>2, <1>5, <1>7, <1>b DEF IsNews
      <3>2. IsNew(t, m) /\ Processes(t, m)
        BY <1>1, <1>b, <3>1 DEF IsNew, Id, Processes
      <3> QED BY <1>2, <1>b, <3>2 DEF Gets, Receives, m, IsNews
    <2>3. directory'[t] = IF j = f THEN directory[t] ELSE Append(directory[t], D[j])
      <3>1. ~Gets(p, t, "UPDATE_LISTE") /\ m.body.who = D[j]
        BY <1>b, <2>1 DEF Gets, Adds, m
      <3>2. directory'[t] = WithUser(t, D[j])
        BY <1>1, <2>2, <3>1 DEF Calm, m
      <3>3. D[j] = t <=> j = f
        BY <1>1, <1>6
      <3> QED BY <3>2, <3>3 DEF WithUser
    <2>4. \A k \in f + 1 .. Len(D) : Adds(m, D[k]) => k = j
      <3> SUFFICES ASSUME NEW k \in f + 1 .. Len(D), Adds(m, D[k]) PROVE k = j
        OBVIOUS
      <3>1. D[k] = D[j] /\ k \in 1 .. Len(D) /\ j \in 1 .. Len(D)
        BY <1>1, <1>10, <2>1 DEF Adds
      <3> QED BY <1>6, <3>1
    <2>5. Updated(p, t)' <=> Updated(p, t)
      BY <1>12, <1>14, <2>1
    (* What follows adds a later name. *)
    <2>6. ASSUME NEW i \in 1 .. Len(M), NEW k \in Joined(p), Adds(M[i], D[k]) PROVE k > j
      <3>1. M[i] \in Travelling /\ m.id[2] < M[i].id[2]
        BY <1>11, <2>2, <2>6 DEF Adds
      <3>2. (k < j => Before(M[i], m)) /\ (k = j => M[i].id = m.id)
        BY <1>2, <1>7, <2>1, <2>6, <3>1
      <3>3. m.id[2] \in Nat /\ M[i].id[2] \in Nat
        BY <1>2, <1>8, <3>1
      <3>4. ~(k < j) /\ k # j
        BY <3>1, <3>2, <3>3 DEF Before
      <3> QED BY <1>1, <3>4
    <2>7. CASE j = f
      <3>1. directory'[t] = directory[t]
        BY <2>3, <2>7
      <3>2. Coming(p, f, t)'
        <4>1. \A k \in f + 1 .. Len(D) : ~Adds(m, D[k])
          BY <1>10, <2>4, <2>7
        <4> QED BY <1>5, <1>9, <1>13, <2>5, <3>1, <4>1
      <3>3. UpToDate(p, f, t) => UpToDate(p, f, t)'
        <4> SUFFICES ASSUME UpToDate(p, f, t) PROVE UpToDate(p, f, t)'
          OBVIOUS
        <4>1. /\ f <= K /\ K <= Len(D) /\ directory[t] = SubSeq(D, 1, K)
              /\ \A i \in 1 .. Len(L) : \A k \in Joined(p) : Adds(L[i], D[k]) => k > K \/ k = f
          BY <1>9
        <4>2. \A i \in 1 .. Len(M) : \A k \in Joined(p) : Adds(M[i], D[k]) => k > K \/ k = f
          BY <1>3, <4>1
        <4> QED BY <1>9, <3>1, <4>1, <4>2
      <3> QED BY <1>5, <2>5, <3>2, <3>3
    <2>8. CASE j # f /\ ~Updated(p, t)
      <3>1. PICK h \in 1 .. Len(L) : Lists(L[h], t)
        BY <1>9, <2>8
      <3>2. h # 1
        BY <1>2, <1>12, <2>1, <3>1
      <3>3. L[h] \in Travelling /\ L[h].sender = p /\ m.sender = p
        BY <1>2, <1>4, <1>7, <2>2, <3>1 DEF Lists, IsNews
      <3>4. Before(m, L[h])
        BY <1>2, <1>3, <1>5, <3>1, <3>2, <3>3
      <3>5. f <= j => Before(L[h], m)
        BY <1>1, <1>2, <1>7, <2>1, <3>1, <3>3
      <3>6. ~(f <= j)
        BY <1>2, <1>8, <3>3, <3>4, <3>5 DEF Before
      <3>7. \A k \in f + 1 .. Len(D) : ~Adds(m, D[k])
        <4> SUFFICES ASSUME NEW k \in f + 1 .. Len(D), Adds(m, D[k]) PROVE FALSE
          OBVIOUS
        <4>1. k = j
          BY <2>4
        <4> QED BY <1>1, <3>6, <4>1
      <3>8. Coming(p, f, t)'
        BY <1>5, <1>9, <1>13, <2>8, <3>7
      <3> QED BY <2>5, <2>8, <3>8
    <2>9. CASE j # f /\ Updated(p, t)
      <3>1. /\ f <= K /\ K <= Len(D) /\ directory[t] = SubSeq(D, 1, K)
            /\ \A i \in 1 .. Len(L) : \A k \in Joined(p) : Adds(L[i], D[k]) => k > K \/ k = f
        BY <1>5, <1>9, <2>9
      <3>2. j > K /\ j \in 1 .. Len(D)
        BY <1>1, <1>2, <2>1, <2>9, <3>1
      <3>3. j = K + 1
        <4> SUFFICES ASSUME j # K + 1 PROVE FALSE
          OBVIOUS
        <4>1. K + 1 \in f + 1 .. Len(D) /\ K + 1 < j /\ ~(K + 1 <= K) /\ K + 1 \in Joined(p)
          BY SMTT(30), <1>1, <1>10, <3>1, <3>2
        <4>2. ~Adds(m, D[K + 1])
          BY <2>4, <4>1
        <4>3. PICK i \in 1 .. Len(L) : Adds(L[i], D[K + 1])
          BY <1>5, <1>9, <4>1
        <4>4. PICK h \in 1 .. Len(M) : Adds(M[h], D[K + 1])
          BY <1>13, <4>1, <4>2, <4>3
        <4>5. K + 1 > j
          BY <2>6, <4>1, <4>4
        <4> QED BY <1>1, <3>2, <4>1, <4>5
      <3>4. directory'[t] = SubSeq(D, 1, j) /\ Len(directory'[t]) = j
        <4>1. Append(SubSeq(D, 1, K), D[K + 1]) = SubSeq(D, 1, K + 1) /\ Len(SubSeq(D, 1, K + 1)) = K + 1
          <5> HIDE DEF D, K
          <5> QED BY SMTT(30), <1>1, <3>1, <3>2, <3>3
        <4> QED BY <2>3, <2>9, <3>1, <3>3, <4>1
      <3>5. UpToDate(p, f, t)'
        <4>1. f <= j /\ j <= Len(D)
          BY <1>1, <3>1, <3>2
        <4> QED BY <1>9, <2>6, <3>4, <4>1
      <3>6. Coming(p, f, t)'
        <4> SUFFICES ASSUME NEW k \in f + 1 .. Len(D)
                     PROVE  k <= j \/ \E i \in 1 .. Len(M) : Adds(M[i], D[k])
          BY <1>9, <2>5, <2>9, <3>4
        <4>1. CASE k = j
          BY <1>1, <1>10, <4>1
        <4>2. CASE k # j
          <5>1. ~Adds(m, D[k])
            BY <2>4, <4>2
          <5>2. k <= K \/ \E i \in 1 .. Len(L) : Adds(L[i], D[k])
            BY <1>5, <1>9
          <5>3. k <= K => k <= j
            BY <1>1, <3>3
          <5> QED BY <1>13, <5>1, <5>2, <5>3
        <4> QED BY <4>1, <4>2
      <3> QED BY <3>5, <3>6
    <2> QED BY <2>7, <2>8, <2>9
  <1>c. CASE ~(m.body.action = "UPDATE_LISTE" /\ m.dest = t) /\ m.body.action # "ADD_USER_CONFIRM"
    <2>1. ~Lists(m, t) /\ \A x : ~Adds(m, x)
      BY <1>c DEF Lists, Adds
    <2>2. directory'[t] = directory[t]
      <3>1. ~Gets(p, t, "ADD_USER_CONFIRM")
        BY <1>c DEF Gets, m
      <3>2. ~Gets(p, t, "UPDATE_LISTE")
        <4> SUFFICES ASSUME Gets(p, t, "UPDATE_LISTE") PROVE FALSE
          OBVIOUS
        <4>1. m.body.action = "UPDATE_LISTE" /\ m.dest \in {BROADCAST, BROADCAST_NEIGHBORS, t}
          BY DEF Gets, Receives, Processes, m
        <4>2. m.dest \in Newcomer
          BY <1>2, <1>6, <1>7, <4>1 DEF Lists
        <4> QED BY <1>c, <4>1, <4>2, NoSiteFacts, NewcomerAssumption
      <3> QED BY <1>1, <3>1, <3>2 DEF Calm
    <2>3. Coming(p, f, t)'
      BY <1>5, <1>9, <1>13, <1>14, <2>1, <2>2
    <2>4. UpToDate(p, f, t) => UpToDate(p, f, t)'
      <3> SUFFICES ASSUME UpToDate(p, f, t) PROVE UpToDate(p, f, t)'
        OBVIOUS
      <3>1. /\ f <= K /\ K <= Len(D) /\ directory[t] = SubSeq(D, 1, K)
            /\ \A i \in 1 .. Len(L) : \A k \in Joined(p) : Adds(L[i], D[k]) => k > K \/ k = f
        BY <1>9
      <3>2. \A i \in 1 .. Len(M) : \A k \in Joined(p) : Adds(M[i], D[k]) => k > K \/ k = f
        BY <1>3, <3>1
      <3> QED BY <1>9, <2>2, <3>1, <3>2
    <2> QED BY <1>5, <1>14, <2>1, <2>3, <2>4
  <1> QED BY <1>a, <1>b, <1>c

LEMMA OrderedCalm ==
    ASSUME NEW p \in Old, Ordered(p), Counting', plan' = plan, NEW s \in Site, NEW t \in Site,
           NEW letters \in Seq(Chat(t)), Calm(s, t, letters)
    PROVE  Ordered(p)'
  <1> DEFINE m == FirstOf(s, t)
             D == directory[p]
  <1>1. /\ p \in Site /\ p \notin Newcomer /\ Newcomer \subseteq Site
        /\ Joined(p) \subseteq Nat /\ First \in Nat /\ Len(D) \in Nat
        /\ \A a \in Site, n \in Newcomer : link[a][n] # <<>> => a = p /\ tee[n] # {}
        /\ seen \in [Site -> SUBSET Ids]
    BY PeerFacts
  <1>2. /\ Calmly /\ Calmly' /\ letters \in Seq(JoinSends(t)) /\ link[s][t] # <<>> /\ s # t
        /\ Takes(s, t, tee[t], Says(s, t, letters), link[t])
        /\ m \in Travelling
        /\ IsNews(m) => m.sender = p
        /\ Travelling' \subseteq Travelling \cup Wrote(t, letters)
        /\ \A k \in 1 .. Len(letters) : ~IsNews(Stamped(t, letters)[k])
        /\ \A o \in Travelling' : IsNews(o) => o \in Travelling
        /\ \A b \in Site : b # t => directory'[b] = directory[b]
        /\ directory'[p] = D /\ tee' = tee
    <2>1. Calmly' /\ tee' = tee
      BY DEF Counting, Calm
    <2> QED BY <2>1, CalmNews
  <1>3. /\ \A u, v \in Site : ~(u = s /\ v = t) => Grows(u, v)
        /\ \A u, v \in Site : \A i \in 1 .. Len(link'[u][v]) : i > Len(link[u][v]) => u = t /\ v \in tee[t]
        /\ seen'[t] = seen[t] \cup {m.id} /\ \A u \in Site : u # t => seen'[u] = seen[u]
    <2>1. tee[t] \ tee[t] = {}
      OBVIOUS
    <2> QED BY <1>2, <2>1, TakesLinks
  <1>4. \A u, v \in Site : Len(link[u][v]) \in Nat /\ Len(link'[u][v]) \in Nat
    BY <1>2, LenProperties DEF Calmly, Linking, Net
  <1>5. AtOne(p)'
    BY DEF Ordered, AtOne
  <1>6. RollOK(p)'
    <2>1. Joined(p)' = Joined(p)
      BY <1>2 DEF Joined
    <2> QED BY <1>2, <2>1 DEF Ordered, RollOK
  <1>7. Stamps'
    <2>1. sent' = [sent EXCEPT ![t] = @ + Len(letters)]
      BY DEF Calm
    <2>2. /\ Len(letters) \in Nat
          /\ \A k \in 1 .. Len(letters) :
                /\ Stamped(t, letters)[k].id = <<t, sent[t] + k>>
                /\ Stamped(t, letters)[k].sender = t
      BY <1>2, SaysFrom
    <2>3. \A b \in Site : \A id \in seen'[b] : id \in seen[b] \/ \E o \in Travelling : o.id = id
      BY <1>2, <1>3
    <2>4. Stamps
      BY DEF Ordered
    <2> QED BY <1>2, <2>1, <2>2, <2>3, <2>4, StampsStep
  <1>8. NewsOK(p)'
    BY <1>2, NewsKept DEF Ordered
  <1>9. OldOK(p)'
    BY <1>2, OldCalm
  <1>10. NewOK(p)'
    <2>1. (\A r \in Site : Upright(p, r)') /\ (\A n \in Newcomer : Unseen(p, n)')
      BY <1>2, NewerSeen
    <2>2. ASSUME NEW f \in Joined(p), NEW n \in Newcomer, D[f] = n
          PROVE  Coming(p, f, n)' /\ (Updated(p, n)' => UpToDate(p, f, n)')
      <3>1. n \in Site /\ n # p
        BY <1>1
      <3>2. Coming(p, f, n) /\ (Updated(p, n) => UpToDate(p, f, n))
        BY <2>2 DEF Ordered, NewOK
      <3>3. CASE t = n
        <4>1. s = p
          BY <1>1, <1>2, <3>3
        <4> QED BY <1>2, <2>2, <3>3, <4>1, NewerTakes
      <3>4. CASE t # n
        <4>1. directory'[n] = directory[n] /\ Grows(p, n)
          BY <1>1, <1>2, <1>3, <3>1, <3>4
        <4>2. ASSUME NEW i \in 1 .. Len(link'[p][n]), i > Len(link[p][n])
              PROVE  ~IsNews(link'[p][n][i])
          <5>1. p = t /\ n \in tee[t]
            BY <1>1, <1>3, <3>1, <4>2
          <5>2. \A h \in 1 .. Len(link'[t][n]) : h > Len(link[t][n]) =>
                   \/ /\ h = Len(link[t][n]) + 1 /\ Lead(s, t) = 1
                      /\ link'[t][n][h] = FirstOf(s, t)
                      /\ IsNew(t, FirstOf(s, t)) /\ Forwards(t, FirstOf(s, t))
                   \/ /\ h - (Len(link[t][n]) + Lead(s, t)) \in 1 .. Len(letters)
                      /\ link'[t][n][h] =
                            Stamped(t, letters)[h - (Len(link[t][n]) + Lead(s, t))]
            <6>1. n \in tee[t]
              BY <5>1
            <6> HIDE DEF m, D
            <6> QED BY <1>2, <6>1, WrittenToReader
          <5>3. \/ link'[p][n][i] = m /\ Forwards(t, m)
                \/ \E k \in 1 .. Len(letters) : link'[p][n][i] = Stamped(t, letters)[k]
            BY <4>2, <5>1, <5>2
          <5> QED BY <1>2, <5>1, <5>3 DEF Forwards
        <4>3. Len(link[p][n]) \in Nat /\ Len(link'[p][n]) \in Nat
          BY <1>1, <1>4, <3>1
        <4> QED BY <1>2, <3>2, <4>1, <4>2, <4>3, NewerGrown
      <3> QED BY <3>3, <3>4
    <2>3. Joined(p)' = Joined(p)
      BY <1>2 DEF Joined
    <2>4. ASSUME NEW f \in Joined(p)
          PROVE  /\ (Updated(p, directory[p][f]) => UpToDate(p, f, directory[p][f]))'
                 /\ Coming(p, f, directory[p][f])'
      <3>1. PICK n \in Newcomer : D[f] = n
        BY DEF Ordered, RollOK
      <3>2. Coming(p, f, n)' /\ (Updated(p, n)' => UpToDate(p, f, n)')
        BY <2>2, <3>1
      <3>3. directory'[p][f] = n
        BY <1>2, <3>1
      <3> QED BY <3>2, <3>3 DEF Coming, Updated, UpToDate, AddOnLink, Places
    <2> QED BY <2>1, <2>3, <2>4 DEF NewOK
  <1> QED BY <1>5, <1>6, <1>7, <1>8, <1>9, <1>10 DEF Ordered

LEMMA OrderedAsk ==
    ASSUME NEW p \in Old, Ordered(p), Counting', plan' = plan,
           NEW n \in Newcomer, AskPeerToJoinNetwork(n)
    PROVE  Ordered(p)'
  <1> DEFINE letters == <<AskingToJoin(plan.peer[n])>>
  <1>1. /\ p \in Site /\ p \notin Newcomer /\ Newcomer \subseteq Site
        /\ Joined(p) \subseteq Nat /\ First \in Nat
        /\ \A b \in Site : Len(directory[b]) \in Nat
        /\ Calmly /\ Calmly'
    BY PeerFacts DEF Ordered, Counting
  <1>2. /\ n \in Site /\ plan.peer[n] \in Old /\ n # plan.peer[n] /\ Request(n) \in Packet
        /\ \A u, v \in Site :
              link'[u][v] = IF u = n /\ v = plan.peer[n]
                            THEN Append(link[u][v], Request(n)) ELSE link[u][v]
        /\ sent' = [sent EXCEPT ![n] = @ + 1]
        /\ UNCHANGED <<seen, tee, directory, waiting>>
    BY <1>1, AskShape
  <1>3. ~IsNews(Request(n)) /\ Request(n).sender = n
    BY DEF IsNews, Request, Plain
  <1>4. ASSUME NEW u \in Site, NEW v \in Site
        PROVE  /\ Len(link[u][v]) \in Nat /\ Len(link'[u][v]) \in Nat /\ Grows(u, v)
               /\ \A i \in 1 .. Len(link'[u][v]) : i > Len(link[u][v]) =>
                     u = n /\ link'[u][v][i] = Request(n)
    <2>1. link[u][v] \in Seq(Packet) /\ Len(link[u][v]) \in Nat
      BY <1>1 DEF Calmly, Linking, Net
    <2>2. CASE u = n /\ v = plan.peer[n]
      <3>1. link'[u][v] = Append(link[u][v], Request(n))
        BY <1>2, <2>2
      <3> HIDE DEF Request
      <3>2. /\ Len(link'[u][v]) = Len(link[u][v]) + 1
            /\ \A i \in 1 .. Len(link[u][v]) : link'[u][v][i] = link[u][v][i]
            /\ link'[u][v][Len(link[u][v]) + 1] = Request(n)
        BY <1>2, <2>1, <3>1
      <3>3. \A i \in 1 .. Len(link'[u][v]) : i > Len(link[u][v]) => i = Len(link[u][v]) + 1
        BY <2>1, <3>2
      <3>4. Len(link'[u][v]) \in Nat /\ Grows(u, v)
        BY <2>1, <3>2 DEF Grows, Places
      <3>5. ASSUME NEW i \in 1 .. Len(link'[u][v]), i > Len(link[u][v])
            PROVE  link'[u][v][i] = Request(n)
        BY <3>2, <3>3, <3>5
      <3> QED BY <2>1, <2>2, <3>4, <3>5
    <2>3. CASE ~(u = n /\ v = plan.peer[n])
      <3>1. link'[u][v] = link[u][v]
        BY <1>2, <2>3
      <3> QED BY <2>1, <3>1 DEF Grows, Places
    <2> QED BY <2>2, <2>3
  <1>5. Stamped(n, letters) = <<Request(n)>> /\ Len(letters) = 1
    BY DEF Stamped, Request, AskingToJoin, Letter
  <1>6. Travelling' \subseteq Travelling \cup {Request(n)}
    <2>1. Packet' = Packet
      BY DEF Packet, Good, Sound
    <2>2. ASSUME NEW u \in Site, NEW v \in Site, NEW i \in 1 .. Len(link'[u][v])
          PROVE  link'[u][v][i] \in Travelling \cup {Request(n)}
      <3>1. CASE i <= Len(link[u][v])
        <4>1. i \in Places(u, v) /\ link'[u][v][i] = link[u][v][i]
          BY <1>4, <3>1 DEF Grows, Places
        <4> QED BY <1>1, <4>1, OnLinkTravels
      <3>2. CASE i > Len(link[u][v])
        BY <1>4, <3>2
      <3> QED BY <1>4, <3>1, <3>2
    <2>3. Travelling' = {m \in Packet : \E a, b \in Site :
                            \E i \in 1 .. Len(link'[a][b]) : link'[a][b][i] = m}
      BY <2>1 DEF Travelling, OnLink, Places
    <2> QED BY <2>2, <2>3
  <1>7. AtOne(p)'
    BY DEF Ordered, AtOne
  <1>8. Joined(p)' = Joined(p) /\ \A a \in Site : Joined(a)' = Joined(a)
    BY <1>2 DEF Joined
  <1>9. RollOK(p)'
    BY <1>2, <1>8 DEF Ordered, RollOK
  <1>10. Stamps'
    <2>1. \A k \in 1 .. Len(letters) :
             Stamped(n, letters)[k].id = <<n, sent[n] + k>> /\ Stamped(n, letters)[k].sender = n
      BY <1>5 DEF Request
    <2>2. Travelling' \subseteq Travelling \cup Wrote(n, letters)
      BY <1>5, <1>6 DEF Wrote
    <2>3. sent' = [sent EXCEPT ![n] = @ + Len(letters)] /\ Len(letters) \in Nat
      BY <1>2, <1>5
    <2>4. Stamps /\ \A b \in Site : \A id \in seen'[b] : id \in seen[b]
      BY <1>2 DEF Ordered
    <2> HIDE DEF letters
    <2> QED BY <1>1, <1>2, <2>1, <2>2, <2>3, <2>4, StampsStep
  <1>11. \A m \in Travelling' : IsNews(m) => m \in Travelling
    BY <1>3, <1>6
  <1>12. NewsOK(p)'
    BY <1>2, <1>11, NewsKept DEF Ordered
  <1>13. OldOK(p)'
    <2> SUFFICES ASSUME NEW b \in Old \ {p}
                 PROVE  /\ First <= Len(directory[b]) /\ Len(directory[b]) <= Len(directory[p])
                        /\ directory[b] = SubSeq(directory[p], 1, Len(directory[b]))
                        /\ \A m \in Travelling' : \A j \in Joined(p) : Adds(m, directory[p][j]) =>
                              (m.id \in seen[b] <=> j <= Len(directory[b]))
                        /\ \A a \in Site : Behind(p, a, b)'
                        /\ \A a \in Old : b \in tee[a] => PassedOn(p, a, b)'
      BY <1>2, <1>8 DEF OldOK
    <2>1. /\ First <= Len(directory[b]) /\ Len(directory[b]) <= Len(directory[p])
          /\ directory[b] = SubSeq(directory[p], 1, Len(directory[b]))
          /\ \A m \in Travelling : \A j \in Joined(p) : Adds(m, directory[p][j]) =>
                (m.id \in seen[b] <=> j <= Len(directory[b]))
          /\ \A a \in Site : Behind(p, a, b)
          /\ \A a \in Old : b \in tee[a] => PassedOn(p, a, b)
      BY DEF Ordered, OldOK
    <2>2. \A m, x : m \in Travelling' /\ Adds(m, x) => m \in Travelling
      BY <1>11 DEF Adds, IsNews
    <2>3. b \in Site /\ directory'[b] = directory[b] /\ directory'[p] = directory[p]
      BY <1>2 DEF Old
    <2>4. ASSUME NEW a \in Site PROVE Behind(p, a, b)'
      <3>1. \A i \in 1 .. Len(link'[a][b]) : i > Len(link[a][b]) =>
               link'[a][b][i].body.action # "ADD_USER_CONFIRM"
        BY <1>3, <1>4, <2>3 DEF IsNews
      <3>2. Len(link[a][b]) \in Nat /\ Len(link'[a][b]) \in Nat /\ Grows(a, b)
        BY <1>4, <2>3
      <3>3. /\ Len(directory[p]) \in Nat /\ Len(directory[b]) \in Nat
            /\ Len(directory'[b]) \in Nat /\ Len(directory[b]) <= Len(directory'[b])
        BY <1>1, <2>3
      <3> QED BY <2>1, <2>3, <3>1, <3>2, <3>3, BehindKept
    <2>5. ASSUME NEW a \in Old, b \in tee[a] PROVE PassedOn(p, a, b)'
      <3>1. a \in Site /\ directory'[a] = directory[a] /\ Len(directory[a]) \in Nat
        BY <1>1, <1>2 DEF Old
      <3>2. Len(link[a][b]) \in Nat /\ Len(link'[a][b]) \in Nat /\ Grows(a, b)
        BY <1>4, <2>3, <3>1
      <3>3. /\ Len(directory[b]) \in Nat /\ Len(directory'[b]) \in Nat
            /\ Len(directory[b]) <= Len(directory'[b]) /\ Len(directory'[a]) = Len(directory[a])
        BY <1>1, <2>3, <3>1
      <3> QED BY <2>1, <2>3, <2>5, <3>1, <3>2, <3>3, PassedOnKept
    <2> QED BY <2>1, <2>2, <2>4, <2>5
  <1>14. NewOK(p)'
    <2>1. \A v \in Site : link'[p][v] = link[p][v]
      BY <1>1, <1>2
    <2>2. (\A r \in Site : Upright(p, r)') /\ (\A r \in Newcomer : Unseen(p, r)')
      <3>1. (\A r \in Site : Upright(p, r)) /\ (\A r \in Newcomer : Unseen(p, r))
        BY DEF Ordered, NewOK
      <3>2. \A r \in Site : Upright(p, r)'
        BY <2>1, <3>1 DEF Upright, Before, Places
      <3>3. ASSUME NEW r \in Newcomer PROVE Unseen(p, r)'
        <4>1. r \in Site /\ link'[p][r] = link[p][r] /\ seen'[r] = seen[r] /\ tee'[r] = tee[r]
          BY <1>1, <1>2, <2>1
        <4> QED BY <3>1, <4>1 DEF Unseen, Places
      <3> QED BY <3>2, <3>3
    <2>3. ASSUME NEW f \in Joined(p), NEW r \in Newcomer, directory[p][f] = r
          PROVE  Coming(p, f, r)' /\ (Updated(p, r)' => UpToDate(p, f, r)')
      <3>1. Coming(p, f, r) /\ (Updated(p, r) => UpToDate(p, f, r))
        BY <2>3 DEF Ordered, NewOK
      <3>2. /\ r \in Site /\ link'[p][r] = link[p][r]
            /\ Len(link[p][r]) \in Nat /\ Len(link'[p][r]) \in Nat /\ Grows(p, r)
        BY <1>1, <1>4, <2>1
      <3>3. \A i \in 1 .. Len(link'[p][r]) : i > Len(link[p][r]) => ~IsNews(link'[p][r][i])
        BY <3>2
      <3>4. directory'[p] = directory[p] /\ directory'[r] = directory[r]
        BY <1>2
      <3> QED BY <3>1, <3>2, <3>3, <3>4, NewerGrown
    <2>4. ASSUME NEW f \in Joined(p)
          PROVE  /\ (Updated(p, directory[p][f]) => UpToDate(p, f, directory[p][f]))'
                 /\ Coming(p, f, directory[p][f])'
      <3>1. PICK r \in Newcomer : directory[p][f] = r
        BY DEF Ordered, RollOK
      <3>2. Coming(p, f, r)' /\ (Updated(p, r)' => UpToDate(p, f, r)')
        BY <2>3, <3>1
      <3>3. directory'[p][f] = r
        BY <1>2, <3>1
      <3> QED BY <3>2, <3>3 DEF Coming, Updated, UpToDate, AddOnLink, Places
    <2> QED BY <1>8, <2>2, <2>4 DEF NewOK
  <1> QED BY <1>7, <1>9, <1>10, <1>12, <1>13, <1>14 DEF Ordered

LEMMA NewsLetters ==
    ASSUME NEW n, NEW list
    PROVE  /\ UpdateListe(n, list).body.action = "UPDATE_LISTE" /\ UpdateListe(n, list).dest = n
           /\ UpdateListe(n, list).body.list = list
           /\ AddUserConfirm(n).body.action = "ADD_USER_CONFIRM"
           /\ AddUserConfirm(n).body.who = n /\ AddUserConfirm(n).dest = BROADCAST
           /\ ReleaseElection.body.action = "RELEASE_ELECTION"
  BY DEF UpdateListe, AddUserConfirm, ReleaseElection, Plain, Letter

(* p lets in those that wait: of the letters it writes, those of the i-th  *)
(* of them.                                                                *)
Greetings(p) == <<BuildElected(p)>> \o Welcomes(p)
Invites(p) == Len(waiting[p])
LEMMA WelcomeLetters ==
    ASSUME Calmly, NEW p \in Site
    PROVE  /\ Greetings(p) \in Seq(JoinSends(p)) /\ Invites(p) \in Nat
           /\ Len(Greetings(p)) = 3 * Invites(p) + 1
           /\ \A i \in 1 .. Invites(p) :
                 /\ 3 * i - 1 \in 1 .. Len(Greetings(p)) /\ 3 * i \in 1 .. Len(Greetings(p))
                 /\ Greetings(p)[3 * i - 1] = UpdateListe(waiting[p][i], ListWith(p, i))
                 /\ Greetings(p)[3 * i] = AddUserConfirm(waiting[p][i])
           /\ \A k \in 1 .. Len(Greetings(p)) :
                 /\ Greetings(p)[k].body.action = "UPDATE_LISTE" =>
                       \E i \in 1 .. Invites(p) : k = 3 * i - 1
                 /\ Greetings(p)[k].body.action = "ADD_USER_CONFIRM" =>
                       \E i \in 1 .. Invites(p) : k = 3 * i
  <1> DEFINE N == Invites(p)
             w == Welcomes(p)
             e == BuildElected(p)
  <1>1. /\ Greetings(p) \in Seq(JoinSends(p)) /\ Len(w) = 3 * N /\ N \in Nat
        /\ w \in Seq(Sends(p))
    <2>1. Typing /\ Len(waiting[p]) \in Nat
      BY LenProperties DEF Calmly, Typing, MemberTypeOK
    <2> QED BY <2>1, WelcomesAreJoin, WelcomesTyped DEF Greetings, Invites
  <1>2. \A k \in 1 .. 3 * N : w[k] = Welcome(p, (k + 2) \div 3)[((k + 2) % 3) + 1]
    BY DEF Welcomes, Invites
  <1>3. e.body.action = "ELECTED"
    BY DEF BuildElected, Letter
  <1>4. /\ Len(Greetings(p)) = 3 * N + 1
        /\ Greetings(p)[1] = e
        /\ \A k \in 1 .. 3 * N : Greetings(p)[k + 1] = w[k]
    <2> HIDE DEF w, e, N
    <2>1. <<e>> \o w = Greetings(p)
      BY DEF Greetings, w, e
    <2>2. <<e>> \in Seq({e}) /\ Len(<<e>>) = 1 /\ <<e>>[1] = e
      OBVIOUS
    <2>3. /\ Len(<<e>> \o w) = 1 + Len(w)
          /\ \A k \in 1 .. 1 + Len(w) :
                (<<e>> \o w)[k] = IF k <= 1 THEN <<e>>[k] ELSE w[k - 1]
      BY <1>1, <2>2
    <2>4. \A k \in 1 .. 3 * N : k + 1 \in 1 .. 1 + Len(w) /\ ~(k + 1 <= 1) /\ (k + 1) - 1 = k
      BY <1>1
    <2>5. 1 \in 1 .. 1 + Len(w) /\ 1 + Len(w) = 3 * N + 1
      BY <1>1
    <2> QED BY <2>1, <2>2, <2>3, <2>4, <2>5
  <1>5. /\ \A i : Welcome(p, i)[1] = UpdateListe(waiting[p][i], ListWith(p, i))
        /\ \A i : Welcome(p, i)[2] = AddUserConfirm(waiting[p][i])
        /\ \A i : Welcome(p, i)[3] = ReleaseElection
    BY DEF Welcome
  <1> HIDE DEF N, w, e
  <1>6. ASSUME NEW i \in 1 .. N
        PROVE  /\ 3 * i - 1 \in 1 .. 3 * N + 1 /\ 3 * i \in 1 .. 3 * N + 1
               /\ Greetings(p)[3 * i - 1] = Welcome(p, i)[1]
               /\ Greetings(p)[3 * i] = Welcome(p, i)[2]
    <2>1. /\ 3 * i - 2 \in 1 .. 3 * N /\ (3 * i - 2) + 1 = 3 * i - 1
          /\ ((3 * i - 2) + 2) \div 3 = i /\ (((3 * i - 2) + 2) % 3) + 1 = 1
      BY <1>1
    <2>2. /\ 3 * i - 1 \in 1 .. 3 * N /\ (3 * i - 1) + 1 = 3 * i
          /\ ((3 * i - 1) + 2) \div 3 = i /\ (((3 * i - 1) + 2) % 3) + 1 = 2
      BY <1>1
    <2>3. Greetings(p)[3 * i - 1] = Welcome(p, i)[1]
      BY <1>2, <1>4, <2>1
    <2>4. Greetings(p)[3 * i] = Welcome(p, i)[2]
      BY <1>2, <1>4, <2>2
    <2> QED BY <1>1, <2>3, <2>4
  <1>7. ASSUME NEW k \in 1 .. Len(Greetings(p))
        PROVE  /\ Greetings(p)[k].body.action = "UPDATE_LISTE" => \E i \in 1 .. N : k = 3 * i - 1
               /\ Greetings(p)[k].body.action = "ADD_USER_CONFIRM" => \E i \in 1 .. N : k = 3 * i
    <2>1. CASE k = 1
      BY <1>3, <1>4, <2>1
    <2>2. CASE k # 1
      <3> DEFINE h == k - 1
                 i == (h + 2) \div 3
                 r == ((h + 2) % 3) + 1
      <3>1. /\ h \in 1 .. 3 * N /\ h + 1 = k /\ i \in 1 .. N /\ r \in 1 .. 3
            /\ h = 3 * i - 3 + r
        BY <1>1, <1>4, <2>2
      <3>2. Greetings(p)[k] = Welcome(p, i)[r]
        BY <1>2, <1>4, <3>1
      <3> HIDE DEF h, i, r
      <3>3. CASE r = 1
        <4>1. k = 3 * i - 1
          BY <1>1, <3>1, <3>3
        <4>2. Greetings(p)[k].body.action = "UPDATE_LISTE"
          BY <1>5, <3>2, <3>3, NewsLetters
        <4> QED BY <3>1, <4>1, <4>2
      <3>4. CASE r = 2
        <4>1. k = 3 * i
          BY <1>1, <3>1, <3>4
        <4>2. Greetings(p)[k].body.action = "ADD_USER_CONFIRM"
          BY <1>5, <3>2, <3>4, NewsLetters
        <4> QED BY <3>1, <4>1, <4>2
      <3>5. CASE r = 3
        <4>1. Greetings(p)[k].body.action = "RELEASE_ELECTION"
          BY <1>5, <3>2, <3>5, NewsLetters
        <4> QED BY <4>1
      <3> QED BY <3>1, <3>3, <3>4, <3>5
    <2> QED BY <2>1, <2>2
  <1> QED BY <1>1, <1>4, <1>5, <1>6, <1>7 DEF N

(* The news that p writes then.                                            *)
LEMMA WelcomeNews ==
    ASSUME Calmly, NEW p \in Site, NEW s \in Site, link[s][p] # <<>>
    PROVE  LET w == Stamped(p, Greetings(p)) IN
           /\ \A i \in 1 .. Invites(p) :
                 /\ w[3 * i - 1].id = <<p, sent[p] + (3 * i - 1)>> /\ w[3 * i].id = <<p, sent[p] + 3 * i>>
                 /\ Lists(w[3 * i - 1], waiting[p][i]) /\ w[3 * i - 1].body.list = ListWith(p, i)
                 /\ Adds(w[3 * i], waiting[p][i]) /\ w[3 * i].dest = BROADCAST
           /\ \A k \in 1 .. Len(Greetings(p)) :
                 /\ w[k].sender = p /\ w[k].id = <<p, sent[p] + k>>
                 /\ w[k].body.action = "UPDATE_LISTE" => \E i \in 1 .. Invites(p) : k = 3 * i - 1
                 /\ w[k].body.action = "ADD_USER_CONFIRM" => \E i \in 1 .. Invites(p) : k = 3 * i
  <1> DEFINE g == Greetings(p)
             w == Stamped(p, g)
  <1>1. \A k \in 1 .. Len(g) :
           /\ w[k].id = <<p, sent[p] + k>> /\ w[k].sender = p
           /\ w[k].dest = g[k].dest /\ w[k].body = g[k].body
    <2>1. Greetings(p) \in Seq(JoinSends(p))
      BY WelcomeLetters
    <2> QED BY <2>1, SaysFrom
  <1>2. \A i \in 1 .. Invites(p) :
           /\ 3 * i - 1 \in 1 .. Len(g) /\ 3 * i \in 1 .. Len(g)
           /\ g[3 * i - 1] = UpdateListe(waiting[p][i], ListWith(p, i))
           /\ g[3 * i] = AddUserConfirm(waiting[p][i])
    BY WelcomeLetters
  <1>3. \A k \in 1 .. Len(g) :
           /\ g[k].body.action = "UPDATE_LISTE" => \E i \in 1 .. Invites(p) : k = 3 * i - 1
           /\ g[k].body.action = "ADD_USER_CONFIRM" => \E i \in 1 .. Invites(p) : k = 3 * i
    BY WelcomeLetters
  <1> HIDE DEF g, w
  <1>4. ASSUME NEW i \in 1 .. Invites(p)
        PROVE  /\ w[3 * i - 1].id = <<p, sent[p] + (3 * i - 1)>> /\ w[3 * i].id = <<p, sent[p] + 3 * i>>
               /\ Lists(w[3 * i - 1], waiting[p][i]) /\ w[3 * i - 1].body.list = ListWith(p, i)
               /\ Adds(w[3 * i], waiting[p][i]) /\ w[3 * i].dest = BROADCAST
    <2>1. w[3 * i - 1].id = <<p, sent[p] + (3 * i - 1)>> /\ w[3 * i].id = <<p, sent[p] + 3 * i>>
      BY <1>1, <1>2
    <2>2. /\ w[3 * i - 1].dest = waiting[p][i] /\ w[3 * i - 1].body.action = "UPDATE_LISTE"
          /\ w[3 * i - 1].body.list = ListWith(p, i)
      BY <1>1, <1>2, NewsLetters
    <2>3. /\ w[3 * i].dest = BROADCAST /\ w[3 * i].body.action = "ADD_USER_CONFIRM"
          /\ w[3 * i].body.who = waiting[p][i]
      BY <1>1, <1>2, NewsLetters
    <2> QED BY <2>1, <2>2, <2>3 DEF Lists, Adds
  <1> QED BY <1>1, <1>3, <1>4 DEF g, w

(* Names at the end of a directory.                                        *)
LEMMA RollGrows ==
    ASSUME NEW S, NEW d \in Seq(S), NEW q \in Seq(S)
    PROVE  /\ Len(d) \in Nat /\ Len(q) \in Nat /\ Len(d \o q) = Len(d) + Len(q)
           /\ \A j \in 1 .. Len(d) : (d \o q)[j] = d[j]
           /\ \A i \in 1 .. Len(q) : (d \o q)[Len(d) + i] = q[i]
           /\ \A j \in 0 .. Len(d) : SubSeq(d \o q, 1, j) = SubSeq(d, 1, j)
           /\ \A i \in 1 .. Len(q) : SubSeq(d \o q, 1, Len(d) + i) = d \o SubSeq(q, 1, i)
  <1>1. Len(d) \in Nat /\ Len(q) \in Nat /\ Len(d \o q) = Len(d) + Len(q) /\ d \o q \in Seq(S)
    OBVIOUS
  <1>2. /\ \A j \in 1 .. Len(d) : (d \o q)[j] = d[j]
        /\ \A i \in 1 .. Len(d) + Len(q) : i > Len(d) => (d \o q)[i] = q[i - Len(d)]
    BY <1>1
  <1>3. ASSUME NEW i \in 1 .. Len(q) PROVE (d \o q)[Len(d) + i] = q[i]
    <2>1. Len(d) + i \in 1 .. Len(d) + Len(q) /\ Len(d) + i > Len(d) /\ (Len(d) + i) - Len(d) = i
      BY <1>1
    <2> QED BY <1>2, <2>1
  <1>4. ASSUME NEW j \in 0 .. Len(d) PROVE SubSeq(d \o q, 1, j) = SubSeq(d, 1, j)
    <2>1. /\ SubSeq(d \o q, 1, j) \in Seq(S) /\ Len(SubSeq(d \o q, 1, j)) = j
          /\ SubSeq(d, 1, j) \in Seq(S) /\ Len(SubSeq(d, 1, j)) = j
      BY <1>1
    <2>2. \A i \in 1 .. j : SubSeq(d \o q, 1, j)[i] = SubSeq(d, 1, j)[i]
      BY <1>1, <1>2
    <2> QED BY <2>1, <2>2, SeqEqual
  <1>5. ASSUME NEW i \in 1 .. Len(q)
        PROVE  SubSeq(d \o q, 1, Len(d) + i) = d \o SubSeq(q, 1, i)
    <2> DEFINE x == SubSeq(d \o q, 1, Len(d) + i)
               y == SubSeq(q, 1, i)
    <2>1. /\ x \in Seq(S) /\ Len(x) = Len(d) + i
          /\ \A h \in 1 .. Len(d) + i : x[h] = (d \o q)[h]
      BY <1>1
    <2>2. y \in Seq(S) /\ Len(y) = i /\ \A h \in 1 .. i : y[h] = q[h]
      OBVIOUS
    <2> HIDE DEF x, y
    <2>3. /\ d \o y \in Seq(S) /\ Len(d \o y) = Len(d) + i
          /\ \A h \in 1 .. Len(d) + i : (d \o y)[h] = IF h <= Len(d) THEN d[h] ELSE y[h - Len(d)]
      BY SMTT(30), <1>1, <2>2
    <2>4. ASSUME NEW h \in 1 .. Len(d) + i PROVE x[h] = (d \o y)[h]
      <3>1. CASE h <= Len(d)
        BY <1>1, <1>2, <2>1, <2>3, <3>1
      <3>2. CASE h > Len(d)
        <4>1. /\ h - Len(d) \in 1 .. i /\ h \in 1 .. Len(d) + Len(q)
              /\ h \in 1 .. Len(d) + i /\ ~(h <= Len(d))
          BY <1>1, <3>2
        <4>2. x[h] = q[h - Len(d)]
          BY <1>2, <2>1, <3>2, <4>1
        <4>3. (d \o y)[h] = y[h - Len(d)]
          BY <2>3, <4>1
        <4>4. y[h - Len(d)] = q[h - Len(d)]
          BY <2>2, <4>1
        <4> QED BY <4>2, <4>3, <4>4
      <3>3. h <= Len(d) \/ h > Len(d)
        BY <1>1
      <3> QED BY <3>1, <3>2, <3>3
    <2> QED BY <2>1, <2>3, <2>4, SeqEqual DEF x, y
  <1> QED BY <1>1, <1>2, <1>3, <1>4, <1>5

(* What a step of p that lets newcomers in changes.                        *)
LEMMA WelcomeFacts ==
    ASSUME NEW p \in Old, Ordered(p), Counting', plan' = plan, NEW s \in Site,
           NEW old \in [ToSet(waiting[p]) -> Uncopied(p)], Welcoming(s, p, old)
    PROVE  /\ Calmly /\ Calmly' /\ Stamps /\ link[s][p] # <<>> /\ s # p /\ p \in Site
           /\ Takes(s, p, tee[p] \cup ToSet(waiting[p]), Says(s, p, Greetings(p)), old)
           /\ sent' = [sent EXCEPT ![p] = @ + Len(Greetings(p))]
           /\ ~IsNews(FirstOf(s, p)) /\ FirstOf(s, p) \in Travelling
           /\ Travelling' \subseteq Travelling \cup Wrote(p, Greetings(p))
           /\ Len(directory[p]) \in Nat /\ Invites(p) \in Nat /\ First \in Nat
           /\ First <= Len(directory[p])
           /\ Len(directory'[p]) = Len(directory[p]) + Invites(p)
           /\ \A j \in 1 .. Len(directory[p]) : directory'[p][j] = directory[p][j]
           /\ \A i \in 1 .. Invites(p) : directory'[p][Len(directory[p]) + i] = waiting[p][i]
           /\ \A j \in 0 .. Len(directory[p]) : SubSeq(directory'[p], 1, j) = SubSeq(directory[p], 1, j)
           /\ \A i \in 1 .. Invites(p) :
                 SubSeq(directory'[p], 1, Len(directory[p]) + i) = ListWith(p, i)
           /\ \A b \in Site : b # p => directory'[b] = directory[b] /\ seen'[b] = seen[b]
           /\ \A i \in 1 .. Invites(p) :
                 /\ waiting[p][i] \in Newcomer /\ tee[waiting[p][i]] = {}
                 /\ \A k \in 1 .. Invites(p) : waiting[p][k] = waiting[p][i] => k = i
           /\ ToSet(waiting[p]) = {waiting[p][i] : i \in 1 .. Invites(p)}
           /\ \A r \in Site : tee'[r] = IF r = p THEN tee[p] \cup ToSet(waiting[p])
                                        ELSE IF r \in ToSet(waiting[p]) THEN tee[r] \cup {p}
                                        ELSE tee[r]
  <1>1. /\ Calmly /\ Calmly' /\ Stamps /\ p \in Site /\ Requests
        /\ waiting[p] \in Seq(Newcomer) /\ directory \in [Site -> Seq(Site)]
        /\ Newcomer \subseteq Site /\ First \in Nat /\ First <= Len(directory[p])
        /\ seen \in [Site -> SUBSET Ids]
    <2>1. /\ p \in Site /\ directory \in [Site -> Seq(Site)] /\ Newcomer \subseteq Site
          /\ First \in Nat /\ seen \in [Site -> SUBSET Ids]
      BY PeerFacts
    <2>2. waiting \in [Site -> Seq(Newcomer)]
      BY DEF Ordered, Counting, Calmly, Typing, MemberTypeOK
    <2> QED BY <2>1, <2>2 DEF Ordered, Counting, RollOK
  <1>2. /\ Takes(s, p, tee[p] \cup ToSet(waiting[p]), Says(s, p, Greetings(p)), old)
        /\ sent' = [sent EXCEPT ![p] = @ + Len(Greetings(p))]
        /\ Gets(s, p, "ECHO_ELECTION")
        /\ directory' = [directory EXCEPT ![p] = @ \o waiting[p]]
        /\ tee' = LinkedBothWays(p, waiting[p])
    BY DEF Welcoming, Greetings
  <1>3. link[s][p] # <<>> /\ s # p
    BY <1>2 DEF Takes
  <1>4. ~IsNews(FirstOf(s, p))
    BY <1>2 DEF Gets, IsNews
  <1>5. Travelling' \subseteq Travelling \cup Wrote(p, Greetings(p)) /\ FirstOf(s, p) \in Travelling
    <2>1. Greetings(p) \in Seq(JoinSends(p))
      BY <1>1, WelcomeLetters
    <2> QED BY <1>1, <1>2, <2>1, TakesTravelling
  <1>6. /\ directory'[p] = directory[p] \o waiting[p]
        /\ \A b \in Site : b # p => directory'[b] = directory[b] /\ seen'[b] = seen[b]
    <2>1. seen' = [seen EXCEPT ![p] = @ \cup {FirstOf(s, p).id}]
      BY <1>2 DEF Takes
    <2> QED BY <1>1, <1>2, <2>1
  <1>7. directory[p] \in Seq(Site) /\ waiting[p] \in Seq(Site)
    BY <1>1, SeqMonotonic
  <1>8. /\ Len(directory[p]) \in Nat /\ Invites(p) \in Nat
        /\ Len(directory'[p]) = Len(directory[p]) + Invites(p)
        /\ \A j \in 1 .. Len(directory[p]) : directory'[p][j] = directory[p][j]
        /\ \A i \in 1 .. Invites(p) : directory'[p][Len(directory[p]) + i] = waiting[p][i]
        /\ \A j \in 0 .. Len(directory[p]) : SubSeq(directory'[p], 1, j) = SubSeq(directory[p], 1, j)
        /\ \A i \in 1 .. Invites(p) :
              SubSeq(directory'[p], 1, Len(directory[p]) + i) = ListWith(p, i)
    <2> DEFINE d == directory[p]
               q == waiting[p]
    <2>1. d \in Seq(Site) /\ q \in Seq(Site)
      BY <1>7
    <2>2. directory'[p] = d \o q /\ Invites(p) = Len(q) /\ \A i : ListWith(p, i) = d \o SubSeq(q, 1, i)
      BY <1>6 DEF Invites, ListWith
    <2> HIDE DEF d, q
    <2>3. /\ Len(d) \in Nat /\ Len(q) \in Nat /\ Len(d \o q) = Len(d) + Len(q)
          /\ \A j \in 1 .. Len(d) : (d \o q)[j] = d[j]
          /\ \A i \in 1 .. Len(q) : (d \o q)[Len(d) + i] = q[i]
          /\ \A j \in 0 .. Len(d) : SubSeq(d \o q, 1, j) = SubSeq(d, 1, j)
          /\ \A i \in 1 .. Len(q) : SubSeq(d \o q, 1, Len(d) + i) = d \o SubSeq(q, 1, i)
      BY <2>1, RollGrows
    <2> QED BY <2>2, <2>3 DEF d, q
  <1>9. /\ \A i \in 1 .. Invites(p) :
              /\ waiting[p][i] \in Newcomer /\ tee[waiting[p][i]] = {}
              /\ \A k \in 1 .. Invites(p) : waiting[p][k] = waiting[p][i] => k = i
        /\ ToSet(waiting[p]) = {waiting[p][i] : i \in 1 .. Invites(p)}
    <2>1. DOMAIN waiting[p] = 1 .. Invites(p)
      BY <1>1, LenProperties DEF Invites
    <2>2. \A i \in 1 .. Invites(p) : waiting[p][i] \in Newcomer
      BY <1>1, ElementOfSeq DEF Invites
    <2> QED BY <1>1, <2>1, <2>2 DEF Requests, ToSet
  <1>10. \A r \in Site : tee'[r] = IF r = p THEN tee[p] \cup ToSet(waiting[p])
                                   ELSE IF r \in ToSet(waiting[p]) THEN tee[r] \cup {p}
                                   ELSE tee[r]
    BY <1>2 DEF LinkedBothWays
  <1> QED BY <1>1, <1>2, <1>3, <1>4, <1>5, <1>6, <1>8, <1>9, <1>10

LEMMA RollWelcome ==
    ASSUME NEW p \in Old, Ordered(p), Counting', plan' = plan, NEW s \in Site,
           NEW old \in [ToSet(waiting[p]) -> Uncopied(p)], Welcoming(s, p, old)
    PROVE  RollOK(p)'
  <1> DEFINE D == directory[p]
             E == directory'[p]
             N == Invites(p)
             W == ToSet(waiting[p])
  <1>1. /\ p \in Site /\ p \notin Newcomer /\ Newcomer \subseteq Site
    BY PeerFacts
  <1>2. /\ Len(D) \in Nat /\ N \in Nat /\ First \in Nat /\ First <= Len(D)
        /\ Len(E) = Len(D) + N
        /\ \A j \in 1 .. Len(D) : E[j] = D[j]
        /\ \A i \in 1 .. N : E[Len(D) + i] = waiting[p][i]
        /\ \A j \in 0 .. Len(D) : SubSeq(E, 1, j) = SubSeq(D, 1, j)
        /\ \A i \in 1 .. N :
              /\ waiting[p][i] \in Newcomer /\ tee[waiting[p][i]] = {}
              /\ \A k \in 1 .. N : waiting[p][k] = waiting[p][i] => k = i
        /\ W = {waiting[p][i] : i \in 1 .. N}
        /\ \A r \in Site : tee'[r] = IF r = p THEN tee[p] \cup W
                                     ELSE IF r \in W THEN tee[r] \cup {p}
                                     ELSE tee[r]
    BY WelcomeFacts
  <1>3. /\ SubSeq(D, 1, First) = Layout
        /\ \A j \in First + 1 .. Len(D) : D[j] \in Newcomer /\ tee[D[j]] # {}
        /\ \A i, j \in 1 .. Len(D) : D[i] = D[j] => i = j
        /\ \A n \in Newcomer : tee[n] # {} => \E j \in First + 1 .. Len(D) : D[j] = n
    BY DEF Ordered, RollOK, Joined
  <1> HIDE DEF D, E, N, W
  <1>4. ASSUME NEW j \in 1 .. Len(E)
        PROVE  j \in 1 .. Len(D) \/ \E i \in 1 .. N : j = Len(D) + i
    <2>1. CASE j <= Len(D)
      BY <1>2, <2>1
    <2>2. CASE j > Len(D)
      <3>1. j - Len(D) \in 1 .. N /\ j = Len(D) + (j - Len(D))
        BY <1>2, <2>2
      <3> QED BY <3>1
    <2> QED BY <1>2, <2>1, <2>2
  <1>5. SubSeq(E, 1, First) = Layout /\ First <= Len(E)
    BY <1>2, <1>3
  <1>6. ASSUME NEW j \in First + 1 .. Len(E) PROVE E[j] \in Newcomer /\ tee'[E[j]] # {}
    <2>1. j \in 1 .. Len(E)
      BY <1>2
    <2>2. CASE j \in 1 .. Len(D)
      <3>1. D[j] \in Newcomer /\ tee[D[j]] # {} /\ E[j] = D[j]
        BY <1>2, <1>3, <2>2
      <3> QED BY ZenonT(30), <1>1, <1>2, <3>1
    <2>3. CASE \E i \in 1 .. N : j = Len(D) + i
      <3>1. PICK i \in 1 .. N : j = Len(D) + i
        BY <2>3
      <3>2. E[j] = waiting[p][i]
        BY <1>2, <3>1
      <3>3. waiting[p][i] \in W /\ waiting[p][i] \in Newcomer
        BY <1>2
      <3>4. tee'[E[j]] = tee[E[j]] \cup {p}
        BY ZenonT(30), <1>1, <1>2, <3>2, <3>3
      <3> QED BY <3>2, <3>3, <3>4
    <2> QED BY <1>4, <2>1, <2>2, <2>3
  (* The first sites are no newcomers, those that are let in have no links. *)
  <1>7. ASSUME NEW j \in 1 .. Len(D), NEW i \in 1 .. N PROVE D[j] # waiting[p][i]
    <2>1. CASE j <= First
      <3>1. D[j] = Layout[j] /\ j \in DOMAIN Layout
        <4>1. directory[p] \in Seq(Site) /\ Layout \in Seq(Site) /\ Len(Layout) = First
          BY <1>1, PeerFacts, LayoutAssumption DEF First
        <4>2. SubSeq(D, 1, First)[j] = D[j]
          BY <1>2, <2>1, <4>1 DEF D
        <4> QED BY <1>2, <1>3, <2>1, <4>1, <4>2
      <3>2. Layout[j] \in Site \ Newcomer
        BY <3>1, LayoutAssumption DEF ToSet
      <3> QED BY <1>2, <3>1, <3>2
    <2>2. CASE j > First
      <3>1. j \in First + 1 .. Len(D)
        BY <1>2, <2>2
      <3>2. tee[D[j]] # {} /\ tee[waiting[p][i]] = {}
        BY <1>2, <1>3, <3>1
      <3> QED BY <3>2
    <2>3. j <= First \/ j > First
      BY <1>2
    <2> QED BY <2>1, <2>2, <2>3
  <1>8. ASSUME NEW i \in 1 .. Len(E), NEW j \in 1 .. Len(E), E[i] = E[j] PROVE i = j
    <2>1. CASE i \in 1 .. Len(D) /\ j \in 1 .. Len(D)
      BY <1>2, <1>3, <1>8, <2>1
    <2>2. CASE i \in 1 .. Len(D) /\ \E h \in 1 .. N : j = Len(D) + h
      <3>1. PICK h \in 1 .. N : j = Len(D) + h
        BY <2>2
      <3>2. E[i] = D[i] /\ E[j] = waiting[p][h]
        BY <1>2, <2>2, <3>1
      <3> QED BY <1>7, <1>8, <2>2, <3>2
    <2>3. CASE j \in 1 .. Len(D) /\ \E h \in 1 .. N : i = Len(D) + h
      <3>1. PICK h \in 1 .. N : i = Len(D) + h
        BY <2>3
      <3>2. E[j] = D[j] /\ E[i] = waiting[p][h]
        BY <1>2, <2>3, <3>1
      <3> QED BY <1>7, <1>8, <2>3, <3>2
    <2>4. CASE (\E h \in 1 .. N : i = Len(D) + h) /\ (\E h \in 1 .. N : j = Len(D) + h)
      <3>1. PICK h \in 1 .. N : i = Len(D) + h
        BY <2>4
      <3>2. PICK k \in 1 .. N : j = Len(D) + k
        BY <2>4
      <3>3. E[i] = waiting[p][h] /\ E[j] = waiting[p][k]
        BY <1>2, <3>1, <3>2
      <3>4. h = k
        BY <1>2, <1>8, <3>3
      <3> QED BY <3>1, <3>2, <3>4
    <2> QED BY <1>4, <2>1, <2>2, <2>3, <2>4
  <1>9. ASSUME NEW n \in Newcomer, tee'[n] # {} PROVE \E j \in First + 1 .. Len(E) : E[j] = n
    <2>1. CASE n \in W
      <3>1. PICK i \in 1 .. N : n = waiting[p][i]
        BY <1>2, <2>1
      <3>2. Len(D) + i \in First + 1 .. Len(E) /\ E[Len(D) + i] = n
        BY <1>2, <3>1
      <3> QED BY <3>2
    <2>2. CASE n \notin W
      <3>1. tee[n] # {}
        BY <1>1, <1>2, <1>9, <2>2
      <3>2. PICK j \in First + 1 .. Len(D) : D[j] = n
        BY <1>3, <3>1
      <3>3. j \in First + 1 .. Len(E) /\ E[j] = n
        BY <1>2, <3>2
      <3> QED BY <3>3
    <2> QED BY <2>1, <2>2
  <1> QED BY <1>5, <1>6, <1>8, <1>9 DEF RollOK, Joined, E

(* After that step, whose news a message is, and when it was written.      *)
LEMMA NewsPlace ==
    ASSUME NEW p \in Old, Ordered(p), Counting', plan' = plan, NEW s \in Site,
           NEW old \in [ToSet(waiting[p]) -> Uncopied(p)], Welcoming(s, p, old),
           NEW m \in Travelling', NEW j \in First + 1 .. Len(directory'[p])
    PROVE  LET w == Stamped(p, Greetings(p))
               L == Len(directory[p])
           IN
           /\ Adds(m, directory'[p][j]) =>
                 \/ /\ j \in Joined(p) /\ j <= L /\ m \in Travelling /\ Adds(m, directory[p][j])
                    /\ m.sender = p /\ m.id[2] <= sent[p]
                 \/ \E i \in 1 .. Invites(p) : j = L + i /\ m = w[3 * i]
           /\ Lists(m, directory'[p][j]) =>
                 \/ /\ j \in Joined(p) /\ j <= L /\ m \in Travelling /\ Lists(m, directory[p][j])
                    /\ m.sender = p /\ m.id[2] <= sent[p]
                 \/ \E i \in 1 .. Invites(p) : j = L + i /\ m = w[3 * i - 1]
  <1> DEFINE D == directory[p]
             E == directory'[p]
             N == Invites(p)
             w == Stamped(p, Greetings(p))
  <1>1. /\ Calmly /\ Stamps /\ link[s][p] # <<>> /\ p \in Site
        /\ Travelling' \subseteq Travelling \cup Wrote(p, Greetings(p))
        /\ Len(D) \in Nat /\ N \in Nat /\ First \in Nat /\ Len(E) = Len(D) + N
        /\ \A h \in 1 .. Len(D) : E[h] = D[h]
        /\ \A i \in 1 .. N : E[Len(D) + i] = waiting[p][i]
    BY WelcomeFacts
  <1>2. \A h, k \in 1 .. Len(E) : E[h] = E[k] => h = k
    BY RollWelcome DEF RollOK
  <1>3. /\ \A i \in 1 .. N : /\ Lists(w[3 * i - 1], waiting[p][i])
                             /\ Adds(w[3 * i], waiting[p][i])
        /\ \A k \in 1 .. Len(Greetings(p)) :
              /\ w[k].body.action = "UPDATE_LISTE" => \E i \in 1 .. N : k = 3 * i - 1
              /\ w[k].body.action = "ADD_USER_CONFIRM" => \E i \in 1 .. N : k = 3 * i
    BY <1>1, WelcomeNews
  <1>4. /\ \A o \in Travelling : IsNews(o) => o.sender = p
        /\ \A o \in Travelling : o.body.action = "ADD_USER_CONFIRM" =>
              \E h \in Joined(p) : Adds(o, D[h])
        /\ \A o \in Travelling : o.body.action = "UPDATE_LISTE" =>
              \E h \in Joined(p) : Lists(o, D[h])
        /\ \A o \in Travelling : o.id[2] <= sent[o.sender]
    BY <1>1 DEF Ordered, NewsOK, Stamps
  <1>5. Joined(p) = First + 1 .. Len(D)
    BY DEF Joined
  <1>6. m \in Travelling \/ \E k \in 1 .. Len(Greetings(p)) : m = w[k]
    BY <1>1 DEF Wrote
  <1> HIDE DEF D, E, N, w
  <1>7. ASSUME m \in Travelling, Adds(m, E[j])
        PROVE  /\ j \in Joined(p) /\ j <= Len(D) /\ m \in Travelling /\ Adds(m, D[j])
               /\ m.sender = p /\ m.id[2] <= sent[p]
    <2>1. PICK h \in Joined(p) : Adds(m, D[h])
      BY <1>4, <1>7 DEF Adds
    <2>2. E[h] = E[j] /\ h \in 1 .. Len(E) /\ j \in 1 .. Len(E)
      BY <1>1, <1>5, <1>7, <2>1 DEF Adds, E
    <2>3. h = j
      BY <1>2, <2>2
    <2>4. m.sender = p /\ m.id[2] <= sent[p]
      BY <1>4, <1>7 DEF Adds, IsNews
    <2> QED BY <1>1, <1>5, <1>7, <2>1, <2>3, <2>4
  <1>8. ASSUME m \in Travelling, Lists(m, E[j])
        PROVE  /\ j \in Joined(p) /\ j <= Len(D) /\ m \in Travelling /\ Lists(m, D[j])
               /\ m.sender = p /\ m.id[2] <= sent[p]
    <2>1. PICK h \in Joined(p) : Lists(m, D[h])
      BY <1>4, <1>8 DEF Lists
    <2>2. E[h] = E[j] /\ h \in 1 .. Len(E) /\ j \in 1 .. Len(E)
      BY <1>1, <1>5, <1>8, <2>1 DEF Lists, E
    <2>3. h = j
      BY <1>2, <2>2
    <2>4. m.sender = p /\ m.id[2] <= sent[p]
      BY <1>4, <1>8 DEF Lists, IsNews
    <2> QED BY <1>1, <1>5, <1>8, <2>1, <2>3, <2>4
  <1>9. ASSUME NEW k \in 1 .. Len(Greetings(p)), m = w[k], Adds(m, E[j])
        PROVE  \E i \in 1 .. N : j = Len(D) + i /\ m = w[3 * i]
    <2>1. PICK i \in 1 .. N : k = 3 * i
      BY <1>3, <1>9 DEF Adds
    <2>2. E[Len(D) + i] = E[j] /\ Len(D) + i \in 1 .. Len(E) /\ j \in 1 .. Len(E)
      <3>1. E[j] = waiting[p][i]
        BY <1>3, <1>9, <2>1 DEF Adds
      <3> QED BY <1>1, <3>1 DEF E
    <2>3. j = Len(D) + i
      BY <1>2, <2>2
    <2> QED BY <1>9, <2>1, <2>3
  <1>10. ASSUME NEW k \in 1 .. Len(Greetings(p)), m = w[k], Lists(m, E[j])
         PROVE  \E i \in 1 .. N : j = Len(D) + i /\ m = w[3 * i - 1]
    <2>1. PICK i \in 1 .. N : k = 3 * i - 1
      BY <1>3, <1>10 DEF Lists
    <2>2. E[Len(D) + i] = E[j] /\ Len(D) + i \in 1 .. Len(E) /\ j \in 1 .. Len(E)
      <3>1. E[j] = waiting[p][i]
        BY <1>3, <1>10, <2>1 DEF Lists
      <3> QED BY <1>1, <3>1 DEF E
    <2>3. j = Len(D) + i
      BY <1>2, <2>2
    <2> QED BY <1>10, <2>1, <2>3
  <1> QED BY <1>6, <1>7, <1>8, <1>9, <1>10 DEF D, E, N, w

LEMMA StampsWelcome ==
    ASSUME NEW p \in Old, Ordered(p), Counting', plan' = plan, NEW s \in Site,
           NEW old \in [ToSet(waiting[p]) -> Uncopied(p)], Welcoming(s, p, old)
    PROVE  Stamps'
  <1> DEFINE g == Greetings(p)
  <1>1. /\ Calmly /\ Stamps /\ link[s][p] # <<>> /\ p \in Site
        /\ Travelling' \subseteq Travelling \cup Wrote(p, g)
        /\ sent' = [sent EXCEPT ![p] = @ + Len(g)]
        /\ FirstOf(s, p) \in Travelling
        /\ Takes(s, p, tee[p] \cup ToSet(waiting[p]), Says(s, p, g), old)
    BY WelcomeFacts
  <1>2. Len(g) \in Nat
    BY <1>1, WelcomeLetters, LenProperties
  <1>3. \A k \in 1 .. Len(g) : Stamped(p, g)[k].id = <<p, sent[p] + k>> /\ Stamped(p, g)[k].sender = p
    BY <1>1, WelcomeNews
  <1>4. ASSUME NEW b \in Site, NEW id \in seen'[b]
        PROVE  id \in seen[b] \/ \E m \in Travelling : m.id = id
    <2>1. seen' = [seen EXCEPT ![p] = @ \cup {FirstOf(s, p).id}] /\ seen \in [Site -> SUBSET Ids]
      BY <1>1, PeerFacts DEF Takes
    <2>2. id \in seen[b] \/ id = FirstOf(s, p).id
      BY <2>1, <1>4
    <2> QED BY <1>1, <2>2
  <1> HIDE DEF g
  <1> QED BY <1>1, <1>2, <1>3, <1>4, StampsStep

(* The new news come after the old ones, and in the order of the           *)
(* directory.                                                              *)
LEMMA NewsWelcome ==
    ASSUME NEW p \in Old, Ordered(p), Counting', plan' = plan, NEW s \in Site,
           NEW old \in [ToSet(waiting[p]) -> Uncopied(p)], Welcoming(s, p, old)
    PROVE  NewsOK(p)'
  <1> DEFINE D == directory[p]
             E == directory'[p]
             L == Len(D)
             N == Invites(p)
             g == Greetings(p)
             w == Stamped(p, g)
  <1>1. /\ Calmly /\ Stamps /\ link[s][p] # <<>> /\ p \in Site
        /\ Travelling' \subseteq Travelling \cup Wrote(p, g)
        /\ L \in Nat /\ N \in Nat /\ First \in Nat /\ First <= L /\ Len(E) = L + N
        /\ \A h \in 1 .. L : E[h] = D[h]
        /\ \A i \in 1 .. N : E[L + i] = waiting[p][i]
        /\ \A j \in 0 .. L : SubSeq(E, 1, j) = SubSeq(D, 1, j)
        /\ \A i \in 1 .. N : SubSeq(E, 1, L + i) = ListWith(p, i)
    BY WelcomeFacts
  <1>2. /\ \A i \in 1 .. N :
              /\ w[3 * i - 1].id = <<p, sent[p] + (3 * i - 1)>> /\ w[3 * i].id = <<p, sent[p] + 3 * i>>
              /\ Lists(w[3 * i - 1], waiting[p][i]) /\ w[3 * i - 1].body.list = ListWith(p, i)
              /\ Adds(w[3 * i], waiting[p][i]) /\ w[3 * i].dest = BROADCAST
        /\ \A k \in 1 .. Len(g) :
              /\ w[k].sender = p
              /\ w[k].body.action = "UPDATE_LISTE" => \E i \in 1 .. N : k = 3 * i - 1
              /\ w[k].body.action = "ADD_USER_CONFIRM" => \E i \in 1 .. N : k = 3 * i
    BY <1>1, WelcomeNews
  <1>3. /\ \A o \in Travelling : IsNews(o) => o.sender = p
        /\ \A o \in Travelling : o.body.action = "ADD_USER_CONFIRM" =>
              o.dest = BROADCAST /\ \E h \in First + 1 .. L : Adds(o, D[h])
        /\ \A o \in Travelling : o.body.action = "UPDATE_LISTE" =>
              \E h \in First + 1 .. L : Lists(o, D[h]) /\ o.body.list = SubSeq(D, 1, h)
        /\ \A m, o \in Travelling : \A j, k \in First + 1 .. L :
              /\ Adds(m, D[j]) /\ Adds(o, D[k]) =>
                    (j < k => Before(m, o)) /\ (j = k => m.id = o.id)
              /\ Lists(m, D[j]) /\ Adds(o, D[k]) =>
                    (j <= k => Before(m, o)) /\ (j > k => Before(o, m))
    BY DEF Ordered, NewsOK, Joined
  <1>4. sent[p] \in Nat /\ Joined(p) = First + 1 .. L /\ Joined(p)' = First + 1 .. Len(E)
    BY <1>1, PeerFacts DEF Joined
  <1>5. \A m \in Travelling' : m \in Travelling \/ \E k \in 1 .. Len(g) : m = w[k]
    BY <1>1 DEF Wrote
  (* The places of the news in the new directory. *)
  <1>6. \A m \in Travelling' : \A j \in First + 1 .. Len(E) :
           /\ Adds(m, E[j]) =>
                 \/ j \in First + 1 .. L /\ m \in Travelling /\ Adds(m, D[j]) /\ m.id[2] <= sent[p]
                 \/ \E i \in 1 .. N : j = L + i /\ m = w[3 * i]
           /\ Lists(m, E[j]) =>
                 \/ j \in First + 1 .. L /\ m \in Travelling /\ Lists(m, D[j]) /\ m.id[2] <= sent[p]
                 \/ \E i \in 1 .. N : j = L + i /\ m = w[3 * i - 1]
    BY <1>4, NewsPlace
  <1>7. \A m \in Travelling : m.id[2] \in Nat
    BY PacketFacts DEF Travelling
  <1> HIDE DEF D, E, L, N, g, w
  <1>8. ASSUME NEW m \in Travelling', IsNews(m) PROVE m.sender = p
    BY <1>2, <1>3, <1>5, <1>8
  <1>9. ASSUME NEW m \in Travelling', m.body.action = "ADD_USER_CONFIRM"
        PROVE  m.dest = BROADCAST /\ \E j \in First + 1 .. Len(E) : Adds(m, E[j])
    <2>1. CASE m \in Travelling
      <3>1. m.dest = BROADCAST
        BY <1>3, <1>9, <2>1
      <3>2. PICK h \in First + 1 .. L : Adds(m, D[h])
        BY <1>3, <1>9, <2>1
      <3>3. h \in First + 1 .. Len(E) /\ E[h] = D[h]
        BY <1>1, <3>2
      <3> QED BY <3>1, <3>2, <3>3
    <2>2. CASE \E k \in 1 .. Len(g) : m = w[k]
      <3>1. PICK i \in 1 .. N : m = w[3 * i]
        BY <1>2, <1>9, <2>2
      <3>2. L + i \in First + 1 .. Len(E) /\ E[L + i] = waiting[p][i]
        BY <1>1, <3>1
      <3> QED BY <1>2, <3>1, <3>2
    <2> QED BY <1>5, <2>1, <2>2
  <1>10. ASSUME NEW m \in Travelling', m.body.action = "UPDATE_LISTE"
         PROVE  \E j \in First + 1 .. Len(E) : Lists(m, E[j]) /\ m.body.list = SubSeq(E, 1, j)
    <2>1. CASE m \in Travelling
      <3>1. PICK h \in First + 1 .. L : Lists(m, D[h]) /\ m.body.list = SubSeq(D, 1, h)
        BY <1>3, <1>10, <2>1
      <3>2. h \in First + 1 .. Len(E) /\ E[h] = D[h] /\ h \in 0 .. L
        BY <1>1, <3>1
      <3> QED BY <1>1, <3>1, <3>2
    <2>2. CASE \E k \in 1 .. Len(g) : m = w[k]
      <3>1. PICK i \in 1 .. N : m = w[3 * i - 1]
        BY <1>2, <1>10, <2>2
      <3>2. L + i \in First + 1 .. Len(E) /\ E[L + i] = waiting[p][i]
            /\ SubSeq(E, 1, L + i) = ListWith(p, i)
        BY <1>1, <3>1
      <3> QED BY <1>2, <3>1, <3>2
    <2> QED BY <1>5, <2>1, <2>2
  <1>11. ASSUME NEW m \in Travelling', NEW o \in Travelling',
                NEW j \in First + 1 .. Len(E), NEW k \in First + 1 .. Len(E),
                Adds(m, E[j]), Adds(o, E[k])
         PROVE  (j < k => Before(m, o)) /\ (j = k => m.id = o.id)
    <2>0. j \in Int /\ k \in Int
      BY <1>1
    <2>1. CASE j \in First + 1 .. L /\ m \in Travelling /\ Adds(m, D[j]) /\ m.id[2] <= sent[p]
      <3>1. CASE k \in First + 1 .. L /\ o \in Travelling /\ Adds(o, D[k]) /\ o.id[2] <= sent[p]
        BY <1>3, <2>1, <3>1
      <3>2. CASE \E i \in 1 .. N : k = L + i /\ o = w[3 * i]
        <4>1. PICK i \in 1 .. N : k = L + i /\ o = w[3 * i]
          BY <3>2
        <4>2. o.id[2] = sent[p] + 3 * i
          BY <1>2, <4>1
        <4>3. m.id[2] < o.id[2] /\ j # k
          BY <1>1, <1>4, <1>7, <2>1, <4>1, <4>2
        <4> QED BY <4>3 DEF Before
      <3> QED BY <1>6, <1>11, <3>1, <3>2
    <2>2. CASE \E i \in 1 .. N : j = L + i /\ m = w[3 * i]
      <3>1. PICK i \in 1 .. N : j = L + i /\ m = w[3 * i]
        BY <2>2
      <3>2. CASE k \in First + 1 .. L
        <4>1. k < j
          BY <1>1, <3>1, <3>2
        <4> QED BY <2>0, <4>1
      <3>3. CASE \E h \in 1 .. N : k = L + h /\ o = w[3 * h]
        <4>1. PICK h \in 1 .. N : k = L + h /\ o = w[3 * h]
          BY <3>3
        <4>2. m.id = <<p, sent[p] + 3 * i>> /\ o.id = <<p, sent[p] + 3 * h>>
          BY <1>2, <3>1, <4>1
        <4>3. (j < k => sent[p] + 3 * i < sent[p] + 3 * h) /\ (j = k => i = h)
          <5>1. (j < k => i < h) /\ (j = k => i = h)
            BY SMTT(30), <1>1, <3>1, <4>1
          <5>2. i \in Nat /\ h \in Nat
            BY <1>1, <3>1, <4>1
          <5> QED BY <1>4, <5>1, <5>2
        <4> QED BY <4>2, <4>3 DEF Before
      <3> QED BY <1>6, <1>11, <3>2, <3>3
    <2> QED BY <1>6, <1>11, <2>1, <2>2
  <1>12. ASSUME NEW m \in Travelling', NEW o \in Travelling',
                NEW j \in First + 1 .. Len(E), NEW k \in First + 1 .. Len(E),
                Lists(m, E[j]), Adds(o, E[k])
         PROVE  (j <= k => Before(m, o)) /\ (j > k => Before(o, m))
    <2>0. j \in Int /\ k \in Int
      BY <1>1
    <2>1. CASE j \in First + 1 .. L /\ m \in Travelling /\ Lists(m, D[j]) /\ m.id[2] <= sent[p]
      <3>1. CASE k \in First + 1 .. L /\ o \in Travelling /\ Adds(o, D[k]) /\ o.id[2] <= sent[p]
        BY <1>3, <2>1, <3>1
      <3>2. CASE \E i \in 1 .. N : k = L + i /\ o = w[3 * i]
        <4>1. PICK i \in 1 .. N : k = L + i /\ o = w[3 * i]
          BY <3>2
        <4>2. o.id[2] = sent[p] + 3 * i
          BY <1>2, <4>1
        <4>3. m.id[2] < o.id[2] /\ ~(j > k)
          BY <1>1, <1>4, <1>7, <2>1, <4>1, <4>2
        <4> QED BY <4>3 DEF Before
      <3> QED BY <1>6, <1>12, <3>1, <3>2
    <2>2. CASE \E i \in 1 .. N : j = L + i /\ m = w[3 * i - 1]
      <3>1. PICK i \in 1 .. N : j = L + i /\ m = w[3 * i - 1]
        BY <2>2
      <3>4. m.id[2] = sent[p] + (3 * i - 1)
        BY <1>2, <3>1
      <3>2. CASE k \in First + 1 .. L /\ o \in Travelling /\ o.id[2] <= sent[p]
        <4>1. ~(j <= k) /\ o.id[2] < m.id[2]
          BY <1>1, <1>4, <1>7, <3>1, <3>2, <3>4
        <4> QED BY <4>1 DEF Before
      <3>3. CASE \E h \in 1 .. N : k = L + h /\ o = w[3 * h]
        <4>1. PICK h \in 1 .. N : k = L + h /\ o = w[3 * h]
          BY <3>3
        <4>2. o.id[2] = sent[p] + 3 * h
          BY <1>2, <4>1
        <4>3. /\ j <= k => sent[p] + (3 * i - 1) < sent[p] + 3 * h
              /\ j > k => sent[p] + 3 * h < sent[p] + (3 * i - 1)
          <5>1. (j <= k => i <= h) /\ (j > k => h + 1 <= i)
            BY <1>1, <3>1, <4>1
          <5>2. i \in Nat /\ h \in Nat
            BY <1>1, <3>1, <4>1
          <5> QED BY <1>4, <5>1, <5>2
        <4> QED BY <3>4, <4>2, <4>3 DEF Before
      <3> QED BY <1>6, <1>12, <3>2, <3>3
    <2> QED BY <1>6, <1>12, <2>1, <2>2
  <1> QED BY <1>4, <1>8, <1>9, <1>10, <1>11, <1>12 DEF NewsOK, E

(* News that was on its way before that step.                              *)
LEMMA EarlierNews ==
    ASSUME NEW p \in Old, Ordered(p), Counting', plan' = plan, NEW s \in Site,
           NEW old \in [ToSet(waiting[p]) -> Uncopied(p)], Welcoming(s, p, old),
           NEW m \in Travelling, NEW j \in First + 1 .. Len(directory'[p]),
           Adds(m, directory'[p][j])
    PROVE  j \in First + 1 .. Len(directory[p]) /\ Adds(m, directory[p][j])
  <1> DEFINE D == directory[p]
             E == directory'[p]
  <1>1. /\ Len(D) \in Nat /\ Invites(p) \in Nat /\ First \in Nat
        /\ Len(E) = Len(D) + Invites(p)
        /\ \A h \in 1 .. Len(D) : E[h] = D[h]
    BY WelcomeFacts
  <1>2. \A h, k \in 1 .. Len(E) : E[h] = E[k] => h = k
    BY RollWelcome DEF RollOK
  <1>3. PICK h \in First + 1 .. Len(D) : Adds(m, D[h])
    BY DEF Ordered, NewsOK, Joined, Adds
  <1> HIDE DEF D, E
  <1>4. E[h] = E[j] /\ h \in 1 .. Len(E) /\ j \in 1 .. Len(E)
    BY <1>1, <1>3 DEF Adds, E
  <1>5. h = j
    BY <1>2, <1>4
  <1> QED BY <1>3, <1>5 DEF D

(* What p writes for a reader then: the news of the e-th newcomer have     *)
(* their place behind what was there.                                      *)
LEMMA WelcomeOn ==
    ASSUME NEW p \in Old, Ordered(p), Counting', plan' = plan, NEW s \in Site,
           NEW old \in [ToSet(waiting[p]) -> Uncopied(p)], Welcoming(s, p, old),
           NEW v \in tee[p] \cup ToSet(waiting[p])
    PROVE  LET L == Len(directory[p])
               at == Len(Base(p, v, old)) + Lead(s, p)
           IN
           /\ Len(Base(p, v, old)) \in Nat /\ Lead(s, p) \in {0, 1} /\ Len(link'[p][v]) \in Nat
           /\ Len(Base(p, v, old)) <= Len(link'[p][v])
           /\ \A i \in 1 .. Len(Base(p, v, old)) :
                 link'[p][v][i] = Base(p, v, old)[i] /\ link'[p][v][i] \in Travelling
           /\ \A e \in 1 .. Invites(p) :
                 /\ at + 3 * e \in 1 .. Len(link'[p][v])
                 /\ Adds(link'[p][v][at + 3 * e], directory'[p][L + e])
                 /\ at + (3 * e - 1) \in 1 .. Len(link'[p][v])
                 /\ Lists(link'[p][v][at + (3 * e - 1)], directory'[p][L + e])
           /\ \A i \in 1 .. Len(link'[p][v]) : i > Len(Base(p, v, old)) =>
                 /\ \A j \in First + 1 .. Len(directory'[p]) :
                       Adds(link'[p][v][i], directory'[p][j]) =>
                          \E e \in 1 .. Invites(p) : j = L + e /\ i = at + 3 * e
                 /\ \A n : Lists(link'[p][v][i], n) =>
                       \E e \in 1 .. Invites(p) : n = directory'[p][L + e] /\ i = at + (3 * e - 1)
  <1> DEFINE D == directory[p]
             E == directory'[p]
             L == Len(D)
             N == Invites(p)
             B == Base(p, v, old)
             g == Greetings(p)
             w == Stamped(p, g)
             x == Lead(s, p)
             K == link'[p][v]
  <1>1. /\ Calmly /\ link[s][p] # <<>> /\ p \in Site
        /\ Takes(s, p, tee[p] \cup ToSet(waiting[p]), Says(s, p, g), old)
        /\ ~IsNews(FirstOf(s, p))
        /\ L \in Nat /\ N \in Nat /\ First \in Nat /\ Len(E) = L + N
        /\ \A i \in 1 .. N : E[L + i] = waiting[p][i]
    BY WelcomeFacts
  <1>2. \A h, k \in 1 .. Len(E) : E[h] = E[k] => h = k
    BY RollWelcome DEF RollOK
  <1>3. /\ \A i \in 1 .. N : /\ Lists(w[3 * i - 1], waiting[p][i])
                             /\ Adds(w[3 * i], waiting[p][i])
        /\ \A k \in 1 .. Len(g) :
              /\ w[k].body.action = "UPDATE_LISTE" => \E i \in 1 .. N : k = 3 * i - 1
              /\ w[k].body.action = "ADD_USER_CONFIRM" => \E i \in 1 .. N : k = 3 * i
    BY <1>1, WelcomeNews
  <1>4. /\ g \in Seq(JoinSends(p)) /\ Len(g) = 3 * N + 1
        /\ \A i \in 1 .. N : 3 * i - 1 \in 1 .. Len(g) /\ 3 * i \in 1 .. Len(g)
    BY <1>1, WelcomeLetters
  <1> HIDE DEF g
  <1>5. /\ Len(B) \in Nat /\ x \in {0, 1}
        /\ \A i \in 1 .. Len(B) : B[i] \in Travelling
        /\ Len(K) = Len(B) + x + Len(g)
        /\ \A i \in 1 .. Len(B) : K[i] = B[i]
    BY <1>1, <1>4, WrittenOn
  <1>6. \A k \in 1 .. Len(g) : K[Len(B) + x + k] = w[k]
    BY <1>1, <1>4, WrittenOn
  <1>7. \A i \in 1 .. Len(K) : i > Len(B) =>
           \/ K[i] = FirstOf(s, p)
           \/ i - (Len(B) + x) \in 1 .. Len(g) /\ K[i] = w[i - (Len(B) + x)]
    BY <1>1, <1>4, WrittenOn
  <1> HIDE DEF D, E, L, N, B, w, x, K
  <1>8. Len(K) \in Nat /\ Len(B) <= Len(K)
    BY <1>1, <1>4, <1>5
  <1>9. ASSUME NEW e \in 1 .. N
        PROVE  /\ Len(B) + x + 3 * e \in 1 .. Len(K)
               /\ Adds(K[Len(B) + x + 3 * e], E[L + e])
               /\ Len(B) + x + (3 * e - 1) \in 1 .. Len(K)
               /\ Lists(K[Len(B) + x + (3 * e - 1)], E[L + e])
    <2>1. 3 * e - 1 \in 1 .. Len(g) /\ 3 * e \in 1 .. Len(g)
      BY <1>4
    <2>2. K[Len(B) + x + 3 * e] = w[3 * e] /\ K[Len(B) + x + (3 * e - 1)] = w[3 * e - 1]
      BY <1>6, <2>1
    <2>3. E[L + e] = waiting[p][e]
      BY <1>1
    <2>4. Adds(w[3 * e], waiting[p][e]) /\ Lists(w[3 * e - 1], waiting[p][e])
      BY <1>3
    <2>5. \A k \in 1 .. Len(g) : Len(B) + x + k \in 1 .. Len(K)
      BY <1>1, <1>4, <1>5
    <2> QED BY <2>1, <2>2, <2>3, <2>4, <2>5
  <1>10. ASSUME NEW i \in 1 .. Len(K), i > Len(B), NEW j \in First + 1 .. Len(E), Adds(K[i], E[j])
         PROVE  \E e \in 1 .. N : j = L + e /\ i = Len(B) + x + 3 * e
    <2>1. i - (Len(B) + x) \in 1 .. Len(g) /\ K[i] = w[i - (Len(B) + x)]
      BY <1>1, <1>7, <1>10 DEF Adds, IsNews
    <2>2. PICK e \in 1 .. N : i - (Len(B) + x) = 3 * e
      BY <1>3, <1>10, <2>1 DEF Adds
    <2>3. E[j] = E[L + e]
      BY SMTT(30), <1>1, <1>3, <1>10, <2>1, <2>2 DEF Adds
    <2>4. j \in 1 .. Len(E) /\ L + e \in 1 .. Len(E)
      BY <1>1
    <2>5. j = L + e
      BY <1>2, <2>3, <2>4
    <2>6. i = Len(B) + x + 3 * e
      BY <1>1, <1>5, <1>8, <2>2
    <2> QED BY <2>5, <2>6
  <1>11. ASSUME NEW i \in 1 .. Len(K), i > Len(B), NEW n, Lists(K[i], n)
         PROVE  \E e \in 1 .. N : n = E[L + e] /\ i = Len(B) + x + (3 * e - 1)
    <2>1. i - (Len(B) + x) \in 1 .. Len(g) /\ K[i] = w[i - (Len(B) + x)]
      BY <1>1, <1>7, <1>11 DEF Lists, IsNews
    <2>2. PICK e \in 1 .. N : i - (Len(B) + x) = 3 * e - 1
      BY <1>3, <1>11, <2>1 DEF Lists
    <2>3. n = E[L + e]
      BY ZenonT(30), <1>1, <1>3, <1>11, <2>1, <2>2 DEF Lists
    <2>6. i = Len(B) + x + (3 * e - 1)
      BY <1>1, <1>5, <1>8, <2>2
    <2> QED BY <2>3, <2>6
  <1> QED BY <1>5, <1>8, <1>9, <1>10, <1>11 DEF D, E, L, N, B, x, K

(* Each newcomer stands for three letters: the place of an earlier one.    *)
LEMMA ThirdPlaces ==
    ASSUME NEW x \in Nat, NEW y \in Nat, NEW z \in Nat, 1 <= y, y < z
    PROVE  x + 3 * y \in 1 .. (x + 3 * z) - 1
  OBVIOUS

(* The first sites have the news of that step to come.                     *)
LEMMA OldWelcome ==
    ASSUME NEW p \in Old, Ordered(p), Counting', plan' = plan, NEW s \in Site,
           NEW old \in [ToSet(waiting[p]) -> Uncopied(p)], Welcoming(s, p, old)
    PROVE  OldOK(p)'
  <1> DEFINE D == directory[p]
             E == directory'[p]
             L == Len(D)
             N == Invites(p)
             W == ToSet(waiting[p])
  <1>1. /\ Calmly /\ Calmly' /\ Stamps /\ p \in Site /\ s # p
        /\ Takes(s, p, tee[p] \cup W, Says(s, p, Greetings(p)), old)
        /\ L \in Nat /\ N \in Nat /\ First \in Nat /\ First <= L /\ Len(E) = L + N
        /\ \A h \in 1 .. L : E[h] = D[h]
        /\ \A j \in 0 .. L : SubSeq(E, 1, j) = SubSeq(D, 1, j)
        /\ \A b \in Site : b # p => directory'[b] = directory[b] /\ seen'[b] = seen[b]
        /\ \A i \in 1 .. N : waiting[p][i] \in Newcomer
        /\ W = {waiting[p][i] : i \in 1 .. N}
        /\ \A r \in Site : tee'[r] = IF r = p THEN tee[p] \cup W
                                     ELSE IF r \in W THEN tee[r] \cup {p} ELSE tee[r]
    BY ZenonT(30), WelcomeFacts
  <1>2. /\ \A a \in Site : Len(directory[a]) \in Nat
        /\ p \notin Newcomer /\ sent \in [Site -> Nat] /\ tee[p] \in SUBSET Site
        /\ Newcomer \subseteq Site
    BY <1>1, PeerFacts
  <1> HIDE DEF D, E, L, N, W
  <1> SUFFICES ASSUME NEW b \in Old \ {p}
               PROVE  /\ First <= Len(directory'[b]) /\ Len(directory'[b]) <= Len(E)
                      /\ directory'[b] = SubSeq(E, 1, Len(directory'[b]))
                      /\ \A m \in Travelling' : \A j \in First + 1 .. Len(E) : Adds(m, E[j]) =>
                            (m.id \in seen'[b] <=> j <= Len(directory'[b]))
                      /\ \A a \in Site : Behind(p, a, b)'
                      /\ \A a \in Old : b \in tee'[a] => PassedOn(p, a, b)'
    BY DEF OldOK, Joined, E
  <1>3. b \in Site /\ b # p /\ b \notin W /\ directory'[b] = directory[b] /\ seen'[b] = seen[b]
    BY <1>1 DEF Old
  <1>4. /\ First <= Len(directory[b]) /\ Len(directory[b]) <= L
        /\ directory[b] = SubSeq(D, 1, Len(directory[b]))
        /\ \A m \in Travelling : \A j \in First + 1 .. L : Adds(m, D[j]) =>
              (m.id \in seen[b] <=> j <= Len(directory[b]))
        /\ \A a \in Site : Behind(p, a, b)
        /\ \A a \in Old : b \in tee[a] => PassedOn(p, a, b)
    BY DEF Ordered, OldOK, Joined, D, L
  <1>5. Len(directory[b]) \in Nat
    BY <1>2, <1>3
  <1>6. /\ First <= Len(directory'[b]) /\ Len(directory'[b]) <= Len(E)
        /\ directory'[b] = SubSeq(E, 1, Len(directory'[b]))
    BY <1>1, <1>3, <1>4, <1>5
  <1>7. ASSUME NEW m \in Travelling', NEW j \in First + 1 .. Len(E), Adds(m, E[j])
        PROVE  m.id \in seen'[b] <=> j <= Len(directory'[b])
    <2>1. \/ j \in First + 1 .. L /\ m \in Travelling /\ Adds(m, D[j])
          \/ \E i \in 1 .. N : j = L + i /\ m = Stamped(p, Greetings(p))[3 * i]
      <3>1. j \in First + 1 .. Len(directory'[p]) /\ Adds(m, directory'[p][j])
        BY <1>7 DEF E
      <3>2. \/ j \in Joined(p) /\ m \in Travelling /\ Adds(m, directory[p][j])
            \/ \E i \in 1 .. Invites(p) : j = Len(directory[p]) + i
                                          /\ m = Stamped(p, Greetings(p))[3 * i]
        BY <3>1, NewsPlace
      <3> QED BY <3>2 DEF Joined, D, L, N
    <2>2. CASE j \in First + 1 .. L /\ m \in Travelling /\ Adds(m, D[j])
      BY <1>3, <1>4, <2>2
    <2>3. CASE \E i \in 1 .. N : j = L + i /\ m = Stamped(p, Greetings(p))[3 * i]
      <3>1. PICK i \in 1 .. N : j = L + i /\ m = Stamped(p, Greetings(p))[3 * i]
        BY <2>3
      <3>2. m.id = <<p, sent[p] + 3 * i>>
        <4>1. link[s][p] # <<>> /\ i \in 1 .. Invites(p)
          BY <1>1 DEF Takes, N
        <4> QED BY <1>1, <3>1, <4>1, WelcomeNews
      <3>3. m.id \notin seen[b]
        <4>1. m.id \in seen[b] => m.id[2] <= sent[m.id[1]]
          BY <1>1, <1>3 DEF Stamps
        <4>2. ~(sent[p] + 3 * i <= sent[p])
          BY <1>1, <1>2
        <4> QED BY <3>2, <4>1, <4>2
      <3>4. ~(j <= Len(directory[b]))
        BY <1>1, <1>4, <1>5, <3>1
      <3> QED BY <1>3, <3>3, <3>4
    <2> QED BY <2>1, <2>2, <2>3
  <1>8. ASSUME NEW a \in Site, ~(a = p /\ b \in tee[p])
        PROVE  link'[a][b] = link[a][b]
    BY <1>1, <1>3, <1>8 DEF Takes
  (* What was there has the names that were there. *)
  <1>9. ASSUME NEW a \in Site, NEW i \in Places(a, b), NEW j \in First + 1 .. Len(E),
               Adds(link[a][b][i], E[j])
        PROVE  j \in First + 1 .. L /\ Adds(link[a][b][i], D[j])
    <2>1. link[a][b][i] \in Travelling
      BY <1>1, <1>3, OnLinkTravels
    <2>2. PICK m \in Travelling : m = link[a][b][i]
      BY <2>1
    <2>3. j \in First + 1 .. Len(directory'[p]) /\ Adds(m, directory'[p][j])
      BY <1>9, <2>2 DEF E
    <2>4. j \in First + 1 .. Len(directory[p]) /\ Adds(m, directory[p][j])
      BY <2>3, EarlierNews
    <2> QED BY <2>2, <2>4 DEF D, L
  <1>10. ASSUME NEW a \in Site, NEW i \in Places(a, b), NEW j \in First + 1 .. Len(E),
                Adds(link[a][b][i], E[j]), NEW k \in First + 1 .. j - 1
         PROVE  /\ k \in 1 .. L /\ E[k] = D[k]
                /\ k <= Len(directory[b]) \/ \E h \in 1 .. i - 1 : Adds(link[a][b][h], D[k])
    <2>1. j \in First + 1 .. L /\ Adds(link[a][b][i], D[j])
      BY <1>9, <1>10
    <2>2. Behind(p, a, b)
      BY <1>4
    <2>3. \/ k <= Len(directory[b])
          \/ \E h \in 1 .. i - 1 : Adds(link[a][b][h], D[k])
      BY <2>1, <2>2 DEF Behind, Joined, D, L
    <2>4. k \in 1 .. L
      BY <1>1, <2>1
    <2> QED BY <1>1, <2>3, <2>4
  <1>11. ASSUME b \in tee[p]
         PROVE  LET B == link[p][b]
                    at == Len(B) + Lead(s, p)
                    K == link'[p][b]
                IN
                /\ Len(B) \in Nat /\ Lead(s, p) \in {0, 1} /\ Len(K) \in Nat /\ Len(B) <= Len(K)
                /\ \A i \in 1 .. Len(B) : K[i] = B[i]
                /\ \A e \in 1 .. N : /\ at + 3 * e \in 1 .. Len(K)
                                     /\ Adds(K[at + 3 * e], E[L + e])
                /\ \A i \in 1 .. Len(K) : i > Len(B) =>
                      \A j \in First + 1 .. Len(E) : Adds(K[i], E[j]) =>
                          \E e \in 1 .. N : j = L + e /\ i = at + 3 * e
    <2>1. b \in tee[p] \cup ToSet(waiting[p])
      BY <1>11
    <2> DEFINE C == Base(p, b, old)
               at == Len(C) + Lead(s, p)
               K == link'[p][b]
    <2>2. C = link[p][b]
      BY <1>11 DEF Base
    <2>3. /\ Len(C) \in Nat /\ Lead(s, p) \in {0, 1} /\ Len(K) \in Nat /\ Len(C) <= Len(K)
          /\ \A i \in 1 .. Len(C) : K[i] = C[i]
          /\ \A e \in 1 .. Invites(p) :
                /\ at + 3 * e \in 1 .. Len(K)
                /\ Adds(K[at + 3 * e], directory'[p][Len(directory[p]) + e])
          /\ \A i \in 1 .. Len(K) : i > Len(C) =>
                \A j \in First + 1 .. Len(directory'[p]) : Adds(K[i], directory'[p][j]) =>
                    \E e \in 1 .. Invites(p) : j = Len(directory[p]) + e /\ i = at + 3 * e
      BY <2>1, WelcomeOn
    <2> HIDE DEF C
    <2>4. /\ Len(C) \in Nat /\ Lead(s, p) \in {0, 1} /\ Len(K) \in Nat /\ Len(C) <= Len(K)
          /\ \A i \in 1 .. Len(C) : K[i] = C[i]
          /\ \A e \in 1 .. N : /\ at + 3 * e \in 1 .. Len(K)
                               /\ Adds(K[at + 3 * e], E[L + e])
          /\ \A i \in 1 .. Len(K) : i > Len(C) =>
                \A j \in First + 1 .. Len(E) : Adds(K[i], E[j]) =>
                    \E e \in 1 .. N : j = L + e /\ i = at + 3 * e
      BY <2>3 DEF E, D, L, N
    <2> HIDE DEF K
    <2> QED BY <2>2, <2>4 DEF K
  <1>12. ASSUME NEW a \in Site PROVE Behind(p, a, b)'
    <2> SUFFICES ASSUME NEW i \in 1 .. Len(link'[a][b]), NEW j \in First + 1 .. Len(E),
                        Adds(link'[a][b][i], E[j]), NEW k \in First + 1 .. j - 1
                 PROVE  \/ k <= Len(directory[b])
                        \/ \E h \in 1 .. i - 1 : Adds(link'[a][b][h], E[k])
      BY <1>3 DEF Behind, Joined, Places, E
    <2>1. CASE ~(a = p /\ b \in tee[p])
      <3>1. link'[a][b] = link[a][b]
        BY <1>8, <2>1
      <3>2. i \in Places(a, b) /\ Adds(link[a][b][i], E[j])
        BY <3>1 DEF Places
      <3> QED BY <1>10, <3>1, <3>2
    <2>2. CASE a = p /\ b \in tee[p]
      <3> DEFINE B == link[p][b]
                 at == Len(B) + Lead(s, p)
                 K == link'[p][b]
      <3>1. /\ Len(B) \in Nat /\ Lead(s, p) \in {0, 1} /\ Len(K) \in Nat /\ Len(B) <= Len(K)
            /\ \A h \in 1 .. Len(B) : K[h] = B[h]
            /\ \A e \in 1 .. N : /\ at + 3 * e \in 1 .. Len(K)
                                 /\ Adds(K[at + 3 * e], E[L + e])
            /\ \A h \in 1 .. Len(K) : h > Len(B) =>
                  \A o \in First + 1 .. Len(E) : Adds(K[h], E[o]) =>
                      \E e \in 1 .. N : o = L + e /\ h = at + 3 * e
        BY <1>11, <2>2
      <3>2. i \in 1 .. Len(K) /\ Adds(K[i], E[j])
        BY <2>2
      <3>3. ASSUME i <= Len(B)
            PROVE  k <= Len(directory[b]) \/ \E h \in 1 .. i - 1 : Adds(K[h], E[k])
        <4>1. i \in Places(p, b) /\ Adds(link[p][b][i], E[j])
          BY <3>1, <3>2, <3>3 DEF Places
        <4>2. /\ E[k] = D[k]
              /\ k <= Len(directory[b]) \/ \E h \in 1 .. i - 1 : Adds(link[p][b][h], D[k])
          <5>1. p \in Site
            BY <1>1
          <5> HIDE DEF D, E, B, K
          <5> QED BY <1>10, <4>1, <5>1
        <4>3. \A h \in 1 .. i - 1 : K[h] = B[h]
          BY <3>1, <3>3
        <4> QED BY <4>2, <4>3
      <3>4. ASSUME i > Len(B)
            PROVE  k <= Len(directory[b]) \/ \E h \in 1 .. i - 1 : Adds(K[h], E[k])
        <4>1. PICK e \in 1 .. N : j = L + e /\ i = at + 3 * e
          BY <3>1, <3>2, <3>4
        <4>2. CASE k <= L
          <5>1. k \in First + 1 .. L /\ E[k] = D[k]
            BY <1>1, <4>2
          <5>2. PassedOn(p, p, b)
            BY <1>4, <2>2
          <5>3. k <= Len(directory[b]) \/ AddOnLink(p, b, D[k])
            BY <5>1, <5>2 DEF PassedOn, Joined, D, L
          <5>4. AddOnLink(p, b, D[k]) => \E h \in 1 .. Len(B) : Adds(B[h], D[k])
            BY DEF AddOnLink, Places
          <5>5. \A h \in 1 .. Len(B) : h \in 1 .. i - 1 /\ K[h] = B[h]
            BY <3>1, <3>4
          <5> QED BY <5>1, <5>3, <5>4, <5>5
        <4>3. CASE k > L
          <5> DEFINE h == k - L
          <5>1. h \in 1 .. N /\ k = L + h /\ h < e
            BY <1>1, <4>1, <4>3
          <5>2. at + 3 * h \in 1 .. Len(K) /\ Adds(K[at + 3 * h], E[k])
            BY <3>1, <5>1
          <5>3. at + 3 * h \in 1 .. i - 1
            <6>1. at \in Nat /\ h \in Nat /\ e \in Nat /\ h >= 1
              BY <1>1, <3>1, <5>1
            <6>2. h < e /\ i = at + 3 * e
              BY <4>1, <5>1
            <6> HIDE DEF at, h
            <6> QED BY <6>1, <6>2, ThirdPlaces
          <5> QED BY <5>2, <5>3
        <4>4. k <= L \/ k > L
          BY <1>1
        <4> QED BY <4>2, <4>3, <4>4
      <3>5. i <= Len(B) \/ i > Len(B)
        BY <3>1
      <3> QED BY <2>2, <3>3, <3>4, <3>5
    <2> QED BY <2>1, <2>2
  <1>13. ASSUME NEW a \in Old, b \in tee'[a] PROVE PassedOn(p, a, b)'
    <2>0. a \in Site /\ a \notin Newcomer /\ a \notin W
      BY <1>1 DEF Old
    <2>1. CASE a # p
      <3>1. b \in tee[a] /\ link'[a][b] = link[a][b] /\ directory'[a] = directory[a]
        BY <1>1, <1>8, <1>13, <2>0, <2>1
      <3>2. PassedOn(p, a, b) /\ a \in Old \ {p}
        BY <1>4, <2>1, <3>1
      <3>3. Len(directory[a]) <= L /\ Len(directory[a]) \in Nat
        BY <1>2, <2>0, <3>2 DEF Ordered, OldOK, L, D
      <3>4. \A j \in First + 1 .. Len(directory[a]) : E[j] = D[j]
        BY <1>1, <3>3
      <3>5. \A j \in First + 1 .. Len(directory[a]) :
               j <= Len(directory[b]) \/ \E i \in 1 .. Len(link[a][b]) : Adds(link[a][b][i], D[j])
        BY <3>2 DEF PassedOn, AddOnLink, Joined, Places, D
      <3>6. \A j \in First + 1 .. Len(directory[a]) :
               j <= Len(directory[b]) \/ \E i \in 1 .. Len(link[a][b]) : Adds(link[a][b][i], E[j])
        BY <3>4, <3>5
      <3> QED BY <1>3, <3>1, <3>6 DEF PassedOn, AddOnLink, Joined, Places, E
    <2>2. CASE a = p
      <3>1. b \in tee[p]
        BY <1>1, <1>3, <1>13, <2>2
      <3> DEFINE B == link[p][b]
                 at == Len(B) + Lead(s, p)
                 K == link'[p][b]
      <3>2. /\ Len(B) \in Nat /\ Len(K) \in Nat /\ Len(B) <= Len(K)
            /\ \A h \in 1 .. Len(B) : K[h] = B[h]
            /\ \A e \in 1 .. N : /\ at + 3 * e \in 1 .. Len(K)
                                 /\ Adds(K[at + 3 * e], E[L + e])
        BY <1>11, <3>1
      <3>3. PassedOn(p, p, b)
        BY <1>4, <3>1
      <3>4. ASSUME NEW j \in First + 1 .. Len(E)
            PROVE  j <= Len(directory[b]) \/ \E i \in 1 .. Len(K) : Adds(K[i], E[j])
        <4>1. CASE j <= L
          <5>1. j \in First + 1 .. L /\ E[j] = D[j]
            BY <1>1, <4>1
          <5>2. j <= Len(directory[b]) \/ \E i \in 1 .. Len(B) : Adds(B[i], D[j])
            BY <3>3, <5>1 DEF PassedOn, AddOnLink, Joined, Places, D, L
          <5>3. \A i \in 1 .. Len(B) : i \in 1 .. Len(K) /\ K[i] = B[i]
            BY <3>2
          <5> QED BY <5>1, <5>2, <5>3
        <4>2. CASE j > L
          <5> DEFINE e == j - L
          <5>1. e \in 1 .. N /\ j = L + e
            BY <1>1, <4>2
          <5>2. at + 3 * e \in 1 .. Len(K) /\ Adds(K[at + 3 * e], E[j])
            BY <3>2, <5>1
          <5> QED BY <5>2
        <4>3. j <= L \/ j > L
          BY <1>1
        <4> QED BY <4>1, <4>2, <4>3
      <3>5. \A j \in First + 1 .. Len(directory'[p]) :
               j <= Len(directory'[b]) \/ \E i \in 1 .. Len(link'[p][b]) : Adds(link'[p][b][i], directory'[p][j])
        BY <1>3, <3>4 DEF E
      <3> QED BY <2>2, <3>5 DEF PassedOn, AddOnLink, Joined, Places
    <2> QED BY <2>1, <2>2
  <1> QED BY <1>3, <1>6, <1>7, <1>12, <1>13

(* What p has on its links stays in the order it was written, and a        *)
(* newcomer has seen nothing of it.                                        *)
LEMMA UprightWelcome ==
    ASSUME NEW p \in Old, Ordered(p), Counting', plan' = plan, NEW s \in Site,
           NEW old \in [ToSet(waiting[p]) -> Uncopied(p)], Welcoming(s, p, old)
    PROVE  (\A v \in Site : Upright(p, v)') /\ (\A n \in Newcomer : Unseen(p, n)')
  <1> DEFINE W == ToSet(waiting[p])
             R == tee[p] \cup W
             g == Greetings(p)
  <1>1. /\ Calmly /\ Stamps /\ p \in Site /\ s # p
        /\ Takes(s, p, R, Says(s, p, g), old)
        /\ \A b \in Site : b # p => seen'[b] = seen[b]
        /\ \A i \in 1 .. Invites(p) : waiting[p][i] \in Newcomer /\ tee[waiting[p][i]] = {}
        /\ W = {waiting[p][i] : i \in 1 .. Invites(p)}
        /\ \A r \in Site : tee'[r] = IF r = p THEN tee[p] \cup W
                                     ELSE IF r \in W THEN tee[r] \cup {p} ELSE tee[r]
    BY ZenonT(30), WelcomeFacts
  <1>2. g \in Seq(JoinSends(p))
    BY <1>1, WelcomeLetters
  <1>3. /\ p \notin Newcomer /\ Newcomer \subseteq Site
        /\ tee[p] \in SUBSET Site
        /\ \A v \in Site : Upright(p, v)
        /\ \A n \in Newcomer : Unseen(p, n)
    BY <1>1, PeerFacts DEF Ordered, NewOK
  <1>4. old \in [W -> Uncopied(p)]
    OBVIOUS
  <1> HIDE DEF W, g
  <1>5. \A w \in W : w \in Newcomer /\ tee[w] = {} /\ old[w] \in Uncopied(p)
    BY <1>1, <1>4
  <1>6. \A w \in W : w \notin tee[p]
    <2>1. \A v \in tee[p] : p \in tee[v]
      BY <1>1, <1>3 DEF Calmly, Linking
    <2> QED BY <1>5, <2>1
  <1>7. ASSUME NEW v \in Site, v \notin R PROVE link'[p][v] = link[p][v]
    BY <1>1, <1>7 DEF Takes
  <1>8. ASSUME NEW v \in R
        PROVE  \A i, k \in 1 .. Len(Base(p, v, old)) :
                  /\ i < k /\ Base(p, v, old)[i].sender = p /\ Base(p, v, old)[k].sender = p
                  => Before(Base(p, v, old)[i], Base(p, v, old)[k])
    <2>1. CASE v \in tee[p]
      <3>1. Base(p, v, old) = link[p][v] /\ Upright(p, v)
        BY <1>3, <2>1 DEF Base
      <3> QED BY <3>1 DEF Upright, Places
    <2>2. CASE v \notin tee[p]
      <3>1. Base(p, v, old) = old[v] /\ old[v] \in Uncopied(p)
        BY <1>5, <2>2 DEF Base
      <3>2. PICK q \in Uncopied(p) : q = old[v]
        BY <3>1
      <3>3. CASE q = <<>>
        BY <3>1, <3>2, <3>3
      <3>4. CASE \E r \in tee[p] : \E h \in 1 .. Len(link[p][r]) + 1 :
                    q = SubSeq(link[p][r], h, Len(link[p][r]))
        <4>1. PICK r \in tee[p] : \E h \in 1 .. Len(link[p][r]) + 1 :
                    q = SubSeq(link[p][r], h, Len(link[p][r]))
          BY <3>4
        <4>2. PICK h \in 1 .. Len(link[p][r]) + 1 : q = SubSeq(link[p][r], h, Len(link[p][r]))
          BY <4>1
        <4>3. r \in Site /\ link[p][r] \in Seq(Packet) /\ Len(link[p][r]) \in Nat /\ Upright(p, r)
          BY <1>1, <1>3 DEF Calmly, Linking, Net
        <4>4. \A i \in 1 .. Len(q) : h + i - 1 \in Places(p, r) /\ q[i] = link[p][r][h + i - 1]
          BY <4>2, <4>3 DEF Places
        <4>5. ASSUME NEW i \in 1 .. Len(q), NEW k \in 1 .. Len(q), i < k,
                     q[i].sender = p, q[k].sender = p
              PROVE  Before(q[i], q[k])
          <5>1. h + i - 1 < h + k - 1
            BY <4>3, <4>5
          <5>2. q[i] = link[p][r][h + i - 1] /\ q[k] = link[p][r][h + k - 1]
                /\ h + i - 1 \in Places(p, r) /\ h + k - 1 \in Places(p, r)
            BY <4>4
          <5> QED BY <4>3, <4>5, <5>1, <5>2 DEF Upright
        <4> QED BY <3>1, <3>2, <4>5
      <3> QED BY <1>1, <3>3, <3>4, UncopiedEnd
    <2> QED BY <2>1, <2>2
  <1>9. ASSUME NEW v \in Site PROVE Upright(p, v)'
    <2>1. CASE v \in R
      BY <1>1, <1>2, <1>8, <2>1, UprightWritten
    <2>2. CASE v \notin R
      <3>1. link'[p][v] = link[p][v] /\ Upright(p, v)
        BY <1>3, <1>7, <2>2
      <3> QED BY <3>1 DEF Upright, Places, Before
    <2> QED BY <2>1, <2>2
  <1>10. ASSUME NEW n \in Newcomer PROVE Unseen(p, n)'
    <2>1. n \in Site /\ n # p /\ seen'[n] = seen[n] /\ Unseen(p, n)
      BY <1>1, <1>3
    <2>2. tee'[n] = {} => seen'[n] = {}
      BY <1>1, <2>1 DEF Unseen
    <2>3. CASE n \in R
      <3>1. ASSUME NEW i \in 1 .. Len(Base(p, n, old)), Base(p, n, old)[i].sender = p
            PROVE  Base(p, n, old)[i].id \notin seen[n]
        <4>1. CASE n \in tee[p]
          <5>1. Base(p, n, old) = link[p][n]
            BY <4>1 DEF Base
          <5> QED BY <2>1, <3>1, <5>1 DEF Unseen, Places
        <4>2. CASE n \notin tee[p]
          <5>1. seen[n] = {}
            BY <1>5, <2>1, <2>3, <4>2 DEF Unseen
          <5> QED BY <5>1
        <4> QED BY <4>1, <4>2
      <3>2. ASSUME NEW i \in 1 .. Len(link'[p][n]), link'[p][n][i].sender = p
            PROVE  link'[p][n][i].id \notin seen'[n]
        BY <1>1, <1>2, <2>1, <2>3, <3>1, <3>2, UnseenWritten
      <3> QED BY <2>2, <3>2 DEF Unseen, Places
    <2>4. CASE n \notin R
      <3>1. link'[p][n] = link[p][n]
        BY <1>7, <2>1, <2>4
      <3> QED BY <2>1, <2>2, <3>1 DEF Unseen, Places
    <2> QED BY <2>3, <2>4
  <1> QED BY <1>9, <1>10

(* The newcomers: those who were there have the news to come, those who    *)
(* are let in their list, and the news of those who come after them.       *)
LEMMA NewWelcome ==
    ASSUME NEW p \in Old, Ordered(p), Counting', plan' = plan, NEW s \in Site,
           NEW old \in [ToSet(waiting[p]) -> Uncopied(p)], Welcoming(s, p, old)
    PROVE  NewOK(p)'
  <1> DEFINE D == directory[p]
             E == directory'[p]
             L == Len(D)
             N == Invites(p)
             W == ToSet(waiting[p])
  <1>1. /\ Calmly /\ p \in Site
        /\ L \in Nat /\ N \in Nat /\ First \in Nat /\ First <= L /\ Len(E) = L + N
        /\ \A h \in 1 .. L : E[h] = D[h]
        /\ \A i \in 1 .. N : E[L + i] = waiting[p][i] /\ waiting[p][i] \in Newcomer
        /\ \A j \in 0 .. L : SubSeq(E, 1, j) = SubSeq(D, 1, j)
        /\ \A b \in Site : b # p => directory'[b] = directory[b]
        /\ W = {waiting[p][i] : i \in 1 .. N}
    BY ZenonT(30), WelcomeFacts
  <1>2. \A h, k \in 1 .. Len(E) : E[h] = E[k] => h = k
    BY RollWelcome DEF RollOK
  <1>3. /\ p \notin Newcomer /\ Newcomer \subseteq Site
        /\ \A b \in Site : Len(directory[b]) \in Nat
        /\ \A n \in Newcomer : tee[n] # {} => n \in tee[p]
        /\ \A j \in First + 1 .. L : D[j] \in Newcomer /\ tee[D[j]] # {}
    BY PeerFacts DEF Ordered, RollOK, Joined
  <1>4. \A f \in First + 1 .. L :
           /\ Updated(p, D[f]) => UpToDate(p, f, D[f])
           /\ Coming(p, f, D[f])
    BY DEF Ordered, NewOK, Joined
  (* What is written, in the terms of the new directory. *)
  <1>5. \A v \in tee[p] \cup W :
           LET B == Base(p, v, old)
               at == Len(B) + Lead(s, p)
               K == link'[p][v]
           IN
           /\ Len(B) \in Nat /\ Len(K) \in Nat /\ Len(B) <= Len(K)
           /\ \A i \in 1 .. Len(B) : K[i] = B[i]
           /\ \A e \in 1 .. N :
                 /\ at + 3 * e \in 1 .. Len(K) /\ Adds(K[at + 3 * e], E[L + e])
                 /\ at + (3 * e - 1) \in 1 .. Len(K) /\ Lists(K[at + (3 * e - 1)], E[L + e])
           /\ \A i \in 1 .. Len(K) : i > Len(B) =>
                 /\ \A j \in First + 1 .. Len(E) : Adds(K[i], E[j]) => \E e \in 1 .. N : j = L + e
                 /\ \A n : Lists(K[i], n) => \E e \in 1 .. N : n = E[L + e]
    <2> TAKE v \in tee[p] \cup W
    <2> DEFINE B == Base(p, v, old)
               at == Len(B) + Lead(s, p)
               K == link'[p][v]
    <2>1. /\ Len(B) \in Nat /\ Len(K) \in Nat /\ Len(B) <= Len(K)
          /\ \A i \in 1 .. Len(B) : K[i] = B[i]
      BY WelcomeOn
    <2>2. \A e \in 1 .. N :
             /\ at + 3 * e \in 1 .. Len(K) /\ Adds(K[at + 3 * e], E[L + e])
             /\ at + (3 * e - 1) \in 1 .. Len(K) /\ Lists(K[at + (3 * e - 1)], E[L + e])
      BY WelcomeOn
    <2>3. \A i \in 1 .. Len(K) : i > Len(B) =>
             /\ \A j \in First + 1 .. Len(E) : Adds(K[i], E[j]) => \E e \in 1 .. N : j = L + e
             /\ \A n : Lists(K[i], n) => \E e \in 1 .. N : n = E[L + e]
      <3>1. \A i \in 1 .. Len(K) : i > Len(B) =>
               /\ \A j \in First + 1 .. Len(E) :
                     Adds(K[i], E[j]) => \E e \in 1 .. N : j = L + e /\ i = at + 3 * e
               /\ \A n : Lists(K[i], n) =>
                     \E e \in 1 .. N : n = E[L + e] /\ i = at + (3 * e - 1)
        BY WelcomeOn
      <3> HIDE DEF at, B, K, D, E, L, N
      <3>2. ASSUME NEW i \in 1 .. Len(K), i > Len(B), NEW j \in First + 1 .. Len(E), Adds(K[i], E[j])
            PROVE  \E e \in 1 .. N : j = L + e
        <4>1. \E e \in 1 .. N : j = L + e /\ i = at + 3 * e
          BY <3>1, <3>2
        <4> QED BY <4>1
      <3>3. ASSUME NEW i \in 1 .. Len(K), i > Len(B), NEW n, Lists(K[i], n)
            PROVE  \E e \in 1 .. N : n = E[L + e]
        <4>0. \A o : Lists(K[i], o) => \E e \in 1 .. N : o = E[L + e] /\ i = at + (3 * e - 1)
          BY <3>1, <3>3
        <4>1. \E e \in 1 .. N : n = E[L + e] /\ i = at + (3 * e - 1)
          BY <3>3, <4>0
        <4> QED BY <4>1
      <3> QED BY <3>2, <3>3
    <2> QED BY <2>1, <2>2, <2>3
  <1> HIDE DEF D, E, L, N, W
  <1>6. ASSUME NEW f \in First + 1 .. L, NEW n \in Newcomer, D[f] = n
        PROVE  /\ Updated(p, n)' => UpToDate(p, f, n)'
               /\ Coming(p, f, n)'
    <2> DEFINE B == link[p][n]
               at == Len(B) + Lead(s, p)
               K == link'[p][n]
    <2>1. n \in Site /\ n # p /\ n \in tee[p] /\ directory'[n] = directory[n] /\ Len(directory[n]) \in Nat
      BY <1>1, <1>3, <1>6
    <2> DEFINE C == Base(p, n, old)
               be == Len(C) + Lead(s, p)
    <2>2. C = B
      BY <2>1 DEF Base
    <2>3. /\ Len(B) \in Nat /\ Len(K) \in Nat /\ Len(B) <= Len(K)
          /\ \A i \in 1 .. Len(B) : K[i] = B[i]
          /\ \A e \in 1 .. N : at + 3 * e \in 1 .. Len(K) /\ Adds(K[at + 3 * e], E[L + e])
          /\ \A i \in 1 .. Len(K) : i > Len(B) =>
                /\ \A j \in First + 1 .. Len(E) : Adds(K[i], E[j]) => \E e \in 1 .. N : j = L + e
                /\ \A o : Lists(K[i], o) => \E e \in 1 .. N : o = E[L + e]
      <3>1. n \in tee[p] \cup W
        BY <2>1
      <3>2. /\ Len(C) \in Nat /\ Len(K) \in Nat /\ Len(C) <= Len(K)
            /\ \A i \in 1 .. Len(C) : K[i] = C[i]
            /\ \A e \in 1 .. N : be + 3 * e \in 1 .. Len(K) /\ Adds(K[be + 3 * e], E[L + e])
        BY <1>5, <3>1
      <3>3. \A i \in 1 .. Len(K) : i > Len(C) =>
               /\ \A j \in First + 1 .. Len(E) : Adds(K[i], E[j]) => \E e \in 1 .. N : j = L + e
               /\ \A o : Lists(K[i], o) => \E e \in 1 .. N : o = E[L + e]
        BY <1>5, <3>1
      <3> HIDE DEF B, C, K
      <3> QED BY <2>2, <3>2, <3>3
    <2>4. /\ Updated(p, n) => UpToDate(p, f, n)
          /\ Coming(p, f, n)
      BY <1>4, <1>6
    <2>5. Updated(p, n)' <=> Updated(p, n)
      <3>1. \A i \in 1 .. Len(K) : i > Len(B) => ~Lists(K[i], n)
        <4> SUFFICES ASSUME NEW i \in 1 .. Len(K), i > Len(B), Lists(K[i], n) PROVE FALSE
          OBVIOUS
        <4>1. PICK e \in 1 .. N : n = E[L + e]
          BY <2>3
        <4>2. E[f] = n /\ f \in 1 .. Len(E) /\ L + e \in 1 .. Len(E) /\ f # L + e
          BY <1>1, <1>6
        <4> QED BY <1>2, <4>1, <4>2
      <3> HIDE DEF B, K
      <3>2. (\A i \in 1 .. Len(K) : ~Lists(K[i], n)) <=> (\A i \in 1 .. Len(B) : ~Lists(B[i], n))
        BY SMTT(30), <2>3, <3>1
      <3> QED BY <3>2 DEF Updated, Places, B, K
    <2>6. ASSUME Updated(p, n) PROVE UpToDate(p, f, n)'
      <3>1. /\ f <= Len(directory[n]) /\ Len(directory[n]) <= L
            /\ directory[n] = SubSeq(D, 1, Len(directory[n]))
            /\ \A i \in 1 .. Len(B) : \A j \in First + 1 .. L :
                  Adds(B[i], D[j]) => j > Len(directory[n]) \/ j = f
        BY <2>4, <2>6 DEF UpToDate, Joined, Places, D, L
      <3>2. Len(directory[n]) <= Len(E) /\ directory[n] = SubSeq(E, 1, Len(directory[n]))
        BY <1>1, <2>1, <3>1
      <3>3. ASSUME NEW i \in 1 .. Len(K), NEW j \in First + 1 .. Len(E), Adds(K[i], E[j])
            PROVE  j > Len(directory[n]) \/ j = f
        <4>1. CASE i <= Len(B)
          <5>1. i \in Places(p, n) /\ K[i] = link[p][n][i]
            BY <2>3, <4>1 DEF Places
          <5>2. link[p][n][i] \in Travelling
            BY <1>1, <2>1, <5>1, OnLinkTravels
          <5>3. PICK m \in Travelling : m = link[p][n][i]
            BY <5>2
          <5>4. j \in First + 1 .. Len(directory'[p]) /\ Adds(m, directory'[p][j])
            BY <3>3, <5>1, <5>3 DEF E
          <5>5. j \in First + 1 .. Len(directory[p]) /\ Adds(m, directory[p][j])
            BY <5>4, EarlierNews
          <5> QED BY <3>1, <5>1, <5>3, <5>5 DEF D, L, Places
        <4>2. CASE i > Len(B)
          <5>1. PICK e \in 1 .. N : j = L + e
            BY <2>3, <3>3, <4>2
          <5> QED BY <1>1, <2>1, <3>1, <5>1
        <4>3. i <= Len(B) \/ i > Len(B)
          BY <2>3
        <4> QED BY <4>1, <4>2, <4>3
      <3>4. /\ f <= Len(directory'[n]) /\ Len(directory'[n]) <= Len(E)
            /\ directory'[n] = SubSeq(E, 1, Len(directory'[n]))
            /\ \A i \in 1 .. Len(K) : \A j \in First + 1 .. Len(E) :
                  Adds(K[i], E[j]) => j > Len(directory'[n]) \/ j = f
        BY <2>1, <3>1, <3>2, <3>3
      <3> QED BY <3>4 DEF UpToDate, Joined, Places, E
    <2>7. ASSUME NEW j \in f + 1 .. Len(E)
          PROVE  (Updated(p, n) /\ j <= Len(directory[n])) \/ \E i \in 1 .. Len(K) : Adds(K[i], E[j])
      <3>1. CASE j <= L
        <4>1. j \in f + 1 .. L /\ E[j] = D[j]
          BY <1>1, <3>1
        <4>2. (Updated(p, n) /\ j <= Len(directory[n])) \/ \E i \in 1 .. Len(B) : Adds(B[i], D[j])
          BY <2>4, <4>1 DEF Coming, AddOnLink, Places, D, L
        <4>3. \A i \in 1 .. Len(B) : i \in 1 .. Len(K) /\ K[i] = B[i]
          BY <2>3
        <4> QED BY <4>1, <4>2, <4>3
      <3>2. CASE j > L
        <4> DEFINE e == j - L
        <4>1. e \in 1 .. N /\ j = L + e
          BY <1>1, <3>2
        <4>2. at + 3 * e \in 1 .. Len(K) /\ Adds(K[at + 3 * e], E[j])
          BY <2>3, <4>1
        <4> QED BY <4>2
      <3>3. j <= L \/ j > L
        BY <1>1
      <3> QED BY <3>1, <3>2, <3>3
    <2>8. Coming(p, f, n)'
      <3>1. \A j \in f + 1 .. Len(directory'[p]) :
               \/ Updated(p, n)' /\ j <= Len(directory'[n])
               \/ \E i \in 1 .. Len(link'[p][n]) : Adds(link'[p][n][i], directory'[p][j])
        BY <2>1, <2>5, <2>7 DEF E
      <3> QED BY <3>1 DEF Coming, AddOnLink, Places
    <2> QED BY <2>5, <2>6, <2>8
  <1>7. ASSUME NEW e \in 1 .. N, NEW n \in Newcomer, n = E[L + e], NEW f, f = L + e
        PROVE  /\ Updated(p, n)' => UpToDate(p, f, n)'
               /\ Coming(p, f, n)'
    <2> DEFINE B == Base(p, n, old)
               at == Len(B) + Lead(s, p)
               K == link'[p][n]
    <2>1. n \in W
      BY <1>1, <1>7
    <2>2. \A d \in 1 .. N :
             /\ at + 3 * d \in 1 .. Len(K) /\ Adds(K[at + 3 * d], E[L + d])
             /\ at + (3 * d - 1) \in 1 .. Len(K) /\ Lists(K[at + (3 * d - 1)], E[L + d])
      BY <1>5, <2>1
    <2>3. ~(Updated(p, n)')
      <3>1. \E i \in 1 .. Len(K) : Lists(K[i], n)
        BY <1>7, <2>2
      <3> QED BY <3>1 DEF Updated, Places
    <2>4. ASSUME NEW j \in f + 1 .. Len(E) PROVE \E i \in 1 .. Len(K) : Adds(K[i], E[j])
      <3> DEFINE d == j - L
      <3>1. d \in 1 .. N /\ j = L + d
        BY <1>1, <1>7
      <3>2. at + 3 * d \in 1 .. Len(K) /\ Adds(K[at + 3 * d], E[j])
        BY <2>2, <3>1
      <3> QED BY <3>2
    <2>5. \A j \in f + 1 .. Len(directory'[p]) :
             \E i \in 1 .. Len(link'[p][n]) : Adds(link'[p][n][i], directory'[p][j])
      BY <2>4 DEF E
    <2>6. Coming(p, f, n)'
      BY <2>5 DEF Coming, AddOnLink, Places
    <2> QED BY <2>3, <2>6
  <1>8. ASSUME NEW f \in First + 1 .. Len(E)
        PROVE  /\ Updated(p, directory[p][f])' => UpToDate(p, f, directory[p][f])'
               /\ Coming(p, f, directory[p][f])'
    <2>1. CASE f <= L
      <3>1. f \in First + 1 .. L /\ D[f] \in Newcomer /\ E[f] = D[f]
        BY <1>1, <1>3, <2>1
      <3>2. PICK n \in Newcomer : D[f] = n
        BY <3>1
      <3>3. /\ Updated(p, n)' => UpToDate(p, f, n)'
            /\ Coming(p, f, n)'
        BY <1>6, <3>1, <3>2
      <3>4. directory'[p][f] = n
        BY <3>1, <3>2 DEF E
      <3> QED BY <3>3, <3>4 DEF Coming, Updated, UpToDate, AddOnLink, Places
    <2>2. CASE f > L
      <3>1. PICK e \in 1 .. N : f = L + e
        <4>1. f - L \in 1 .. N /\ f = L + (f - L)
          BY <1>1, <2>2
        <4> QED BY <4>1
      <3>2. PICK n \in Newcomer : n = E[L + e]
        BY <1>1
      <3>3. /\ Updated(p, n)' => UpToDate(p, f, n)'
            /\ Coming(p, f, n)'
        BY <1>7, <3>1, <3>2
      <3>4. directory'[p][f] = n
        BY <3>1, <3>2 DEF E
      <3> QED BY <3>3, <3>4 DEF Coming, Updated, UpToDate, AddOnLink, Places
    <2>3. f <= L \/ f > L
      BY <1>1
    <2> QED BY <2>1, <2>2, <2>3
  <1>9. (\A v \in Site : Upright(p, v)') /\ (\A n \in Newcomer : Unseen(p, n)')
    BY UprightWelcome
  <1> QED BY <1>8, <1>9 DEF NewOK, Joined, E

LEMMA OrderedWelcome ==
    ASSUME NEW p \in Old, Ordered(p), Counting', plan' = plan, NEW s \in Site, NEW t \in Site,
           NEW old \in [ToSet(waiting[t]) -> Uncopied(t)], Welcoming(s, t, old)
    PROVE  Ordered(p)'
  <1>1. t = p
    BY PeerFacts DEF Welcoming
  <1>2. PICK o \in [ToSet(waiting[p]) -> Uncopied(p)] : Welcoming(s, p, o)
    BY <1>1
  <1>3. AtOne(p)'
    BY DEF Ordered, AtOne
  <1>4. RollOK(p)' /\ Stamps' /\ NewsOK(p)'
    BY <1>2, RollWelcome, StampsWelcome, NewsWelcome
  <1>5. OldOK(p)' /\ NewOK(p)'
    BY <1>2, OldWelcome, NewWelcome
  <1> QED BY <1>3, <1>4, <1>5 DEF Ordered

LEMMA OrderedStep ==
    ASSUME NEW p \in Old, Ordered(p), [MemberNext]_allVars
    PROVE  Ordered(p)'
  <1>1. Counting'
    BY CountingStep DEF Ordered
  <1>2. CASE UNCHANGED allVars
    <2>1. /\ plan' = plan /\ link' = link /\ tee' = tee /\ directory' = directory
          /\ seen' = seen /\ sent' = sent
      BY <1>2 DEF allVars, memberVars, vars, linkVars, joinVars
    <2>2. Travelling' = Travelling /\ Joined(p)' = Joined(p)
      BY <2>1 DEF Travelling, OnLink, Places, Packet, Good, Sound, Joined
    <2>3. AtOne(p)' /\ RollOK(p)' /\ Stamps'
      BY <2>1, <2>2 DEF Ordered, AtOne, RollOK, Stamps
    <2>4. NewsOK(p)'
      BY <2>1, <2>2 DEF Ordered, NewsOK
    <2>5. OldOK(p)'
      <3>1. \A a, b : Behind(p, a, b)' <=> Behind(p, a, b)
        BY <2>1, <2>2 DEF Behind, Places
      <3>2. \A a, b : PassedOn(p, a, b)' <=> PassedOn(p, a, b)
        BY <2>1 DEF PassedOn, AddOnLink, Places, Joined
      <3> QED BY <2>1, <2>2, <3>1, <3>2 DEF Ordered, OldOK
    <2>6. NewOK(p)'
      BY <2>1, <2>2
         DEF Ordered, NewOK, Upright, Unseen, Updated, UpToDate, Coming, AddOnLink, Before, Places
    <2> QED BY <1>1, <2>3, <2>4, <2>5, <2>6 DEF Ordered
  <1>3. CASE MemberNext
    <2>1. plan' = plan /\ ((\E n \in Newcomer : AskPeerToJoinNetwork(n)) \/ Talk \/ Welcomed)
      BY <1>3, StepShape DEF Ordered, Counting
    <2>2. CASE \E n \in Newcomer : AskPeerToJoinNetwork(n)
      BY <1>1, <2>1, <2>2, OrderedAsk
    <2>3. CASE Talk
      BY <1>1, <2>1, <2>3, OrderedCalm DEF Talk
    <2>4. CASE Welcomed
      BY <1>1, <2>1, <2>4, OrderedWelcome DEF Welcomed
    <2> QED BY <2>1, <2>2, <2>3, <2>4
  <1> QED BY <1>2, <1>3

LEMMA OrderedInit ==
    ASSUME MemberInit, OnlyJoins, AskOnce, NEW p \in Old, AtOne(p)
    PROVE  Ordered(p)
  <1>1. Counting
    BY CountingInit
  <1>2. /\ link = [s \in Site |-> [t \in Site |-> <<>>]] /\ tee = Neighbours
        /\ seen = [s \in Site |-> {}] /\ sent = [s \in Site |-> 0] /\ plan \in Plan
        /\ directory = [s \in Site |-> IF s \in Newcomer THEN <<s>> ELSE Layout]
    BY DEF MemberInit, Init, LinksInit
  <1>4. \A a, b \in Site : link[a][b] = <<>> /\ Places(a, b) = {}
    BY <1>2 DEF Places
  <1>5. Travelling = {}
    BY <1>4 DEF Travelling, OnLink
  <1>6. /\ \A b \in Old : directory[b] = Layout /\ b \in Site
        /\ First \in Nat /\ Layout \in Seq(Site) /\ First = Len(Layout)
    BY <1>2, LayoutAssumption, LenProperties DEF Old, First
  <1>7. Joined(p) = {} /\ \A b \in Old : Joined(b) = {}
    BY <1>6 DEF Joined
  <1>8. SubSeq(Layout, 1, First) = Layout
    BY <1>6
  <1>9. \A n \in Newcomer : tee[n] = {} /\ n \in Site
    BY <1>2, NewcomerAssumption
  <1>10. RollOK(p)
    <2>1. \A i, j \in 1 .. First : Layout[i] = Layout[j] => i = j
      BY <1>6, LayoutAssumption
    <2> QED BY <1>6, <1>7, <1>8, <1>9, <2>1 DEF RollOK
  <1>11. Stamps
    BY <1>2, <1>5 DEF Stamps
  <1>12. NewsOK(p)
    BY <1>5, <1>7 DEF NewsOK
  <1>13. OldOK(p)
    <2> SUFFICES ASSUME NEW b \in Old \ {p}
                 PROVE  /\ First <= Len(directory[b]) /\ Len(directory[b]) <= Len(directory[p])
                        /\ directory[b] = SubSeq(directory[p], 1, Len(directory[b]))
                        /\ \A a \in Site : Behind(p, a, b)
                        /\ \A a \in Old : PassedOn(p, a, b)
      BY <1>5 DEF OldOK
    <2>1. \A a \in Site : Behind(p, a, b)
      BY <1>7 DEF Behind
    <2>2. \A a \in Old : PassedOn(p, a, b)
      BY <1>7 DEF PassedOn
    <2> QED BY <1>6, <1>8, <2>1, <2>2
  <1>14. NewOK(p)
    <2>1. \A r \in Site : Upright(p, r)
      BY <1>4, <1>6 DEF Upright
    <2>2. \A n \in Newcomer : Unseen(p, n)
      BY <1>2, <1>4, <1>6, <1>9 DEF Unseen
    <2> QED BY <1>7, <2>1, <2>2 DEF NewOK
  <1> QED BY <1>1, <1>10, <1>11, <1>12, <1>13, <1>14 DEF Ordered

(* In each plan the newcomers that ask, ask the same peer.                 *)
OnePeer ==
    \A pl \in Plan : \E p \in Old : \A n \in Newcomer : pl.asks[n] > 0 => pl.peer[n] = p

(* When nothing is on its way, all have the directory of p.                *)
LEMMA SettledOld ==
    ASSUME NEW p \in Old, Ordered(p), FirstConnected, Silent, NEW b \in Old
    PROVE  directory[b] = directory[p]
  <1> DEFINE D == directory[p]
             L == Len(D)
             S == {a \in Old : Len(directory[a]) = L}
  <1>1. /\ p \in Site /\ D \in Seq(Site) /\ L \in Nat /\ First \in Nat /\ First <= L
        /\ \A a \in Site : Len(directory[a]) \in Nat
    BY PeerFacts DEF Ordered, RollOK
  <1>2. \A u, v \in Site : link[u][v] = <<>>
    BY DEF Silent, Ordered, Counting, Calmly, Typing, MemberTypeOK
  <1>3. ASSUME NEW a \in S, NEW c \in Neighbours[a] PROVE c \in S
    <2>1. c \in tee[a] /\ c \in Old /\ a \in Old
      <3>1. a \in Old /\ tee[a] \ Newcomer = Neighbours[a] /\ Neighbours[a] \subseteq Site
        BY NeighboursAssumption DEF Ordered, Counting, Calmly, Linking, Old
      <3> QED BY <3>1 DEF Old
    <2>2. CASE c = p
      BY <2>1, <2>2
    <2>3. CASE c # p
      <3>1. /\ PassedOn(p, a, c) /\ First <= Len(directory[c]) /\ Len(directory[c]) <= L
        BY <2>1, <2>3 DEF Ordered, OldOK
      <3>2. c \in Site /\ a \in Site /\ Len(directory[a]) = L
        BY <2>1 DEF Old
      <3>3. ~AddOnLink(a, c, D[L])
        BY <1>2, <3>2 DEF AddOnLink, Places
      <3>4. L > First => L \in Joined(a)
        BY <1>1, <3>2 DEF Joined
      <3>5. L > First => L <= Len(directory[c])
        BY <3>1, <3>3, <3>4 DEF PassedOn
      <3>6. Len(directory[c]) = L
        <4> HIDE DEF L
        <4> QED BY <1>1, <3>1, <3>2, <3>5
      <3> QED BY <2>1, <3>6
    <2> QED BY <2>2, <2>3
  <1>4. S = Old
    <2>1. p \in S /\ S \in SUBSET Old
      OBVIOUS
    <2>2. \A a \in S : Neighbours[a] \subseteq S
      BY <1>3
    <2> HIDE DEF S
    <2> QED BY <2>1, <2>2 DEF FirstConnected
  <1>5. Len(directory[b]) = L
    BY <1>4
  <1>6. CASE b = p
    BY <1>6
  <1>7. CASE b # p
    <2>1. directory[b] = SubSeq(D, 1, L)
      BY <1>5, <1>7 DEF Ordered, OldOK
    <2> QED BY <1>1, <2>1
  <1> QED BY <1>6, <1>7

LEMMA SettledNew ==
    ASSUME NEW p \in Old, Ordered(p), Silent, NEW n \in Newcomer, tee[n] # {}
    PROVE  directory[n] = directory[p]
  <1> DEFINE D == directory[p]
             L == Len(D)
             l == Len(directory[n])
  <1>1. /\ p \in Site /\ n \in Site /\ D \in Seq(Site) /\ L \in Nat /\ First \in Nat /\ l \in Nat
    BY PeerFacts
  <1>2. link[p][n] = <<>>
    BY <1>1 DEF Silent, Ordered, Counting, Calmly, Typing, MemberTypeOK
  <1>3. PICK f \in Joined(p) : D[f] = n
    BY DEF Ordered, RollOK
  <1>4. /\ Updated(p, n) => UpToDate(p, f, n)
        /\ Coming(p, f, n)
    BY <1>3 DEF Ordered, NewOK
  <1>5. Updated(p, n) /\ ~AddOnLink(p, n, D[L])
    BY <1>2 DEF Updated, AddOnLink, Places
  <1>6. f <= l /\ l <= L /\ directory[n] = SubSeq(D, 1, l)
    BY <1>4, <1>5 DEF UpToDate
  <1>7. f < L => L <= l
    <2>1. f < L => L \in f + 1 .. L
      BY <1>1 DEF Joined
    <2> QED BY <1>4, <1>5, <2>1 DEF Coming
  <1>8. l = L
    <2>1. f \in Nat
      BY <1>1 DEF Joined
    <2> HIDE DEF l, L
    <2> QED BY <1>1, <1>6, <1>7, <2>1
  <1> QED BY <1>1, <1>6, <1>8

(* The directory of p has the members of the network, each of them once.   *)
LEMMA RollOfMembers ==
    ASSUME NEW p \in Old, Ordered(p), FirstConnected, Member # {}
    PROVE  ToSet(directory[p]) = Member /\ Len(directory[p]) = Cardinality(Member)
  <1> DEFINE D == directory[p]
  <1>1. /\ p \in Site /\ D \in Seq(Site) /\ Len(D) \in Nat /\ First \in Nat /\ First <= Len(D)
        /\ p \notin Newcomer /\ Newcomer \subseteq Site
        /\ \A n \in Newcomer : tee[n] # {} => n \in tee[p]
        /\ SubSeq(D, 1, First) = Layout
        /\ \A j \in First + 1 .. Len(D) : D[j] \in Newcomer /\ tee[D[j]] # {}
        /\ \A i, j \in 1 .. Len(D) : D[i] = D[j] => i = j
        /\ \A n \in Newcomer : tee[n] # {} => \E j \in First + 1 .. Len(D) : D[j] = n
    BY PeerFacts DEF Ordered, RollOK, Joined
  <1>2. Member = {s \in Site : tee[s] # {}}
    BY DEF Member, Ordered, Counting, Calmly, Typing, MemberTypeOK
  <1>3. \A j \in 1 .. First : D[j] = Layout[j]
    BY <1>1
  <1>4. /\ Layout \in Seq(Site) /\ DOMAIN Layout = 1 .. First
        /\ \A j \in 1 .. First : Layout[j] \in Old
        /\ \A b \in Old : \E j \in 1 .. First : Layout[j] = b
    <2>1. Layout \in Seq(Site) /\ ToSet(Layout) = Old
      BY LayoutAssumption DEF Old
    <2>2. DOMAIN Layout = 1 .. First
      BY <2>1, LenProperties DEF First
    <2> QED BY <2>1, <2>2 DEF ToSet
  (* A first site without a neighbour is alone. *)
  <1>5. ASSUME NEW b \in Old PROVE b \in Member
    <2> SUFFICES ASSUME tee[b] = {} PROVE FALSE
      BY <1>2 DEF Old
    <2>1. Neighbours[b] = {}
      BY DEF Ordered, Counting, Calmly, Linking
    <2>2. Old = {b}
      <3>1. {b} \in SUBSET Old /\ {b} # {} /\ \A s \in {b} : Neighbours[s] \subseteq {b}
        BY <2>1
      <3> QED BY <3>1 DEF FirstConnected
    <2>3. PICK s \in Site : tee[s] # {}
      BY <1>2
    <2>4. s \in Newcomer /\ p = b
      BY <2>2, <2>3 DEF Old
    <2> QED BY <1>1, <2>3, <2>4
  <1>6. DOMAIN D = 1 .. Len(D)
    BY <1>1, LenProperties
  <1> HIDE DEF D
  <1>7. ToSet(D) \subseteq Member
    <2>1. ASSUME NEW j \in 1 .. Len(D) PROVE D[j] \in Member
      <3>1. CASE j <= First
        <4>1. D[j] = Layout[j] /\ Layout[j] \in Old
          BY <1>1, <1>3, <1>4, <3>1
        <4> QED BY <1>5, <4>1
      <3>2. CASE j > First
        <4>1. j \in First + 1 .. Len(D)
          BY <1>1, <3>2
        <4> QED BY <1>1, <1>2, <4>1
      <3>3. j <= First \/ j > First
        BY <1>1
      <3> QED BY <3>1, <3>2, <3>3
    <2> QED BY <1>6, <2>1 DEF ToSet
  <1>8. Member \subseteq ToSet(D)
    <2>1. ASSUME NEW s \in Member PROVE \E j \in 1 .. Len(D) : D[j] = s
      <3>1. CASE s \in Old
        <4>1. PICK j \in 1 .. First : Layout[j] = s
          BY <1>4, <3>1
        <4>2. j \in 1 .. Len(D) /\ D[j] = s
          BY <1>1, <1>3, <4>1
        <4> QED BY <4>2
      <3>2. CASE s \in Newcomer
        <4>1. PICK j \in First + 1 .. Len(D) : D[j] = s
          BY <1>1, <1>2, <3>2
        <4>2. j \in 1 .. Len(D)
          BY <1>1
        <4> QED BY <4>1, <4>2
      <3> QED BY <1>2, <3>1, <3>2 DEF Old
    <2> QED BY <1>6, <2>1 DEF ToSet
  <1>9. ToSet(D) = Member
    BY <1>7, <1>8
  <1>10. Cardinality(ToSet(D)) = Len(D)
    BY <1>1, <1>6, OnceEach
  <1> QED BY <1>9, <1>10 DEF D

(* When nobody leaves, and the newcomers, who ask once, all ask the same   *)
(* peer, the sites of a connected network agree on the directory whenever  *)
(* nothing is on its way: the peer writes the news in the order of its     *)
(* own directory, its links are fifo, and a first site takes every name    *)
(* from the first of its neighbours that passes it on.  Two peers do not   *)
(* keep the order.                                                         *)
THEOREM OnePeerAgrees ==
    ASSUME OnlyJoins, AskOnce, OnePeer, FirstConnected
    PROVE  MemberSpec => []DirectoriesAgree
  <1> DEFINE Inv == \E p \in Old : Ordered(p)
  <1>1. MemberInit => Inv
    <2> SUFFICES ASSUME MemberInit PROVE Inv
      OBVIOUS
    <2>1. plan \in Plan
      BY DEF MemberInit
    <2>2. PICK p \in Old : \A n \in Newcomer : plan.asks[n] > 0 => plan.peer[n] = p
      BY <2>1 DEF OnePeer
    <2>3. Ordered(p)
      BY <2>2, OrderedInit DEF AtOne
    <2> QED BY <2>3
  <1>2. Inv /\ [MemberNext]_allVars => Inv'
    <2> SUFFICES ASSUME NEW p \in Old, Ordered(p), [MemberNext]_allVars PROVE Ordered(p)'
      BY DEF Old
    <2> QED BY OrderedStep
  <1>3. Inv => DirectoriesAgree
    <2> SUFFICES ASSUME NEW p \in Old, Ordered(p), Silent, NEW s \in Member
                 PROVE  /\ ToSet(directory[s]) = Member
                        /\ Len(directory[s]) = Cardinality(Member)
                        /\ \A t \in Member : directory[s] = directory[t]
      BY DEF DirectoriesAgree
    <2>1. \A t \in Member : directory[t] = directory[p]
      BY SettledOld, SettledNew DEF Member, Old
    <2>2. ToSet(directory[p]) = Member /\ Len(directory[p]) = Cardinality(Member)
      BY RollOfMembers
    <2> QED BY <2>1, <2>2
  <1> QED BY <1>1, <1>2, <1>3, PTL DEF MemberSpec

=============================================================================
