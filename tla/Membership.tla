----------------------------- MODULE Membership -----------------------------
(***************************************************************************)
(* Sites that join and leave (dynamique_network_handler.go, add_user.go,   *)
(* find_neighbours.go, leaving_process.go), on top of the election.        *)
(*                                                                         *)
(* A newcomer writes into the in fifo of a peer.  The peer stands for the  *)
(* goal JOINING; once elected, it links the newcomer to itself, sends it   *)
(* the directory, tells the others and releases the election.  A leaver    *)
(* asks who its neighbours are, stands for the goal LEAVING, publishes a   *)
(* register without its name from the critical section, tells everybody    *)
(* and exits when its neighbours have answered; each of them then replaces *)
(* the leaver by the leaver's neighbours, in its tee.                      *)
(*                                                                         *)
(* The tables that are aligned with the directory are those of the queue   *)
(* and of the vector clock; what a site keeps of another one is kept by    *)
(* name, so that the directory stands for them.  Shell commands succeed.   *)
(***************************************************************************)
EXTENDS Election, SequencesExt

CONSTANTS
    Newcomer, \* the sites that are not in the network at first
    Plan,     \* what the users may do, one of these from the start
    Layout    \* the directory of the first sites

(* A plan: asks[n] is how often the user of n asks, peer[n] whom, leavers   *)
(* the sites whose user may leave.                                          *)
ASSUME NewcomerAssumption ==
    /\ Newcomer \subseteq Site
    /\ \A n \in Newcomer : Neighbours[n] = {}
ASSUME PlanAssumption ==
    \A p \in Plan :
        /\ p.asks \in [Newcomer -> Nat]
        /\ p.peer \in [Newcomer -> Site \ Newcomer]
        /\ p.leavers \subseteq Site \ Newcomer
ASSUME LayoutAssumption ==
    /\ Layout \in Seq(Site) /\ ToSet(Layout) = Site \ Newcomer
    /\ \A i, j \in DOMAIN Layout : Layout[i] = Layout[j] => i = j

VARIABLES
    plan,      \* what the users do
    directory, \* directory[s]: NetworkDirectory.IndexToID
    waiting,   \* waiting[s]: PeersWaitingToJoin
    departing, \* departing[s]: the length of PeersWaitingToLeave
    known,     \* known[s]: the names in NeighborIDsAndAdresses
    section,   \* section[s]: goroutines of RemoveUserFromTorrentLogic
    answered,  \* answered[s]: NbTeeReceived
    left,      \* the sites whose process has exited
    asksLeft,  \* asksLeft[n]: clicks the user of n has not made yet
    stays,     \* the leavers whose user has not clicked yet
    apart      \* history: no site joined while another one was leaving

joinVars == <<directory, waiting, asksLeft>>
leaveVars == <<departing, known, section, answered, left, stays>>
memberVars == <<vars, joinVars, leaveVars>>
allVars == <<memberVars, plan, apart>>

MemberInit ==
    /\ Init
    /\ plan \in Plan
    /\ directory = [s \in Site |-> IF s \in Newcomer THEN <<s>> ELSE Layout]
    /\ waiting = [s \in Site |-> <<>>]
    /\ departing = [s \in Site |-> 0]
    /\ known = [s \in Site |-> {}]
    /\ section = [s \in Site |-> 0]
    /\ answered = [s \in Site |-> 0]
    /\ left = {}
    /\ asksLeft = plan.asks
    /\ stays = plan.leavers
    /\ apart = TRUE

-----------------------------------------------------------------------------
(* The bodies of the messages. *)

Plain(action) == [action |-> action]
AskingToJoin(peer) == Letter(peer, Plain("ASKING_TO_JOIN"))
UpdateListe(n, list) == Letter(n, [action |-> "UPDATE_LISTE", list |-> list])
AddUserConfirm(n) ==
    Letter(BROADCAST, [action |-> "ADD_USER_CONFIRM", who |-> n])
ReleaseElection == Letter(BROADCAST, Plain("RELEASE_ELECTION"))

(* Mutant: whoever searches for its neighbours says that it leaves. *)
InitFindNeighborsOfLeaver(isLeaver) ==
    Letter(BROADCAST_NEIGHBORS,
           [action |-> "INIT_FIND_NEIGHBORS", isLeaver |-> TRUE])

InitFindNeighbors(isLeaver) ==
    Letter(BROADCAST_NEIGHBORS,
           [action |-> "INIT_FIND_NEIGHBORS", isLeaver |-> isLeaver])

-----------------------------------------------------------------------------
(* What the handlers have in common. *)

(* A site gets new readers: its cat | tee is replaced.  What the site has  *)
(* written and the old tee had not copied yet, the same end of all its     *)
(* links, goes to a new reader as well.                                    *)
Readers(t) == tee[t] \ left
Uncopied(t) ==
    IF Readers(t) = {} THEN {<<>>}
    ELSE LET q == link[t][CHOOSE r \in Readers(t) :
                     \A o \in Readers(t) : Len(link[t][r]) <= Len(link[t][o])]
         IN {SubSeq(q, k, Len(q)) : k \in 1 .. Len(q) + 1}
Linked(t, readers, old) ==
    [link EXCEPT ![t] =
        [r \in Site |-> IF r \in readers \ tee[t] THEN old[r] ELSE @[r]]]

(* Mutant: a site stands without saying what for. *)
StandingWithoutGoal(t, g) ==
    IF MayStand(t)
    THEN Stand(t, "")
    ELSE UNCHANGED electionVars

(* A site stands if it may: its new state of the election, and its wave.   *)
Standing(t, g) ==
    IF MayStand(t)
    THEN Stand(t, g)
    ELSE UNCHANGED electionVars
WaveIf(t) == IF MayStand(t) THEN <<BuildElectionWave(t, t)>> ELSE <<>>

(* HandleReleaseElected: t stands again for those that wait, if there are  *)
(* at least two.                                                           *)
Again(t) ==
    IF Len(waiting[t]) > 1 THEN "JOINING"
    ELSE IF departing[t] > 1 THEN "LEAVING" ELSE ""

(* Mutant: the site that releases the election goes on holding it. *)
ReleasedButHeld(t, count) ==
    /\ election' = [election EXCEPT ![t] =
          IF Again(t) = "" THEN None ELSE ElectionState(t, t, count)]
    /\ goal' = [goal EXCEPT ![t] = IF Again(t) = "" THEN @ ELSE Again(t)]
    /\ electedID' = [electedID EXCEPT ![t] =
          IF election[t].elu = t THEN t ELSE NoSite]

Released(t, count) ==
    /\ electedID' = [electedID EXCEPT ![t] = NoSite]
    /\ election' = [election EXCEPT ![t] =
          IF Again(t) = "" THEN None ELSE ElectionState(t, t, count)]
    /\ goal' = [goal EXCEPT ![t] = IF Again(t) = "" THEN @ ELSE Again(t)]
WaveAgain(t) == IF Again(t) = "" THEN <<>> ELSE <<BuildElectionWave(t, t)>>

-----------------------------------------------------------------------------
(* Joining. *)

(* Mutant: the peer is not counted as a neighbour. *)
AskPeerUncounted(n) ==
    /\ asksLeft[n] > 0
    /\ asksLeft' = [asksLeft EXCEPT ![n] = @ - 1]
    /\ OriginateTo(n, {plan.peer[n]}, <<AskingToJoin(plan.peer[n])>>)
    /\ UNCHANGED <<nb, tee, electionVars, clicksLeft, directory, waiting,
                   leaveVars>>

(* The newcomer writes directly into the in fifo of its peer, and counts   *)
(* it as a neighbour at once.                                              *)
AskPeerToJoinNetwork(n) ==
    /\ asksLeft[n] > 0
    /\ asksLeft' = [asksLeft EXCEPT ![n] = @ - 1]
    /\ OriginateTo(n, {plan.peer[n]}, <<AskingToJoin(plan.peer[n])>>)
    /\ nb' = [nb EXCEPT ![n] = @ + 1]
    /\ UNCHANGED <<tee, electionVars, clicksLeft, directory, waiting,
                   leaveVars>>

HandlePeerAskingToJoin(s, t) ==
    /\ Gets(s, t, "ASKING_TO_JOIN")
    /\ waiting' = [waiting EXCEPT ![t] = Append(@, FirstOf(s, t).sender)]
    /\ Standing(t, "JOINING")
    /\ TakeTo(s, t, tee[t], WaveIf(t))
    /\ UNCHANGED <<nb, tee, clicksLeft, directory, asksLeft, leaveVars>>

(* Mutant: the network hears the newcomer, which does not hear it. *)
LinkedOneWay(t, peers) ==
    [r \in Site |-> IF r \in ToSet(peers) THEN tee[r] \cup {t} ELSE tee[r]]

(* AddFifoToLink, twice for each newcomer. *)
LinkedBothWays(t, peers) ==
    [r \in Site |->
        IF r = t THEN tee[r] \cup ToSet(peers)
        ELSE IF r \in ToSet(peers) THEN tee[r] \cup {t} ELSE tee[r]]

(* AddUser at the elected site: what it writes for the newcomers, of whom  *)
(* the i-th gets the directory that ends with its own name.                *)
ListWith(t, i) == directory[t] \o SubSeq(waiting[t], 1, i)
Welcome(t, i) ==
    <<UpdateListe(waiting[t][i], ListWith(t, i)),
      AddUserConfirm(waiting[t][i]), ReleaseElection>>
Welcomes(t) ==
    [k \in 1 .. 3 * Len(waiting[t]) |->
        Welcome(t, (k + 2) \div 3)[((k + 2) % 3) + 1]]

(* HandleElectionResult and StartJoiningProcess.  A name that is already   *)
(* in the directory is answered with NAME_ERROR, which no site handles,    *)
(* and added all the same.  The wave of HandleReleaseElected is dropped.   *)
StartJoiningProcess(s, t) ==
    LET peers == waiting[t]
        readers == LinkedBothWays(t, peers)[t]
    IN
    /\ LastEcho(s, t) /\ goal[t] = "JOINING"
    /\ \E old \in [ToSet(peers) -> Uncopied(t)] :
          TakeAmong(Linked(t, readers, old), s, t, readers,
                    <<BuildElected(t)>> \o Welcomes(t), <<>>)
    /\ directory' = [directory EXCEPT ![t] = ListWith(t, Len(peers))]
    /\ waiting' = [waiting EXCEPT ![t] = <<>>]
    /\ nb' = [nb EXCEPT ![t] = @ + Len(peers)]
    /\ tee' = LinkedBothWays(t, peers)
    /\ IF peers = <<>> THEN Wins(s, t) /\ UNCHANGED goal
       ELSE Released(t, nb[t] + Len(peers))
    /\ UNCHANGED <<clicksLeft, asksLeft, leaveVars>>

HandleUpdateListe(s, t) ==
    /\ Gets(s, t, "UPDATE_LISTE")
    /\ directory' = [directory EXCEPT ![t] = FirstOf(s, t).body.list]
    /\ TakeTo(s, t, tee[t], <<>>)
    /\ UNCHANGED <<electionVars, nb, tee, clicksLeft, waiting, asksLeft,
                   leaveVars>>

(* Mutant: a newcomer that hears of itself adds itself again. *)
WithUserAlways(t, new) == Append(directory[t], new)

(* AddUser at those who were not elected; the newcomer does not add itself.*)
WithUser(t, new) ==
    IF new = t THEN directory[t] ELSE Append(directory[t], new)
HandleAddUserConfirm(s, t) ==
    LET new == FirstOf(s, t).body.who IN
    /\ Gets(s, t, "ADD_USER_CONFIRM")
    /\ directory' = [directory EXCEPT ![t] = WithUser(t, new)]
    /\ TakeTo(s, t, tee[t], <<>>)
    /\ UNCHANGED <<electionVars, nb, tee, clicksLeft, waiting, asksLeft,
                   leaveVars>>

HandleReleaseElected(s, t) ==
    /\ Gets(s, t, "RELEASE_ELECTION")
    /\ Released(t, nb[t])
    /\ TakeTo(s, t, tee[t], WaveAgain(t))
    /\ UNCHANGED <<nb, tee, clicksLeft, joinVars, leaveVars>>

-----------------------------------------------------------------------------
(* Leaving: who the neighbours are. *)

(* The user of s leaves: all search for their neighbours, s for its own. *)
UserLeaves(s) ==
    /\ s \in stays
    /\ stays' = stays \ {s}
    /\ OriginateTo(s, tee[s],
           <<Letter(BROADCAST, Plain("START_NEIGHBORS_SEARCH")),
             InitFindNeighbors(TRUE)>>)
    /\ UNCHANGED <<nb, tee, electionVars, clicksLeft, joinVars, departing,
                   known, section, answered, left>>

HandleNeighborsSearch(s, t) ==
    /\ Gets(s, t, "START_NEIGHBORS_SEARCH")
    /\ TakeTo(s, t, tee[t], <<InitFindNeighbors(FALSE)>>)
    /\ UNCHANGED <<nb, tee, electionVars, clicksLeft, joinVars, leaveVars>>

HandleFindNeighbors(s, t) ==
    LET m == FirstOf(s, t) IN
    /\ Gets(s, t, "INIT_FIND_NEIGHBORS")
    /\ TakeTo(s, t, tee[t],
           <<Letter(m.sender, [action |-> "I_M_NEIGHBOR",
                               isLeaver |-> m.body.isLeaver])>>)
    /\ UNCHANGED <<nb, tee, electionVars, clicksLeft, joinVars, leaveVars>>

(* Mutant: the site stands, but is not put on its list of leavers. *)
DepartingUnlisted(t) == departing[t]
Departing(t) == departing[t] + 1

(* A neighbour answers; when their number is right and the answer is one   *)
(* to the leaver, HandlePeerAskingToLeave.                                 *)
HandleIMNeighborMessage(s, t) ==
    LET m == FirstOf(s, t)
        names == known[t] \cup {m.sender}
        leaves == Cardinality(names) = nb[t] /\ m.body.isLeaver
    IN
    /\ Gets(s, t, "I_M_NEIGHBOR")
    /\ known' = [known EXCEPT ![t] = names]
    /\ departing' = [departing EXCEPT ![t] = IF leaves THEN Departing(t) ELSE @]
    /\ IF leaves THEN Standing(t, "LEAVING") ELSE UNCHANGED electionVars
    /\ TakeTo(s, t, tee[t], IF leaves THEN WaveIf(t) ELSE <<>>)
    /\ UNCHANGED <<nb, tee, clicksLeft, joinVars, section, answered, left,
                   stays>>

-----------------------------------------------------------------------------
(* Leaving: the elected site. *)

(* StartLeavingProcess(false).  The list of those who wait to leave is     *)
(* sliced without a look at its length: the process panics when the list   *)
(* is empty (LeaversStored), which is a negative number here.              *)
StartLeavingProcess(s, t) ==
    /\ Wins(s, t) /\ goal[t] = "LEAVING"
    /\ section' = [section EXCEPT ![t] = @ + 1]
    /\ departing' = [departing EXCEPT ![t] = @ - 1]
    /\ TakeTo(s, t, tee[t], <<BuildElected(t)>>)
    /\ UNCHANGED <<goal, nb, tee, clicksLeft, joinVars, known, answered, left,
                   stays>>

(* RemoveUserFromTorrentLogic has published the register (Transfer):       *)
(* StartLeavingProcess(true).                                              *)
DoneWithSCLeaving(t) ==
    /\ section[t] > 0 /\ t \notin left
    /\ section' = [section EXCEPT ![t] = @ - 1]
    /\ Released(t, nb[t])
    /\ OriginateTo(t, tee[t],
           <<Letter(BROADCAST, [action |-> "RECEIVE_NODE_LEAVING",
                                children |-> known[t]])>>
           \o WaveAgain(t) \o <<ReleaseElection>>)
    /\ UNCHANGED <<nb, tee, clicksLeft, joinVars, departing, known, answered,
                   left, stays>>

(* RemoveUser: the others keep their order.  A first site, such as the one *)
(* that leaves, stands once at most in a directory (Directory).            *)
WithoutUser(t, old) ==
    IF old \in ToSet(directory[t])
    THEN RemoveAt(directory[t],
                  CHOOSE k \in DOMAIN directory[t] : directory[t][k] = old)
    ELSE directory[t]

(* ReceiveLeavingProcess and RemoveUser: a neighbour of the leaver takes   *)
(* the leaver's neighbours, itself among them, and has one neighbour less. *)
ReceiveLeavingProcess(s, t) ==
    LET m == FirstOf(s, t)
        near == m.sender \in known[t]
    IN
    /\ Gets(s, t, "RECEIVE_NODE_LEAVING")
    /\ known' = [known EXCEPT ![t] =
          IF near THEN (@ \ {m.sender}) \cup m.body.children ELSE @]
    /\ nb' = [nb EXCEPT ![t] = IF near THEN @ - 1 ELSE @]
    /\ directory' = [directory EXCEPT ![t] = WithoutUser(t, m.sender)]
    /\ TakeTo(s, t, tee[t],
              IF near THEN <<Letter(m.sender, Plain("PARENT_TEE_UPDATE"))>>
              ELSE <<>>)
    /\ UNCHANGED <<tee, electionVars, clicksLeft, waiting, asksLeft, departing,
                   section, answered, left, stays>>

(* HandleTeeUpdate; with the last one the process exits.  finalLeaving     *)
(* kills the cat of the leaver: what it has not copied yet is lost.        *)
HandleTeeUpdate(s, t) ==
    LET ack == <<Letter(FirstOf(s, t).sender, Plain("PARENT_TEE_UPDATE_ACK"))>>
    IN
    /\ Gets(s, t, "PARENT_TEE_UPDATE")
    /\ answered' = [answered EXCEPT ![t] = @ + 1]
    /\ \/ /\ answered[t] + 1 # nb[t]
          /\ TakeTo(s, t, tee[t], ack)
          /\ UNCHANGED left
       \/ /\ answered[t] + 1 = nb[t]
          /\ left' = left \cup {t}
          /\ TakeTo(s, t, tee[t], ack) \/ TakeTo(s, t, tee[t], <<>>)
    /\ UNCHANGED <<nb, tee, electionVars, clicksLeft, joinVars, departing,
                   known, section, stays>>

(* RestartTee: the tee of t now copies to those it knows, itself excepted. *)
RestartTee(s, t) ==
    LET readers == known[t] \ {t}
        new == IF readers = {} THEN tee[t] ELSE readers
    IN
    /\ Gets(s, t, "PARENT_TEE_UPDATE_ACK")
    /\ tee' = [tee EXCEPT ![t] = new]
    /\ \E old \in [new -> Uncopied(t)] :
          TakeAmong(Linked(t, new, old), s, t, new, <<>>, <<>>)
    /\ UNCHANGED <<nb, electionVars, clicksLeft, joinVars, leaveVars>>

-----------------------------------------------------------------------------
ElectionStep(s, t) ==
    /\ WaveStep(s, t) \/ EchoStep(s, t) \/ HandleElected(s, t) \/ Pass(s, t)
    /\ UNCHANGED <<joinVars, leaveVars>>
JoinStep(s, t) ==
    \/ HandlePeerAskingToJoin(s, t) \/ StartJoiningProcess(s, t)
    \/ HandleUpdateListe(s, t) \/ HandleAddUserConfirm(s, t)
    \/ HandleReleaseElected(s, t)
LeaveStep(s, t) ==
    \/ HandleNeighborsSearch(s, t) \/ HandleFindNeighbors(s, t)
    \/ HandleIMNeighborMessage(s, t) \/ StartLeavingProcess(s, t)
    \/ ReceiveLeavingProcess(s, t) \/ HandleTeeUpdate(s, t) \/ RestartTee(s, t)
MemberStep(s, t) ==
    /\ link[s][t] # <<>> /\ t \notin left
    /\ (ElectionStep(s, t) \/ JoinStep(s, t) \/ LeaveStep(s, t))

(* Who has asked to join or to leave; nothing is on its way. *)
Asked == {n \in Newcomer : asksLeft[n] < plan.asks[n]}
Leaving == plan.leavers \ stays
Silent ==
    \A s \in Site, t \in Site \ left : link[s][t] = <<>>

MemberNext ==
    /\ \/ \E n \in Newcomer : AskPeerToJoinNetwork(n)
       \/ \E s \in Site : UserLeaves(s) \/ DoneWithSCLeaving(s)
       \/ \E s, t \in Site : MemberStep(s, t)
    /\ UNCHANGED plan
    /\ apart' = (apart /\ (stays' # stays => Silent)
                       /\ (asksLeft' # asksLeft => Leaving \subseteq left))

MemberSpec == MemberInit /\ [][MemberNext]_allVars

(* The pipes deliver, siteLogic handles and the section is granted; no     *)
(* user has to click.  The messages are finitely many, so that it is       *)
(* enough that some of them are handled.                                   *)
MemberFairness ==
    /\ WF_memberVars(\E s, t \in Site : MemberStep(s, t))
    /\ WF_memberVars(\E s \in Site : DoneWithSCLeaving(s))
MemberFairSpec == MemberSpec /\ MemberFairness
-----------------------------------------------------------------------------
(* The names of a directory: a first site stands there once at most, a     *)
(* newcomer as often as its user has asked.                                *)
Directory ==
    {list \in Seq(Site) :
        \A i, j \in DOMAIN list :
            list[i] = list[j] /\ list[i] \notin Newcomer => i = j}

MemberBody ==
    ElectionBody
    \cup [action : {"ASKING_TO_JOIN", "RELEASE_ELECTION",
                    "START_NEIGHBORS_SEARCH", "PARENT_TEE_UPDATE",
                    "PARENT_TEE_UPDATE_ACK"}]
    \cup [action : {"UPDATE_LISTE"}, list : Directory]
    \cup [action : {"ADD_USER_CONFIRM"}, who : Newcomer]
    \cup [action : {"INIT_FIND_NEIGHBORS", "I_M_NEIGHBOR"}, isLeaver : BOOLEAN]
    \cup [action : {"RECEIVE_NODE_LEAVING"}, children : SUBSET Site]

(* Every variable keeps its type, in every network and whatever the users  *)
(* do; only a site whose user leaves goes through the departure.           *)
MemberTypeOK ==
    /\ LinksTypeOK(MemberBody)
    /\ nb \in [Site -> Int]
    /\ tee \in [Site -> SUBSET Site]
    /\ election \in [Site -> [elu : Site \cup {NoSite},
                              parent : Site \cup {NoSite}, pending : Int]]
    /\ electedID \in [Site -> Site \cup {NoSite}]
    /\ goal \in [Site -> Goal]
    /\ clicksLeft \in [Site -> Nat]
    /\ plan \in Plan
    /\ directory \in [Site -> Directory]
    /\ waiting \in [Site -> Seq(Newcomer)]
    /\ departing \in [Site -> Int]
    /\ known \in [Site -> SUBSET Site]
    /\ section \in [Site -> Nat]
    /\ answered \in [Site -> Nat]
    /\ asksLeft \in [Newcomer -> Nat]
    /\ stays \subseteq plan.leavers /\ left \subseteq plan.leavers
    /\ \A s \in Site : section[s] > 0 \/ goal[s] = "LEAVING" => s \in plan.leavers
    /\ apart \in BOOLEAN

(* No site takes the first of its leavers off an empty list.  In a chain   *)
(* where two sites leave, one of them is elected twice and does.           *)
LeaversStored == \A s \in Site : departing[s] >= 0

(* The sites of the network: those that were there or were let in, and     *)
(* have not left.                                                          *)
Member == {s \in Site \ left : tee[s] # {}}

(* When nothing is on its way, all the members have the same directory:    *)
(* each member once, in the same order.  Joins and departures may overlap, *)
(* unless the newcomer joins at the leaver itself.                         *)
Overlap == ~apart /\ \E n \in Asked : plan.peer[n] \in Leaving
DirectoriesAgree ==
    Silent /\ ~Overlap => \A s \in Member :
        /\ ToSet(directory[s]) = Member
        /\ Len(directory[s]) = Cardinality(Member)
        /\ \A t \in Member : directory[s] = directory[t]

(* Nobody joined while somebody was leaving, and those who left had one    *)
(* neighbour.                                                              *)
LeafDepartures == apart /\ \A s \in left : nb[s] = 1

(* When nothing is on its way, a member waits in a wave for as many        *)
(* answers as it has neighbours.                                           *)
CountsMatchLinks ==
    Silent /\ LeafDepartures =>
        \A s \in Member : nb[s] = Cardinality(tee[s] \ left)

(* Of those who ask to join or to leave, somebody is served. *)
Served == (Asked \cap Member) \cup (Leaving \cap left)
SomebodyServed == Asked \cup Leaving # {} ~> Served # {}

(* When nothing moves any more, all of them were served, unless two sites  *)
(* stood for them, or three wanted to be served: the one that loses the    *)
(* election does not stand again for a single site that waits, and the one *)
(* that wins drops the wave with which it stands for those that came while *)
(* it waited.                                                              *)
Candidates ==
    {<<plan.peer[n], "JOINING">> : n \in Asked} \cup
    {<<s, "LEAVING">> : s \in Leaving}
NobodyForgotten ==
    Silent /\ (\A s \in Site : section[s] = 0) =>
        \/ Served = Asked \cup Leaving
        \/ Cardinality(Candidates) > 1 \/ Cardinality(Asked \cup Leaving) > 2

(* However sites come and go, those that stay can all reach each other:    *)
(* once all is silent, no part of them is cut off from the others.         *)
Closed(S) == \A s \in S : tee[s] \cap Member \subseteq S
StayConnected ==
    Silent /\ LeafDepartures =>
        \A S \in SUBSET Member : S # {} /\ Closed(S) => S = Member
-----------------------------------------------------------------------------
(* What the code does not keep; no run checks these.                       *)

(* Whoever asks is let in. *)
LetIn == \A n \in Newcomer : n \in Asked ~> n \in Member

(* Whoever wants to leave leaves. *)
MayGo == \A s \in Site : s \in plan.leavers \ stays ~> s \in left
=============================================================================
