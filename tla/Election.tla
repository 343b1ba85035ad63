------------------------------ MODULE Election ------------------------------
(***************************************************************************)
(* The election by extinction of waves of election.go.  Each candidate     *)
(* sends a wave with its name; a site follows the smallest name it has met *)
(* and forgets the others, so that only the wave of the smallest candidate *)
(* gets all its echoes.  That candidate proclaims itself; it holds the     *)
(* election until it releases it.                                          *)
(*                                                                         *)
(* Here the users of the sites start the elections ("START_ELECTION"): the *)
(* goal is empty, and nobody releases.  The goals JOINING and LEAVING, the *)
(* work of the elected site and the release belong to the membership,      *)
(* which is why nb, tee and goal are variables: here they keep their value.*)
(***************************************************************************)
EXTENDS Links, FiniteSets

CONSTANT Clicks  \* Clicks[s]: how often the user of s starts an election

ASSUME ClicksAssumption == Clicks \in [Site -> Nat]

VARIABLES
    nb,        \* nb[s]: NetworkControler.NbNeighbors
    tee,       \* tee[s]: the sites that read what s writes
    election,  \* election[s]: NetworkControler.Election
    electedID, \* electedID[s]: who holds the election, as far as s knows
    goal,      \* goal[s]: CurrentElectionGoal
    clicksLeft \* clicksLeft[s]: clicks the user of s has not made yet

electionVars == <<election, electedID, goal>>
vars == <<linkVars, nb, tee, electionVars, clicksLeft>>

None == [elu |-> NoSite, parent |-> NoSite, pending |-> 0]
ElectionState(elu, parent, pending) ==
    [elu |-> elu, parent |-> parent, pending |-> pending]
Goal == {"", "JOINING", "LEAVING"}

BuildElectionWave(elu, parent) ==
    Letter(BROADCAST_NEIGHBORS,
           [action |-> "WAVE_ELECTION", elu |-> elu, parent |-> parent])
BuildElectionEcho(elu, dest) ==
    Letter(dest, [action |-> "ECHO_ELECTION", elu |-> elu, parent |-> NoSite])
BuildElected(s) ==
    Letter(BROADCAST, [action |-> "ELECTED", elu |-> s, parent |-> NoSite])
ElectionBody ==
    [action : {"WAVE_ELECTION", "ECHO_ELECTION", "ELECTED"},
     elu : Site, parent : Site \cup {NoSite}]

Init ==
    /\ LinksInit
    /\ nb = [s \in Site |-> Cardinality(Neighbours[s])]
    /\ tee = Neighbours
    /\ election = [s \in Site |-> None]
    /\ electedID = [s \in Site |-> NoSite]
    /\ goal = [s \in Site |-> ""]
    /\ clicksLeft = Clicks

-----------------------------------------------------------------------------
(* StartElection. *)

MayStand(s) ==
    /\ election[s] = None \/ election[s].elu > s
    /\ electedID[s] = NoSite

(* Mutant: a candidate has no parent, as the comment of Parent has it. *)
StandWithoutParent(s, g) ==
    /\ election' = [election EXCEPT ![s] = ElectionState(s, NoSite, nb[s])]
    /\ goal' = [goal EXCEPT ![s] = g]
    /\ UNCHANGED electedID

Stand(s, g) ==
    /\ election' = [election EXCEPT ![s] = ElectionState(s, s, nb[s])]
    /\ goal' = [goal EXCEPT ![s] = g]
    /\ UNCHANGED electedID

UserStartsElection(s) ==
    /\ clicksLeft[s] > 0
    /\ clicksLeft' = [clicksLeft EXCEPT ![s] = @ - 1]
    /\ \/ /\ MayStand(s)
          /\ Stand(s, "")
          /\ OriginateTo(s, tee[s], <<BuildElectionWave(s, s)>>)
       \/ ~MayStand(s) /\ UNCHANGED <<linkVars, electionVars>>
    /\ UNCHANGED <<nb, tee>>

-----------------------------------------------------------------------------
(* HandleElectionWave. *)

Gets(s, t, action) ==
    Receives(s, t) /\ FirstOf(s, t).body.action = action

(* Mutant: the first wave is kept, a smaller name does not replace it. *)
BetterIfFirst(t, elu) == election[t] = None

Better(t, elu) == election[t] = None \/ election[t].elu > elu

(* Mutant: every site answers at once, as a leaf does. *)
AdoptWaveEarlyEcho(s, t) ==
    LET m == FirstOf(s, t)
        elu == m.body.elu
    IN
    /\ Gets(s, t, "WAVE_ELECTION") /\ Better(t, elu)
    /\ election' = [election EXCEPT ![t] =
                       ElectionState(elu, m.sender, nb[t] - 1)]
    /\ TakeTo(s, t, tee[t], <<BuildElectionWave(elu, m.sender),
                              BuildElectionEcho(elu, m.sender)>>)
    /\ UNCHANGED <<electedID, goal, nb, tee, clicksLeft>>

(* The first wave, or one of a smaller name: t follows it and passes it    *)
(* on; a leaf answers at once.                                             *)
AdoptWave(s, t) ==
    LET m == FirstOf(s, t)
        elu == m.body.elu
    IN
    /\ Gets(s, t, "WAVE_ELECTION") /\ Better(t, elu)
    /\ election' = [election EXCEPT ![t] =
                       ElectionState(elu, m.sender, nb[t] - 1)]
    /\ TakeTo(s, t, tee[t],
              <<IF nb[t] = 1 THEN BuildElectionEcho(elu, m.sender)
                ELSE BuildElectionWave(elu, m.sender)>>)
    /\ UNCHANGED <<electedID, goal, nb, tee, clicksLeft>>

(* A worse wave, or the same one from a site that had it from t. *)
IgnoreWave(s, t) ==
    LET body == FirstOf(s, t).body IN
    /\ Gets(s, t, "WAVE_ELECTION") /\ ~Better(t, body.elu)
    /\ election[t].elu < body.elu \/ body.parent = t
    /\ TakeTo(s, t, tee[t], <<>>)
    /\ UNCHANGED <<electionVars, nb, tee, clicksLeft>>

(* The same wave by another way stands for an echo; the last one is        *)
(* answered to the parent, who for a candidate is the candidate itself.    *)
CountWave(s, t) ==
    LET body == FirstOf(s, t).body
        e == election[t]
    IN
    /\ Gets(s, t, "WAVE_ELECTION")
    /\ e # None /\ e.elu = body.elu /\ body.parent # t
    /\ election' = [election EXCEPT ![t].pending = @ - 1]
    /\ TakeTo(s, t, tee[t],
              IF e.pending = 1 THEN <<BuildElectionEcho(e.elu, e.parent)>>
              ELSE <<>>)
    /\ UNCHANGED <<electedID, goal, nb, tee, clicksLeft>>

-----------------------------------------------------------------------------
(* HandleElectionEcho. *)

Answers(t, elu) == election[t] # None /\ election[t].elu = elu

IgnoreEcho(s, t) ==
    /\ Gets(s, t, "ECHO_ELECTION") /\ ~Answers(t, FirstOf(s, t).body.elu)
    /\ TakeTo(s, t, tee[t], <<>>)
    /\ UNCHANGED <<electionVars, nb, tee, clicksLeft>>

CountEcho(s, t) ==
    /\ Gets(s, t, "ECHO_ELECTION") /\ Answers(t, FirstOf(s, t).body.elu)
    /\ election' = [election EXCEPT ![t].pending = @ - 1]

WaitForMoreEchoes(s, t) ==
    /\ CountEcho(s, t)
    /\ election[t].pending > 1
    /\ TakeTo(s, t, tee[t], <<>>)
    /\ UNCHANGED <<electedID, goal, nb, tee, clicksLeft>>

PassEchoToParent(s, t) ==
    LET e == election[t] IN
    /\ CountEcho(s, t)
    /\ e.pending <= 1 /\ e.elu # t
    /\ TakeTo(s, t, tee[t], <<BuildElectionEcho(e.elu, e.parent)>>)
    /\ UNCHANGED <<electedID, goal, nb, tee, clicksLeft>>

(* The wave of t comes first everywhere: t is elected. *)
LastEcho(s, t) ==
    /\ Gets(s, t, "ECHO_ELECTION") /\ Answers(t, FirstOf(s, t).body.elu)
    /\ election[t].pending <= 1 /\ election[t].elu = t
Wins(s, t) ==
    /\ LastEcho(s, t) /\ CountEcho(s, t)
    /\ electedID' = [electedID EXCEPT ![t] = t]

(* HandleElectionResult has nothing to do for an empty goal. *)
BecomeElected(s, t) ==
    /\ Wins(s, t) /\ goal[t] = ""
    /\ TakeTo(s, t, tee[t], <<BuildElected(t)>>)
    /\ UNCHANGED <<goal, nb, tee, clicksLeft>>

-----------------------------------------------------------------------------
HandleElected(s, t) ==
    /\ Gets(s, t, "ELECTED")
    /\ electedID' = [electedID EXCEPT ![t] = FirstOf(s, t).sender]
    /\ election' = [election EXCEPT ![t] = None]
    /\ TakeTo(s, t, tee[t], <<>>)
    /\ UNCHANGED <<goal, nb, tee, clicksLeft>>

Pass(s, t) ==
    RelayTo(s, t, tee[t]) /\ UNCHANGED <<electionVars, nb, tee, clicksLeft>>

WaveStep(s, t) == AdoptWave(s, t) \/ IgnoreWave(s, t) \/ CountWave(s, t)
EchoStep(s, t) ==
    IgnoreEcho(s, t) \/ WaitForMoreEchoes(s, t) \/ PassEchoToParent(s, t)
Step(s, t) ==
    \/ WaveStep(s, t) \/ EchoStep(s, t) \/ BecomeElected(s, t)
    \/ HandleElected(s, t) \/ Pass(s, t)

Next ==
    \/ \E s \in Site : UserStartsElection(s)
    \/ \E s, t \in Site : Step(s, t)

Spec == Init /\ [][Next]_vars

(* The pipes deliver and siteLogic handles; no user has to click. *)
Fairness == \A s, t \in Site : WF_vars(Step(s, t))
FairSpec == Spec /\ Fairness

(* The same for users who only start an election while their site has not  *)
(* heard of another one: a site that stands after it has answered a larger *)
(* name is elected beside that name, even in a tree.  In a network with a  *)
(* cycle of three and a site outside, the restriction is not enough (run   *)
(* election_kite).                                                         *)
EarlyNext ==
    Next /\ \A s \in Site : clicksLeft'[s] # clicksLeft[s] => seen[s] = {}
EarlySpec == Init /\ [][EarlyNext]_vars
EarlyFairSpec == EarlySpec /\ Fairness
-----------------------------------------------------------------------------
(* Every variable keeps its type, in every network; in a tree whose users   *)
(* start early only a candidate is its own parent.  On a cycle a site that  *)
(* has forgotten all in HandleElected can adopt its own old wave again from *)
(* a neighbour, which is then its parent.                                   *)
ElectionTypeOK ==
    /\ nb \in [Site -> Nat]
    /\ tee \in [Site -> SUBSET Site]
    /\ election \in [Site -> [elu : Site \cup {NoSite},
                              parent : Site \cup {NoSite}, pending : Int]]
    /\ electedID \in [Site -> Site \cup {NoSite}]
    /\ goal \in [Site -> Goal]
    /\ clicksLeft \in [Site -> Nat]
OwnParent == \A s \in Site : election[s].elu = s <=> election[s].parent = s
TypeOK == LinksTypeOK(ElectionBody) /\ ElectionTypeOK /\ OwnParent

(* Two sites never hold the election together, not even two candidates of  *)
(* which each could not know of the other when it stood.                   *)
Holds(s) == electedID[s] = s
OneHolder == \A s, t \in Site : Holds(s) /\ Holds(t) => s = t

(* Whoever is elected has been followed by all: at that moment every site  *)
(* stands behind it, or behind a smaller name that will find it elected.   *)
ElectedByAll ==
    [][\A s \in Site : ~Holds(s) /\ Holds(s)' =>
           \A t \in Site : election[t] # None /\ election[t].elu <= s]_vars

(* Once somebody has stood, all the sites come to know the same holder for *)
(* good, the smallest of those who stood.                                  *)
Stood == {s \in Site : clicksLeft[s] < Clicks[s]}
Smallest(s) == s \in Stood /\ \A t \in Stood : s <= t
AgreeOn(s) == \A t \in Site : electedID[t] = s
ElectionConcludes ==
    Stood # {} ~> [](\E s \in Site : Smallest(s) /\ AgreeOn(s))
=============================================================================
