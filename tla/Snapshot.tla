------------------------------ MODULE Snapshot ------------------------------
(***************************************************************************)
(* The snapshot by colours of control/snapshot_handler.go.  A user clicks: *)
(* his site turns red and sends a marker, every site turns red at its first*)
(* marker, saves its state and sends it to the initiator with its balance, *)
(* the application messages it sent minus those it received.  A red site   *)
(* that receives a white message (a prepost) tells the initiator.  The     *)
(* balances add up to the number of preposts, so the initiator knows when  *)
(* it has them all; it then exports the states and the preposts and sends  *)
(* a reset that turns all the sites white.                                 *)
(*                                                                         *)
(* The application messages are those of the transfers (torrentMessagesMap *)
(* of central_handler.go); which of them are sent, and to whom, is left    *)
(* open: a transfer may also draw its own site, which then writes to       *)
(* itself, and routeMessage drops such a message wherever it comes.  What  *)
(* a site received stands for its register, which the transfers change     *)
(* when contents arrive.  Stamps and vectors are left out.                 *)
(***************************************************************************)
EXTENDS Links

CONSTANTS
    Quota,  \* Quota[s]: how many application messages s sends
    Clicks  \* Clicks[s]: how often the user of s asks for a snapshot

ASSUME QuotaAssumption == Quota \in [Site -> Nat]
ASSUME ClicksAssumption == Clicks \in [Site -> Nat]

VARIABLES
    snap,      \* snap[s]: the Snapshot of the Controller of s
    work,      \* work[s]: the application messages s has sent and received
    exports,   \* history: the files that finalizeSnapshot has written
    clicksLeft \* clicksLeft[s]: clicks the user of s has not made yet

vars == <<linkVars, snap, work, exports, clicksLeft>>

White == "blanc"
Red == "rouge"

(* The bodies of the messages.  Those of the snapshot itself are red.  *)
App(color) == [action |-> "App", color |-> color]
Marker == [action |-> "MARKER"]
Prepost(id) == [action |-> "PREPOST_COLLECT", item |-> id]
Reset == [action |-> "RESET_SNAPSHOT"]
StateOf(s) == [site |-> s, sent |-> work[s].sent, received |-> work[s].received]
StateCollect(s) ==
    [action |-> "STATE_COLLECT", bilan |-> snap[s].bilan, state |-> StateOf(s)]

SiteState == [site : Site, sent : SUBSET Ids, received : SUBSET Ids]
Body ==
    [action : {"App"}, color : {White, Red}]
    \cup {Marker, Reset}
    \cup [action : {"PREPOST_COLLECT"}, item : Ids]
    \cup [action : {"STATE_COLLECT"}, bilan : Int, state : SiteState]

NoSnapshot ==
    [myColor |-> White, isInitiator |-> FALSE, initiatorID |-> NoSite,
     bilan |-> 0, nbEtats |-> 0, nbMsg |-> 0, states |-> {}, preposts |-> {}]

Init ==
    /\ LinksInit
    /\ snap = [s \in Site |-> NoSnapshot]
    /\ work = [s \in Site |-> [sent |-> {}, received |-> {}]]
    /\ exports = <<>>
    /\ clicksLeft = Clicks

-----------------------------------------------------------------------------
(* A transfer of s sends a message: HandleIncomingFromLocal counts it and  *)
(* gives it the colour of the site, whoever it is for.                     *)
Send(s, dest) ==
    /\ Cardinality(work[s].sent) < Quota[s]
    /\ Originate(s, <<Letter(dest, App(snap[s].myColor))>>)
    /\ snap' = [snap EXCEPT ![s].bilan = @ + 1]
    /\ work' = [work EXCEPT ![s].sent = @ \cup {<<s, sent[s] + 1>>}]
    /\ UNCHANGED <<exports, clicksLeft>>

(* triggerLocalSnapshot. *)
Clicked(s, initiatorID) ==
    [snap[s] EXCEPT !.myColor = Red, !.isInitiator = FALSE,
                    !.initiatorID = initiatorID]

(* Mutant: the balance of the initiator does not count. *)
InitiatedUnbalanced(s) ==
    [Clicked(s, s) EXCEPT !.isInitiator = TRUE,
                          !.nbEtats = Cardinality(Site) - 1,
                          !.nbMsg = 0,
                          !.states = {StateOf(s)}, !.preposts = {}]

Initiated(s) ==
    [Clicked(s, s) EXCEPT !.isInitiator = TRUE,
                          !.nbEtats = Cardinality(Site) - 1,
                          !.nbMsg = snap[s].bilan,
                          !.states = {StateOf(s)}, !.preposts = {}]

(* The user clicks: a white site starts a snapshot, a red one passes the   *)
(* marker on as it came, from "USER", unless it is the initiator.          *)
ByUser(message) == [message EXCEPT !.sender = NoSite]
Click(s) ==
    LET markers == <<Letter(BROADCAST, Marker)>> IN
    /\ clicksLeft[s] > 0
    /\ clicksLeft' = [clicksLeft EXCEPT ![s] = @ - 1]
    /\ \/ /\ snap[s].myColor = White
          /\ snap' = [snap EXCEPT ![s] = Initiated(s)]
          /\ Originate(s, markers)
       \/ /\ snap[s].myColor = Red /\ snap[s].isInitiator
          /\ UNCHANGED <<linkVars, snap>>
       \/ /\ snap[s].myColor = Red /\ ~snap[s].isInitiator
          /\ link' = Written(link, s, Neighbours[s],
                             <<ByUser(Stamped(s, markers)[1])>>)
          /\ sent' = [sent EXCEPT ![s] = @ + 1]
          /\ UNCHANGED <<seen, snap>>
    /\ UNCHANGED <<work, exports>>

-----------------------------------------------------------------------------
(* finalizeSnapshot.  The register of the initiator was saved as a shallow *)
(* copy: the file shows what it holds by now.                              *)
Exported(t, sn) ==
    [states |-> {[site |-> st.site, sent |-> st.sent,
                  received |-> st.received,
                  register |-> IF st.site = t THEN work[t].received
                               ELSE st.received] : st \in sn.states},
     preposts |-> sn.preposts]

(* Mutant: the initiator does not turn white again. *)
ConcludedStaysRed(sn) == [sn EXCEPT !.nbEtats = 0, !.nbMsg = 0]

Concluded(sn) ==
    [sn EXCEPT !.myColor = White, !.isInitiator = FALSE,
               !.nbEtats = 0, !.nbMsg = 0]

(* Mutant: the preposts are not waited for. *)
ReadyWithoutPreposts(sn) == sn.nbEtats = 0

Ready(sn) == sn.nbEtats = 0 /\ sn.nbMsg = 0

(* What t does with a message of s once its Snapshot has become sn: the    *)
(* counters decide whether it concludes.                                   *)
Count(s, t, sn) ==
    \/ /\ Ready(sn)
       /\ snap' = [snap EXCEPT ![t] = Concluded(sn)]
       /\ exports' = Append(exports, Exported(t, sn))
       /\ Take(s, t, <<Letter(BROADCAST, Reset)>>)
    \/ /\ ~Ready(sn)
       /\ snap' = [snap EXCEPT ![t] = sn]
       /\ Take(s, t, <<>>)
       /\ UNCHANGED exports

Counting(sn) == sn.nbEtats > 0 \/ sn.nbMsg > 0
WithPrepost(sn, id) ==
    IF Counting(sn)
    THEN [sn EXCEPT !.nbMsg = @ - 1, !.preposts = @ \cup {id}]
    ELSE sn

-----------------------------------------------------------------------------
(* HandleIncomingFromNetwork. *)
Gets(s, t, action) == Receives(s, t) /\ FirstOf(s, t).body.action = action

(* An application message is counted and handed to its transfer.  One sent *)
(* white that comes to a red site is a prepost.                            *)
ReceiveApp(s, t) ==
    LET m == FirstOf(s, t)
        sn == [snap[t] EXCEPT !.bilan = @ - 1]
        isPrepost == m.body.color = White /\ sn.myColor = Red
    IN
    /\ Gets(s, t, "App")
    /\ work' = [work EXCEPT ![t].received = @ \cup {Id(m)}]
    /\ \/ /\ ~isPrepost
          /\ snap' = [snap EXCEPT ![t] = sn]
          /\ Take(s, t, <<>>)
          /\ UNCHANGED exports
       \/ /\ isPrepost /\ sn.isInitiator
          /\ Count(s, t, WithPrepost(sn, Id(m)))
       \/ /\ isPrepost /\ ~sn.isInitiator
          /\ snap' = [snap EXCEPT ![t] = sn]
          /\ Take(s, t, <<Letter(sn.initiatorID, Prepost(Id(m)))>>)
          /\ UNCHANGED exports
    /\ UNCHANGED clicksLeft

(* A white site takes its snapshot before it handles the marker, and then  *)
(* is red: it writes the marker once more, as a red site does, unless it   *)
(* is the initiator.                                                       *)
ReceiveMarker(s, t) ==
    LET m == FirstOf(s, t) IN
    /\ Gets(s, t, "MARKER")
    /\ \/ /\ snap[t].myColor = White
          /\ snap' = [snap EXCEPT ![t] = Clicked(t, m.sender)]
          /\ TakeWith(s, t, Neighbours[t],
                      <<Letter(m.sender, StateCollect(t))>>, <<m>>)
       \/ /\ snap[t].myColor = Red
          /\ TakeWith(s, t, Neighbours[t], <<>>,
                      IF snap[t].isInitiator THEN <<>> ELSE <<m>>)
          /\ UNCHANGED snap
    /\ UNCHANGED <<work, exports, clicksLeft>>

ReceiveState(s, t) ==
    LET body == FirstOf(s, t).body IN
    /\ Gets(s, t, "STATE_COLLECT")
    /\ Count(s, t, [snap[t] EXCEPT !.nbEtats = @ - 1,
                                   !.nbMsg = @ + body.bilan,
                                   !.states = @ \cup {body.state}])
    /\ UNCHANGED <<work, clicksLeft>>

ReceivePrepost(s, t) ==
    /\ Gets(s, t, "PREPOST_COLLECT")
    /\ Count(s, t, WithPrepost(snap[t], FirstOf(s, t).body.item))
    /\ UNCHANGED <<work, clicksLeft>>

ReceiveReset(s, t) ==
    /\ Gets(s, t, "RESET_SNAPSHOT")
    /\ \/ /\ snap[t].myColor = White
          /\ Take(s, t, <<>>)
          /\ UNCHANGED snap
       \/ /\ snap[t].myColor = Red
          /\ snap' = [snap EXCEPT ![t].myColor = White, ![t].isInitiator = FALSE]
          /\ TakeWith(s, t, Neighbours[t], <<>>, <<FirstOf(s, t)>>)
    /\ UNCHANGED <<work, exports, clicksLeft>>

Pass(s, t) == Relay(s, t) /\ UNCHANGED <<snap, work, exports, clicksLeft>>

Step(s, t) ==
    \/ ReceiveApp(s, t) \/ ReceiveMarker(s, t) \/ ReceiveState(s, t)
    \/ ReceivePrepost(s, t) \/ ReceiveReset(s, t) \/ Pass(s, t)

Next ==
    \/ \E s \in Site : Click(s) \/ \E dest \in Site : Send(s, dest)
    \/ \E s, t \in Site : Step(s, t)

Spec == Init /\ [][Next]_vars

(* The pipes deliver and siteLogic handles as long as something is on a    *)
(* link; no user has to click and no transfer has to send.                 *)
FairSpec == Spec /\ WF_vars(\E s, t \in Site : Step(s, t))
-----------------------------------------------------------------------------
(* Every variable keeps its type; a site knows its messages by the ids it  *)
(* drew for them, and what a site received had been sent.                  *)
Export ==
    [states : SUBSET [site : Site, sent : SUBSET Ids, received : SUBSET Ids,
                      register : SUBSET Ids],
     preposts : SUBSET Ids]
AllSent == UNION {work[s].sent : s \in Site}
TypeOK ==
    /\ LinksTypeOK(Body)
    /\ \A s \in Site :
          /\ snap[s].myColor \in {White, Red}
          /\ snap[s].isInitiator \in BOOLEAN
          /\ snap[s].initiatorID \in Site \cup {NoSite}
          /\ {snap[s].bilan, snap[s].nbEtats, snap[s].nbMsg} \subseteq Int
          /\ snap[s].states \subseteq SiteState
          /\ snap[s].preposts \subseteq Ids
          /\ \A id \in work[s].sent : id[1] = s /\ id[2] \in 1 .. sent[s]
          /\ work[s].received \subseteq AllSent
    /\ \A i \in DOMAIN exports : exports[i] \in Export
    /\ clicksLeft \in [Site -> Nat]

(* A snapshot shows a cut the system could have been in: it holds the      *)
(* state of every site, no site has received what none had sent, and the   *)
(* preposts are the very messages that were on their way.                  *)
SentIn(e) == UNION {st.sent : st \in e.states}
ReceivedIn(e) == UNION {st.received : st \in e.states}
ConsistentCut(e) ==
    /\ {st.site : st \in e.states} = Site
    /\ Cardinality(e.states) = Cardinality(Site)
    /\ ReceivedIn(e) \subseteq SentIn(e)
    /\ e.preposts = SentIn(e) \ ReceivedIn(e)
ExportsAreCuts == \A i \in DOMAIN exports : ConsistentCut(exports[i])

(* A click is exported once at most: no late message makes a snapshot that *)
(* is over conclude again.                                                 *)
ClicksMade ==
    Cardinality(UNION {{s} \X (clicksLeft[s] + 1 .. Clicks[s]) : s \in Site})
OneExportPerClick == Len(exports) <= ClicksMade

(* A snapshot that no second click disturbs ends, if no transfer has asked *)
(* its own site: it is exported and all the sites turn white again.        *)
Over == Len(exports) = 1 /\ \A s \in Site : snap[s].myColor = White
NobodyWritesToItself ==
    \A s, t \in Site : \A k \in DOMAIN link[s][t] :
        link[s][t][k].dest # link[s][t][k].sender
UndisturbedEnds ==
    [](ClicksMade <= 1 /\ NobodyWritesToItself) => (ClicksMade = 1 ~> Over)

-----------------------------------------------------------------------------
(* What the code does not keep; no run checks these. *)

(* A single click ends in a snapshot, whatever was sent before it: once a  *)
(* site has counted a message to itself, the balances never add up again.  *)
SnapshotEnds == [](ClicksMade <= 1) => (ClicksMade = 1 ~> Over)

(* The register that a snapshot shows for a site is the one the site had   *)
(* when it turned red.                                                     *)
ExportsAreAsSaved ==
    \A i \in DOMAIN exports : \A st \in exports[i].states :
        st.register = st.received
=============================================================================
