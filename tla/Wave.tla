-------------------------------- MODULE Wave --------------------------------
(***************************************************************************)
(* The diffusion with echoes of vague.go: a site sends a wave to its       *)
(* neighbours, each site that meets it passes it on, and answers its       *)
(* parent when all its other neighbours have answered or have met the wave *)
(* by another way.  The wave of the initiator is complete when the echoes  *)
(* have come back.  The wave goes over single links (BROADCAST_NEIGHBORS), *)
(* an echo is flooded towards its one destination.                         *)
(*                                                                         *)
(* Each click on START_WAVE draws a new uuid; a user clicks once here, so  *)
(* the site stands for the id of its wave.                                 *)
(***************************************************************************)
EXTENDS Links

CONSTANT Initiators  \* the sites whose user starts a wave

ASSUME InitiatorsAssumption == Initiators \subseteq Site

VARIABLES
    waves,   \* waves[s]: NetworkControler.Waves, a map from waves to states
    met,     \* history: met[w] is the sequence of the sites that w has met
    complete \* history: the waves for which onWaveComplete was called

vars == <<linkVars, waves, met, complete>>

WaveState == [parent : Site \cup {NoSite}, pending : Int, done : BOOLEAN]
State(parent, pending) == [parent |-> parent, pending |-> pending, done |-> FALSE]

Body == [action : {"WAVE", "RETURN_WAVE"}, wave : Initiators,
         parent : Site \cup {NoSite}]

NbNeighbors(s) == Cardinality(Neighbours[s])

BuildWave(w, parent) ==
    Letter(BROADCAST_NEIGHBORS,
           [action |-> "WAVE", wave |-> w, parent |-> parent])
(* Encode refuses the empty DEST of a site that has no parent. *)
BuildEcho(w, parent) ==
    IF parent = NoSite THEN <<>>
    ELSE <<Letter(parent, [action |-> "RETURN_WAVE", wave |-> w,
                           parent |-> NoSite])>>

(* Mutant: a wave that has been answered is not known any more. *)
KnowsIfPending(s, w) == w \in DOMAIN waves[s] /\ waves[s][w].pending > 1

Knows(s, w) == w \in DOMAIN waves[s]
Set(s, w, state) ==
    waves' = [waves EXCEPT ![s] =
                 [x \in DOMAIN @ \cup {w} |-> IF x = w THEN state ELSE @[x]]]
Forget(s, w) ==
    waves' = [waves EXCEPT ![s] = [x \in DOMAIN @ \ {w} |-> @[x]]]

Init ==
    /\ LinksInit
    /\ waves = [s \in Site |-> [w \in {} |-> State(NoSite, 0)]]
    /\ met = [w \in Initiators |-> <<>>]
    /\ complete = {}

(* InitWave. *)
InitWave(s) ==
    /\ s \in Initiators /\ met[s] = <<>>
    /\ Set(s, s, State(NoSite, NbNeighbors(s)))
    /\ met' = [met EXCEPT ![s] = <<s>>]
    /\ Originate(s, <<BuildWave(s, NoSite)>>)
    /\ UNCHANGED complete

ReceivesWave(s, t, action) ==
    Receives(s, t) /\ FirstOf(s, t).body.action = action

(* Mutant: a leaf passes the wave on and waits for an echo like any other. *)
FirstWaveNoLeaf(s, t) ==
    LET m == FirstOf(s, t)
        w == m.body.wave
    IN
    /\ ReceivesWave(s, t, "WAVE") /\ ~Knows(t, w)
    /\ met' = [met EXCEPT ![w] = Append(@, t)]
    /\ Set(t, w, State(m.sender, NbNeighbors(t) - 1))
    /\ Take(s, t, <<BuildWave(w, m.sender)>>)
    /\ UNCHANGED complete

(* Mutant: the wave is answered at once, before it has been passed on. *)
FirstWaveEarlyEcho(s, t) ==
    LET m == FirstOf(s, t)
        w == m.body.wave
    IN
    /\ ReceivesWave(s, t, "WAVE") /\ ~Knows(t, w)
    /\ met' = [met EXCEPT ![w] = Append(@, t)]
    /\ Set(t, w, State(m.sender, NbNeighbors(t) - 1))
    /\ Take(s, t, <<BuildWave(w, m.sender)>> \o BuildEcho(w, m.sender))
    /\ UNCHANGED complete

(* Mutant: the parent is the one that the message names, not its sender. *)
FirstWaveNamedParent(s, t) ==
    LET m == FirstOf(s, t)
        w == m.body.wave
        pending == NbNeighbors(t) - 1
    IN
    /\ ReceivesWave(s, t, "WAVE") /\ ~Knows(t, w)
    /\ met' = [met EXCEPT ![w] = Append(@, t)]
    /\ IF pending = 0
       THEN Take(s, t, BuildEcho(w, m.sender)) /\ UNCHANGED waves
       ELSE /\ Set(t, w, State(m.body.parent, pending))
            /\ Take(s, t, <<BuildWave(w, m.sender)>>)
    /\ UNCHANGED complete

(* HandleWave, the first time: the sender is the parent; a leaf answers at *)
(* once and forgets the wave.                                              *)
FirstWave(s, t) ==
    LET m == FirstOf(s, t)
        w == m.body.wave
        pending == NbNeighbors(t) - 1
    IN
    /\ ReceivesWave(s, t, "WAVE") /\ ~Knows(t, w)
    /\ met' = [met EXCEPT ![w] = Append(@, t)]
    /\ IF pending = 0
       THEN Take(s, t, BuildEcho(w, m.sender)) /\ UNCHANGED waves
       ELSE /\ Set(t, w, State(m.sender, pending))
            /\ Take(s, t, <<BuildWave(w, m.sender)>>)
    /\ UNCHANGED complete

(* HandleWave: a child of t passes on the wave it had from t. *)
ChildsWave(t, body) == body.parent = t

(* HandleEcho: a wave that t does not know, or that it has answered.       *)
LateEcho(t, w) == Knows(t, w) => waves[t][w].done

(* Either one is of no use to t. *)
Ignorable(t, body) ==
    IF body.action = "WAVE"
    THEN Knows(t, body.wave) /\ ChildsWave(t, body)
    ELSE LateEcho(t, body.wave)

Ignore(s, t) ==
    /\ Receives(s, t)
    /\ Ignorable(t, FirstOf(s, t).body)
    /\ Take(s, t, <<>>)
    /\ UNCHANGED <<waves, met, complete>>

(* HandleWave: a neighbour met the wave by another way, its wave stands    *)
(* for an echo.  At the last one the state goes and the parent is answered *)
(* - the initiator has none, and its onWaveComplete is not called.         *)
CountWave(s, t) ==
    LET m == FirstOf(s, t)
        w == m.body.wave
        state == waves[t][w]
    IN
    /\ ReceivesWave(s, t, "WAVE") /\ Knows(t, w) /\ ~ChildsWave(t, m.body)
    /\ IF state.pending = 1
       THEN Forget(t, w) /\ Take(s, t, BuildEcho(w, state.parent))
       ELSE /\ Set(t, w, [state EXCEPT !.pending = @ - 1])
            /\ Take(s, t, <<>>)
    /\ UNCHANGED <<met, complete>>

(* HandleEcho: one echo less; at the last one the initiator is done, any   *)
(* other site answers its parent and keeps the state.                      *)
HandleEcho(s, t) ==
    LET w == FirstOf(s, t).body.wave
        state == waves[t][w]
    IN
    /\ ReceivesWave(s, t, "RETURN_WAVE") /\ ~LateEcho(t, w)
    /\ \/ /\ state.pending > 1
          /\ Set(t, w, [state EXCEPT !.pending = @ - 1])
          /\ Take(s, t, <<>>)
          /\ UNCHANGED complete
       \/ /\ state.pending <= 1 /\ state.parent = NoSite
          /\ Forget(t, w)
          /\ Take(s, t, <<>>)
          /\ complete' = complete \cup {w}
       \/ /\ state.pending <= 1 /\ state.parent # NoSite
          /\ Set(t, w, [state EXCEPT !.pending = @ - 1, !.done = TRUE])
          /\ Take(s, t, BuildEcho(w, state.parent))
          /\ UNCHANGED complete
    /\ UNCHANGED met

Pass(s, t) == Relay(s, t) /\ UNCHANGED <<waves, met, complete>>

Step(s, t) ==
    \/ FirstWave(s, t) \/ CountWave(s, t) \/ HandleEcho(s, t)
    \/ Ignore(s, t) \/ Pass(s, t)

Next ==
    \/ \E s \in Site : InitWave(s)
    \/ \E s, t \in Site : Step(s, t)

Spec == Init /\ [][Next]_vars

(* The pipes deliver and siteLogic handles as long as something is on a    *)
(* link; no user has to click.                                             *)
FairSpec == Spec /\ WF_vars(\E s, t \in Site : Step(s, t))
-----------------------------------------------------------------------------
MetSites(w) == {met[w][i] : i \in DOMAIN met[w]}

(* Every variable keeps its type; a parent is a neighbour, and only the    *)
(* initiator has none.  A count may fall below zero (see MetOnce).         *)
TypeOK ==
    /\ LinksTypeOK(Body)
    /\ \A s \in Site : DOMAIN waves[s] \subseteq Initiators
    /\ \A s \in Site : \A w \in DOMAIN waves[s] :
          /\ waves[s][w] \in WaveState
          /\ \/ waves[s][w].parent \in Neighbours[s]
             \/ waves[s][w].parent = NoSite /\ s = w
    /\ \A w \in Initiators : MetSites(w) \subseteq Site
    /\ complete \subseteq Initiators

(* A complete wave has met every site: the initiator never concludes on    *)
(* echoes that came too early.  This is so in every tree (WaveProofs), and *)
(* in the network of the run, where a leaf starts before a cycle.  It is   *)
(* not so in every network: when two cycles lie one behind the other, a    *)
(* site can forget a wave in CountWave, meet it again, and its second WAVE *)
(* is counted by the initiator as an answer.                               *)
CompleteMeansAll == \A w \in complete : MetSites(w) = Site

(* A site is met once: a wave that was answered and forgotten does not     *)
(* come back as a new one by a slower way.                                 *)
MetOnce ==
    \A w \in Initiators : \A i, j \in DOMAIN met[w] :
        met[w][i] = met[w][j] => i = j

(* A wave is not abandoned: when nothing is on its way any more, the waves *)
(* that were started are complete.                                         *)
Silent == \A s, t \in Site : link[s][t] = <<>>
NoWaveAbandoned ==
    Silent => \A w \in Initiators : met[w] # <<>> => w \in complete

-----------------------------------------------------------------------------
(* What the code does not keep; no run checks it. *)

(* A wave, once started, completes. *)
WaveCompletes == \A w \in Initiators : met[w] # <<>> ~> w \in complete
=============================================================================
