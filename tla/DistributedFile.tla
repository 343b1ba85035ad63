-------------------------- MODULE DistributedFile --------------------------
(***************************************************************************)
(* The distributed queue ("file repartie") that guards the shared register *)
(* (pkg/distributed_file), driven by the controller of each site           *)
(* (pkg/control) and by the transfer goroutines that want to publish the   *)
(* file they just downloaded (the end of StartOutgoingTransfer).           *)
(*                                                                         *)
(* Every site runs one goroutine, siteLogic, that handles one event at a   *)
(* time.  When a handler finds that the site's own request comes first it  *)
(* sends StartSC on TorrentScChan, an UNBUFFERED channel: siteLogic then   *)
(* stops until some goroutine of the site receives.  A transfer goroutine  *)
(* is a task: it asks for the critical section, waits for StartSC,         *)
(* broadcasts the register, and says it has finished.                      *)
(*                                                                         *)
(* Membership is fixed here.  The network is what the flooding of          *)
(* network_controler provides between two given sites: every message       *)
(* arrives once, and in the order it was sent (module Flooding).           *)
(***************************************************************************)
EXTENDS Clocks, Sequences

CONSTANTS
    N,          \* number of sites; a site is its index in the directory
    Task,       \* the goroutines that will want the critical section, each
                \* for a file of its own
    SiteOf,     \* SiteOf[a]: the site whose process runs task a
    UiRequests  \* UiRequests[s]: clicks left on "LOCAL_SC_REQUEST" in the UI

Site == 0 .. N - 1

ASSUME SitesAssumption == N \in Nat
ASSUME TasksAssumption == SiteOf \in [Task -> Site]
ASSUME UiAssumption == UiRequests \in [Site -> Nat]

VARIABLES
    clock,    \* clock[s]: Controller.Lamport, shared with DistFile.EstampClock
    tab,      \* tab[s][t]: DistributedFile.Tab of site s
    net,      \* net[s][t]: messages from s that t has yet to handle, in order
    out,      \* out[s]: OutputTorrentChan, filled by the tasks of s
    local,    \* local[s]: FromLocalUser events that siteLogic has yet to handle
    blocked,  \* blocked[s]: siteLogic is stopped on TorrentScChan <- StartSC
    ackTo,    \* ackTo[s]: whom the stopped handler will answer once resumed
    pc,       \* pc[a]: where task a is in StartOutgoingTransfer
    reg,      \* reg[s]: the tasks whose file the register of s records
    uiLeft,   \* uiLeft[s]: clicks the user of s has not made yet
    published \* history: the register content broadcast last by any task

vars == <<clock, tab, net, out, local, blocked, ackTo, pc, reg, uiLeft,
          published>>

-----------------------------------------------------------------------------
(* Messages and queue entries. *)

QueueMessage == {"SC_REQUEST", "SC_LIBERATION", "ACK"}
NetMessage ==
    [type : QueueMessage \cup {"RegisterUpdate"}, stamp : Nat,
     payload : SUBSET Task]
LocalMessage ==
    [type : {"AskingFromSC", "DoneWithSC", "RegisterUpdate", "LOCAL_SC_REQUEST"},
     stamp : Nat, payload : SUBSET Task]
TabEntry == [type : QueueMessage, date : Nat]

Msg(type, stamp, payload) ==
    [type |-> type, stamp |-> stamp, payload |-> payload]
Entry(type, date) == [type |-> type, date |-> date]

(* Mutant: equal stamps do not fall back on the site index. *)
EstPrioritaireNoTieBreak(dateA, siteA, dateB, siteB) == dateA <= dateB

(* EstPrioritaire: the total order on requests, by stamp and then by site. *)
EstPrioritaire(dateA, siteA, dateB, siteB) ==
    \/ dateA < dateB
    \/ dateA = dateB /\ siteA < siteB

(* compareTab: the entry of s comes before the entry of every other site. *)
CompareTab(entries, s) ==
    \A t \in Site \ {s} :
        EstPrioritaire(entries[s].date, s, entries[t].date, t)

(* isScReadyForApp, as the three network handlers of the queue compute it. *)
Ready(entries, s) == entries[s].type = "SC_REQUEST" /\ CompareTab(entries, s)

-----------------------------------------------------------------------------
(* The channels. *)

Broadcast(chans, s, m) ==
    [chans EXCEPT ![s] =
        [t \in Site |-> IF t = s THEN @[t] ELSE Append(@[t], m)]]
Pop(chans, s, t) == [chans EXCEPT ![s][t] = Tail(@)]
Send(chans, s, t, m) == [chans EXCEPT ![s][t] = Append(@, m)]
SendAcks(chans, s, dests, stamp) ==
    [chans EXCEPT ![s] =
        [t \in Site |-> IF t \in dests
                        THEN Append(@[t], Msg("ACK", stamp, {})) ELSE @[t]]]

-----------------------------------------------------------------------------
(* Initial state: NewController and GetNewDistributedFile at every site. *)

Init ==
    /\ clock = [s \in Site |-> 0]
    /\ tab = [s \in Site |-> [t \in Site |-> Entry("SC_LIBERATION", 0)]]
    /\ net = [s \in Site |-> [t \in Site |-> <<>>]]
    /\ out = [s \in Site |-> <<>>]
    /\ local = [s \in Site |-> <<>>]
    /\ blocked = [s \in Site |-> FALSE]
    /\ ackTo = [s \in Site |-> {}]
    /\ pc = [a \in Task |-> "transfer"]
    /\ reg = [s \in Site |-> {}]
    /\ uiLeft = UiRequests
    /\ published = {}

-----------------------------------------------------------------------------
(* The task goroutine. *)

(* The file is complete: the task records it in the register of its own    *)
(* site, without any critical section, and asks for one.  The register has *)
(* no lock; the tasks download different files here, so that what they     *)
(* write and what Merge writes at the same time are different lists, and   *)
(* either order gives the same register.                                   *)
Ask(a) ==
    LET s == SiteOf[a] IN
    /\ pc[a] = "transfer"
    /\ pc' = [pc EXCEPT ![a] = "waiting"]
    /\ reg' = [reg EXCEPT ![s] = @ \cup {a}]
    /\ out' = [out EXCEPT ![s] = Append(@, Msg("AskingFromSC", 0, {}))]
    /\ UNCHANGED <<clock, tab, net, local, blocked, ackTo, uiLeft, published>>

(* Rendezvous on TorrentScChan: the task receives StartSC, siteLogic       *)
(* resumes and returns the answer of the handler it had stopped in.  The   *)
(* clock has not moved since that handler read it for its ACK.             *)
Grant(a) ==
    LET s == SiteOf[a] IN
    /\ pc[a] = "waiting"
    /\ blocked[s]
    /\ pc' = [pc EXCEPT ![a] = "inCS"]
    /\ blocked' = [blocked EXCEPT ![s] = FALSE]
    /\ ackTo' = [ackTo EXCEPT ![s] = {}]
    /\ net' = SendAcks(net, s, ackTo[s], clock[s])
    /\ UNCHANGED <<clock, tab, out, local, reg, uiLeft, published>>

(* SendRegisterUpdateToPeer: the whole register of the site, to everyone. *)
Publish(a) ==
    LET s == SiteOf[a] IN
    /\ pc[a] = "inCS"
    /\ pc' = [pc EXCEPT ![a] = "published"]
    /\ out' = [out EXCEPT ![s] = Append(@, Msg("RegisterUpdate", 0, reg[s]))]
    /\ published' = reg[s]
    /\ UNCHANGED <<clock, tab, net, local, blocked, ackTo, reg, uiLeft>>

Finish(a) ==
    LET s == SiteOf[a] IN
    /\ pc[a] = "published"
    /\ pc' = [pc EXCEPT ![a] = "done"]
    /\ out' = [out EXCEPT ![s] = Append(@, Msg("DoneWithSC", 0, {}))]
    /\ UNCHANGED <<clock, tab, net, local, blocked, ackTo, reg, uiLeft,
                   published>>

-----------------------------------------------------------------------------
(* The event loop of the site: who fills the queue of local events. *)

(* listenLocalTorrentOutput stamps the message with the clock it finds. *)
ListenLocalTorrentOutput(s) ==
    /\ out[s] # <<>>
    /\ out' = [out EXCEPT ![s] = Tail(@)]
    /\ local' = [local EXCEPT ![s] =
                    Append(@, [Head(out[s]) EXCEPT !.stamp = clock[s]])]
    /\ UNCHANGED <<clock, tab, net, blocked, ackTo, pc, reg, uiLeft, published>>

(* listenUserUIInput: the user clicks on the button "LOCAL_SC_REQUEST". *)
ListenUserUIInput(s) ==
    /\ uiLeft[s] > 0
    /\ uiLeft' = [uiLeft EXCEPT ![s] = @ - 1]
    /\ local' = [local EXCEPT ![s] = Append(@, Msg("LOCAL_SC_REQUEST", 0, {}))]
    /\ UNCHANGED <<clock, tab, net, out, blocked, ackTo, pc, reg, published>>

-----------------------------------------------------------------------------
(* siteLogic on a local event (Controller.HandleIncomingFromLocal). *)

LocalEvent(s, types) ==
    /\ ~blocked[s]
    /\ local[s] # <<>>
    /\ Head(local[s]).type \in types
    /\ local' = [local EXCEPT ![s] = Tail(@)]

(* Mutant: the entry keeps the name of the local action. *)
DateOwnEntryLocalName(s, type) ==
    LET date == Tick(Tick(clock[s])) IN
    /\ clock' = [clock EXCEPT ![s] = date]
    /\ tab' = [tab EXCEPT ![s][s] = Entry("LOCAL_" \o type, date)]
    /\ net' = Broadcast(net, s, Msg(type, date, {}))

(* The controller ticks, then the queue ticks again, dates its own entry   *)
(* and broadcasts it with the same stamp.                                  *)
DateOwnEntry(s, type) ==
    LET date == Tick(Tick(clock[s])) IN
    /\ clock' = [clock EXCEPT ![s] = date]
    /\ tab' = [tab EXCEPT ![s][s] = Entry(type, date)]
    /\ net' = Broadcast(net, s, Msg(type, date, {}))

SCRequestFromBaseApp(s) ==
    /\ LocalEvent(s, {"AskingFromSC", "LOCAL_SC_REQUEST"})
    /\ DateOwnEntry(s, "SC_REQUEST")
    /\ UNCHANGED <<out, blocked, ackTo, pc, reg, uiLeft, published>>

SCStopFromBaseApp(s) ==
    /\ LocalEvent(s, {"DoneWithSC"})
    /\ DateOwnEntry(s, "SC_LIBERATION")
    /\ UNCHANGED <<out, blocked, ackTo, pc, reg, uiLeft, published>>

(* A message for the outside: the controller ticks, and sends it with the  *)
(* stamp it was given when it was read from the task.                      *)
ForwardRegisterUpdate(s) ==
    /\ LocalEvent(s, {"RegisterUpdate"})
    /\ clock' = [clock EXCEPT ![s] = Tick(@)]
    /\ net' = Broadcast(net, s, Head(local[s]))
    /\ UNCHANGED <<tab, out, blocked, ackTo, pc, reg, uiLeft, published>>

-----------------------------------------------------------------------------
(* siteLogic on a network event (Controller.HandleIncomingFromNetwork). *)

NetworkEvent(s, t, type) ==
    /\ ~blocked[t]
    /\ net[s][t] # <<>>
    /\ Head(net[s][t]).type = type

(* The end of handleDistributedFile at t: the new entries are in place; if *)
(* the request of t comes first, t stops on TorrentScChan BEFORE it has    *)
(* returned its answer, else the answer goes out.                          *)
HandleDistributedFile(s, t, entries, answered) ==
    LET m == Head(net[s][t])
        now == Update(Update(clock[t], m.stamp), m.stamp)
    IN
    /\ clock' = [clock EXCEPT ![t] = now]
    /\ tab' = [tab EXCEPT ![t] = entries]
    /\ IF Ready(entries, t)
       THEN /\ blocked' = [blocked EXCEPT ![t] = TRUE]
            /\ ackTo' = [ackTo EXCEPT ![t] = answered]
            /\ net' = Pop(net, s, t)
       ELSE /\ net' = SendAcks(Pop(net, s, t), t, answered, now)
            /\ UNCHANGED <<blocked, ackTo>>
    /\ UNCHANGED <<out, local, pc, reg, uiLeft, published>>

(* Mutant: the request is noted but not acknowledged. *)
SCRequestFromNetworkNoAck(s, t) ==
    /\ NetworkEvent(s, t, "SC_REQUEST")
    /\ HandleDistributedFile(s, t,
           [tab[t] EXCEPT ![s] = Entry("SC_REQUEST", Head(net[s][t]).stamp)],
           {})

SCRequestFromNetwork(s, t) ==
    /\ NetworkEvent(s, t, "SC_REQUEST")
    /\ HandleDistributedFile(s, t,
           [tab[t] EXCEPT ![s] = Entry("SC_REQUEST", Head(net[s][t]).stamp)],
           {s})

(* Mutant: the liberation resets the entry to its initial value. *)
SCStopFromNetworkUndated(s, t) ==
    /\ NetworkEvent(s, t, "SC_LIBERATION")
    /\ HandleDistributedFile(s, t,
           [tab[t] EXCEPT ![s] = Entry("SC_LIBERATION", 0)], {})

SCStopFromNetwork(s, t) ==
    /\ NetworkEvent(s, t, "SC_LIBERATION")
    /\ HandleDistributedFile(s, t,
           [tab[t] EXCEPT ![s] = Entry("SC_LIBERATION", Head(net[s][t]).stamp)],
           {})

(* Mutant: the acknowledgement replaces a standing request. *)
AckFromNetworkOverwrites(s, t) ==
    /\ NetworkEvent(s, t, "ACK")
    /\ HandleDistributedFile(s, t,
           [tab[t] EXCEPT ![s] = Entry("ACK", Head(net[s][t]).stamp)], {})

(* An acknowledgement never hides a request that is still standing. *)
AckFromNetwork(s, t) ==
    /\ NetworkEvent(s, t, "ACK")
    /\ HandleDistributedFile(s, t,
           [tab[t] EXCEPT ![s] = IF @.type = "SC_REQUEST" THEN @
                                 ELSE Entry("ACK", Head(net[s][t]).stamp)],
           {})

(* Mutant: the register received takes the place of the site's own one,    *)
(* as HandleRegisterUpdateMessage does for DeleteMe.                       *)
HandleRegisterUpdateReplaces(s, t) ==
    LET m == Head(net[s][t]) IN
    /\ NetworkEvent(s, t, "RegisterUpdate")
    /\ clock' = [clock EXCEPT ![t] = Update(@, m.stamp)]
    /\ reg' = [reg EXCEPT ![t] = m.payload]
    /\ net' = Pop(net, s, t)
    /\ UNCHANGED <<tab, out, local, blocked, ackTo, pc, uiLeft, published>>

(* HandleRegisterUpdateMessage: the register received is merged in. *)
HandleRegisterUpdate(s, t) ==
    LET m == Head(net[s][t]) IN
    /\ NetworkEvent(s, t, "RegisterUpdate")
    /\ clock' = [clock EXCEPT ![t] = Update(@, m.stamp)]
    /\ reg' = [reg EXCEPT ![t] = @ \cup m.payload]
    /\ net' = Pop(net, s, t)
    /\ UNCHANGED <<tab, out, local, blocked, ackTo, pc, uiLeft, published>>

-----------------------------------------------------------------------------

TaskStep(a) == Grant(a) \/ Publish(a) \/ Finish(a)
LocalStep(s) ==
    SCRequestFromBaseApp(s) \/ SCStopFromBaseApp(s) \/ ForwardRegisterUpdate(s)
NetworkStep(s, t) ==
    \/ SCRequestFromNetwork(s, t)
    \/ SCStopFromNetwork(s, t)
    \/ AckFromNetwork(s, t)
    \/ HandleRegisterUpdate(s, t)

Next ==
    \/ \E a \in Task : Ask(a) \/ TaskStep(a)
    \/ \E s \in Site : \/ ListenUserUIInput(s)
                       \/ ListenLocalTorrentOutput(s)
                       \/ LocalStep(s)
    \/ \E s \in Site : \E t \in Site \ {s} : NetworkStep(s, t)

Spec == Init /\ [][Next]_vars

(* The goroutines of a process run, its FIFO queues are read in order and  *)
(* the pipes deliver: every step but the user's is eventually taken.       *)
Fairness ==
    /\ \A a \in Task : WF_vars(TaskStep(a))
    /\ \A s \in Site : /\ WF_vars(ListenLocalTorrentOutput(s))
                       /\ WF_vars(LocalStep(s))
    /\ \A s \in Site : \A t \in Site \ {s} : WF_vars(NetworkStep(s, t))

FairSpec == Spec /\ Fairness
-----------------------------------------------------------------------------
(* Properties. *)

(* Every variable keeps its type. *)
TypeOK ==
    /\ clock \in [Site -> Nat]
    /\ tab \in [Site -> [Site -> TabEntry]]
    /\ net \in [Site -> [Site -> Seq(NetMessage)]]
    /\ out \in [Site -> Seq(LocalMessage)]
    /\ local \in [Site -> Seq(LocalMessage)]
    /\ blocked \in [Site -> BOOLEAN]
    /\ ackTo \in [Site -> SUBSET Site]
    /\ pc \in [Task -> {"transfer", "waiting", "inCS", "published", "done"}]
    /\ reg \in [Site -> SUBSET Task]
    /\ uiLeft \in [Site -> Nat]
    /\ published \in SUBSET Task

(* Two sites never both find that their own request comes first: whatever  *)
(* the number of requests, local or in flight, compareTab elects one site. *)
Granted(s) == Ready(tab[s], s)
GrantExclusion == \A s, t \in Site : Granted(s) /\ Granted(t) => s = t

(* A standing request, dated d, is known as it was made to the site that   *)
(* holds entry e at the end of channel q, or it is on its way there behind *)
(* older messages only; either way nothing after it can replace it.        *)
Silent(q, k) ==
    \A i \in k .. Len(q) : q[i].type \notin {"SC_REQUEST", "SC_LIBERATION"}
OlderThan(q, k, d) ==
    \A i \in 1 .. k : q[i].type \in QueueMessage => q[i].stamp < d
Announced(q, e, d) ==
    \/ e = Entry("SC_REQUEST", d) /\ Silent(q, 1)
    \/ /\ e.date < d
       /\ \E k \in 1 .. Len(q) :
            /\ q[k].type = "SC_REQUEST" /\ q[k].stamp = d
            /\ OlderThan(q, k - 1, d)
            /\ Silent(q, k + 1)
RequestsAnnounced ==
    \A s \in Site : \A t \in Site \ {s} :
        tab[s][s].type = "SC_REQUEST" =>
            Announced(net[s][t], tab[t][s], tab[s][s].date)

(* The one restriction under which the next properties hold: a site runs   *)
(* at most one task, and its user does not ask for the section as well.    *)
OneUserPerSite ==
    /\ \A a, b \in Task : SiteOf[a] = SiteOf[b] => a = b
    /\ \A a \in Task : UiRequests[SiteOf[a]] = 0

(* At most one goroutine of the whole network is between StartSC and       *)
(* DoneWithSC.                                                             *)
Critical(a) == pc[a] \in {"inCS", "published"}
Mutex == \A a, b \in Task : Critical(a) /\ Critical(b) => a = b

(* The same, between sites only: whatever happens inside one site, no two  *)
(* sites have a goroutine in the section.                                  *)
SitesExclude ==
    \A a, b \in Task : Critical(a) /\ Critical(b) => SiteOf[a] = SiteOf[b]

(* A task that enters the critical section finds in the register of its    *)
(* site all that was published before: the update of the previous holder   *)
(* has been merged, not merely sent.                                       *)
EntrySeesPublished ==
    \A a \in Task : pc[a] = "inCS" => published \subseteq reg[SiteOf[a]]

(* The entry a site keeps for another one never moves to an older date:    *)
(* no late message undoes what a later one of the same site said.          *)
DatesNeverGoBack ==
    [][\A s \in Site : \A t \in Site \ {s} :
           tab[s][t].date <= tab'[s][t].date]_vars

(* A fact known to one site and unknown to another is still on its way:    *)
(* its task has yet to publish, or an update that holds it is queued.      *)
Carries(q, a) == \E i \in DOMAIN q : a \in q[i].payload
NoFactLost ==
    \A a \in Task, t \in Site :
        \/ a \in reg[t]
        \/ pc[a] \in {"transfer", "waiting", "inCS"}
        \/ \E s \in Site : \/ Carries(out[s], a)
                           \/ Carries(local[s], a)
                           \/ Carries(net[s][t], a)

(* The sites together behave as the one register of SharedRegister. *)
Register == INSTANCE SharedRegister WITH phase <- pc, shared <- published
RefinesSharedRegister == Register!Spec

(* Whoever waits, somebody enters: the first grant is never lost, however  *)
(* many sites compete for it.                                              *)
SomebodyEnters ==
    (\E a \in Task : pc[a] = "waiting") ~>
    (\E a \in Task : pc[a] \in {"inCS", "published", "done"})

(* What is published reaches everybody: a file downloaded by a site ends   *)
(* up in the register of every site.                                       *)
RegistersSynchronized ==
    \A a \in Task, s \in Site : pc[a] = "waiting" ~> a \in reg[s]

(* Every task that waits is granted in the end, unless the siteLogic of    *)
(* some site stops for good: it has a StartSC to hand over, and no task of *)
(* the site is left to receive it.                                         *)
Stopped(s) == blocked[s] /\ \A a \in Task : SiteOf[a] = s => pc[a] # "waiting"
GrantedUnlessStopped ==
    \A a \in Task :
        pc[a] = "waiting" ~> pc[a] # "waiting" \/ \E s \in Site : Stopped(s)
=============================================================================
