# HomemadeTorrent in TLA+

HomemadeTorrent lets a set of sites share files. They keep a common register
of who has which file, guard it with a distributed critical section, talk
through a network that floods messages, elect a site when somebody joins or
leaves, and take snapshots of the whole. This directory models the parts of
that which are hard to test: the protocols between the sites. TLC checks them
on small networks, and TLAPS proves the safety of the flooding, of the
critical section, of the register, of the snapshots and of the transfers for
every number of sites, that of the waves and the elections for every tree, and
that of joins, as long as nobody leaves, for every network.

Paths are those of the repository; `pkg/` is `src/pkg/`.

## 1. The system

A site is one process. Its goroutines (`pkg/event_loop/event_loop.go:42-91`):

- `listenStdEntry` reads messages of the network from standard input,
- `listenUserUIInput` runs the web interface, whose buttons send local messages,
- `listenLocalTorrentOutput` stamps and queues what the transfers want to send,
- the main loop passes what is read to `siteLogic` and writes its answers,
- `siteLogic` handles ONE event at a time: all the state of the protocols
  belongs to it,
- one goroutine for each file that is being downloaded, and some for its parts.

What a site writes is copied by `cat out | tee in...` to the named pipes of its
neighbours (`simulations/reseau.sh`): single FIFO links that lose nothing.

| Component | State | Operations | What is hard | What must hold |
|---|---|---|---|---|
| flooding, `network_controler.go` | `SeenMessages` | route, handle once, write again | cycles, copies, order over several paths | everybody hears, once, in causal order; floods die out |
| critical section, `distributed_file/` with `control/handlers.go`, `clock/clock.go` and the end of `torrentlogic.StartOutgoingTransfer` | `Tab`, the Lamport clock, `TorrentScChan` | request, liberation, acknowledgement, grant | messages that cross, equal stamps, an unbuffered channel, several tasks at a site | one site at a time; who enters has the register of the last holder; somebody enters |
| register, `registre/` | files, parts, who has them | merge, add, remove | no lock, replaced as a whole by a departure | no fact is lost |
| waves, `vague.go` | `Waves` | start, pass on, count, echo | waves that stand for echoes, forgotten states | a complete wave has met every site once |
| election, `election.go` | `Election`, `ElectedID`, goal | stand, adopt, echo, proclaim, release | several candidates, old waves, state set to nil | one holder, whom all have followed |
| joins, `dynamique_network_handler.go`, `add_user.go` | waiting peers, directory, neighbours | ask, election, new links, new layout | counts that change during a wave, dropped waves, a peer that waits alone | all directories agree; counts match links; somebody is let in |
| departures, `leaving_process.go`, `find_neighbours.go` | names of the neighbours, tee | find neighbours, election, section, new tee, exit | equality of counts, links rebuilt from old names, text lost with the process | those who stay are connected and forget the leaver |
| snapshot, `control/snapshot_handler.go`, `control/handlers.go` | colour, balance, counters, states | click, marker, collect, conclude, reset | messages on their way, two clicks, late messages | a consistent cut, exported once |
| transfers, `torrentLogic/` | parts, channels, files on disk | ask a checksum, ask the content, save, record, publish | failing peers that count as done, no timeout, registers replaced | nobody is listed for what it does not have; a copy goes bad only between two answers of its peer |
| vector clock, `vector_clock.go` | a vector | tick, update | sizes that change | the maximum, place by place |

The components share the queue of `siteLogic`, so that handlers never overlap;
the network controller calls the controller for all that it does not know
(`network_controler.go:139`), the controller calls the queue and blocks on a
transfer (`handlers.go:43`), and the transfers send through
`OutputTorrentChan`. The register is shared between goroutines without a lock.

## 2. The modules

| Module | Models |
|---|---|
| `Links` | the FIFO links and the routing; what every network protocol EXTENDS |
| `Flooding` | `Links` with contentless messages: what flooding promises to the layers above |
| `Wave` | `vague.go` on `Links` |
| `Election` | `election.go` on `Links` |
| `Membership` | joins and departures, on `Election`: `nb` and `tee` change |
| `Snapshot` | the snapshot by colours on `Links` |
| `Clocks` | the Lamport clock |
| `DistributedFile` | the critical section, the tasks that use it, the register they publish |
| `Transfer` | a download part by part, the peers that answer, the registers with their lists, departures as the registers see them |
| `SharedRegister` | abstract: one register, written under mutual exclusion, that loses nothing |
| `DistributedFileProofs` | theorems about the critical section, what the registers publish, and the refinement of `SharedRegister` |
| `TransferProofs` | theorems about the safety of `Transfer` |
| `FloodingProofs` | theorems about the order in which floods arrive |
| `LinksProofs` | trees, and what the links promise to every protocol built on them |
| `WaveProofs` | theorems about the waves, on `LinksProofs` |
| `ElectionProofs` | theorems about the elections, on `LinksProofs` |
| `SnapshotProofs` | theorems about the snapshots, on `LinksProofs` |
| `MembershipProofs` | types under joins and departures; theorems about joins |
| `MC...` | small networks and inputs for TLC |

How code becomes action:

- A handler of `siteLogic` is one action, with the message it takes and all the
  messages it writes, in their order. In `Links`, `link[s][t]` is what `s` has
  written and `t` has yet to handle: the output queue, the pipes and the input
  queue in one. `Take` does what `HandleIncomingFromNetwork` does around a
  handler: a new message that is not for `t` alone is written again FIRST, then
  come the answers. `Relay` is the case without a handler: a copy, an own
  message, one for another site.
- A message keeps its id when it is written again; the id (a uuid) is modelled
  as the sender and the rank among its messages. The sender field is separate
  from the id because a marker that a red site floods has the sender "USER".
- The order of the sites' names is the order of numbers.
- In `DistributedFile` the flooding is one FIFO channel per pair of sites: each
  message arrives once and in order, which is what `Flooding` shows of the real
  network (`EveryoneHears`, `CausalDelivery`, `IsNew`). A message passes
  through three queues before that: `out[s]` (the channel of the tasks),
  `local[s]` (the queue of `siteLogic`) and `net[s][t]`.
- The stop of `siteLogic` on the unbuffered `TorrentScChan` is a state,
  `blocked[s]`: no handler of `s` runs until a task receives (`Grant`), and only
  then the answer of the stopped handler leaves. The code asks for the grant in
  every network handler of the queue whenever `isReady` holds, and so does the
  model: several grants for one request are possible.
- A task is the end of `StartOutgoingTransfer`: it records its file in the own
  register, asks, waits, publishes, and says that it has finished. `reg[s]` is
  the set of the tasks whose fact ("my site has my file") is in the register.
- `Membership` keeps `nb[s]` (what `NbNeighbors` says) apart from `tee[s]` (to
  whom the shell copies), because the code does: they are changed by different
  messages. A join changes two tees from outside, `AddFifoToLink`, while `link`
  still holds what the old tee copied; a new reader gets what the old one had not
  copied yet, any end of the text on its way (`Uncopied`). A site that has left
  handles nothing, and its own text may be cut off with it (`HandleTeeUpdate`).
  What the users will do (`plan`) is chosen in the initial state.
- The layout changes of the vector clock and of the queue's table (`AddUser`,
  `UpdateListe`, `RemoveUser`) move entries to the index of the same name. The
  modules keep such entries by name, and `directory` is what remains of them.
- In `Transfer` a part goroutine is a place in its program, `at[x][i]`, and has
  at most one message on its way, `mail[x][i]`; the dispatcher's channels cannot
  fill. The lists of a register are sets; the one effect of the slices behind
  them, `slices.Delete` on lists that share an array, is kept (`Spoilt`). The
  critical section is a variable, `holder`, taken by a site that has handled all
  it was sent: what `DistributedFile` shows (`Mutex`, `EntrySeesPublished`). So
  is the stop of a `siteLogic` that `DistributedFile` shows (`Stop`, `stopped`):
  whenever another site wants the section, or has had it, the one that is in it
  may stop; it then handles nothing, and what its transfers write does not leave.
- The disks of `Transfer` can be trusted no more than the code trusts them. A
  copy of `Faulty` may change at any time (`CopyChanges`), be read as
  zeros (`torrentlogic.go:388-398` logs the error and sends what it has), or fail to be
  written (`WriteFails`). `shasum[x][i]` is the copy that the peer looked at for its first
  answer and `content[x][i]` what it read for the second one, since these are two reads.
  `os.WriteFile` is two steps, `TruncatePart` and `SavePart`: what is read
  between them is empty, or zeros.
- The branches that `StartTransferForPart` cannot reach are left out:
  `AskPeerForPart` returns `false` only with an error, so that its retry loop
  (`torrentlogic.go:240-256`) never runs; and with one question at a time no
  answer is unexpected.
- In `Snapshot`, `Send` is any of the three kinds of messages that the balance
  counts, to any site, the sender included: a transfer may draw its own site
  (`torrentlogic.go:230-231`), `central_handler.go:208-209` counts the message and
  `routeMessage` drops it. What a site has received stands for its register.

Variables named "history" in the modules (`journal`, `knows`, `met`,
`complete`, `exports`, `published`) record what happened; no guard reads them,
but for `met`, which lets a user start his wave once.

## 3. What is checked

Each run is a question. Nine hold; three show that what a comment or a document
says is not what the code does.

| Run | Instance | Shows |
|---|---|---|
| `df_grants` | 2 sites, two tasks at one of them, one click at each | `GrantExclusion`: two sites never both find that their request comes first, however many requests overlap. `RequestsAnnounced`: a standing request is known to every other site, or on its way with only older messages before it and nothing after it that could replace it. `DatesNeverGoBack`. |
| `df_compete` | 3 sites, 2 of them with a task, the third only acknowledges | `Mutex`; `EntrySeesPublished`: who enters has merged all that was published; `NoFactLost`; the refinement of `SharedRegister`; under fairness `SomebodyEnters`, and `GrantedUnlessStopped`: who asks is granted in the end, unless a `siteLogic` stops. |
| `df_contention` (violated) | 2 sites, a task each | `RegistersSynchronized` fails: see below |
| `df_twotasks` (violated) | 2 sites, two tasks at one, one at the other | `SitesExclude` fails |
| `flooding_kite` | a cycle of three and a fourth site; two senders, any destinations | `CausalDelivery`, `NoTwinsOnLink`, `EveryoneHears`, `FloodsDieOut` |
| `wave_kite` | a cycle of three, two leaves, the initiator is a leaf | `CompleteMeansAll`, `MetOnce`, `NoWaveAbandoned` |
| `election_chain` | 4 candidates on a chain, one of them twice | `ElectionConcludes`: all agree for good on the smallest |
| `election_triangle` | 3 candidates, all linked | `OneHolder`, `ElectedByAll` |
| `election_kite` (violated) | a cycle of three and a fourth site, 2 candidates | `OneHolder` fails |
| `snapshot_chain` | 3 sites, two clicks, one application message to any site, the own one included | `ExportsAreCuts`; `OneExportPerClick`; `UndisturbedEnds`: a single click ends in a snapshot, if no site wrote to itself. |
| `membership_pair` | two sites; two newcomers at different peers, or at the same one; a newcomer and a leaver, at either peer | `DirectoriesAgree`: once all is silent, all members list the same sites in the same order. `CountsMatchLinks`: a member waits in a wave for as many answers as it has links. `StayConnected`. `NobodyForgotten`: when nothing moves, all who asked were served, unless two sites stood. `LeaversStored`: nobody takes a leaver off an empty list. `SomebodyServed` under fairness. |
| `transfer_parts` | four sites, a file of two parts, one disk that may fail; two downloads, or one with two holders that leave, or a holder that leaves and asks | `RegistersTrue`: no register, held or on its way, lists a site for what it lacks. `AskedHasPart`: nobody is asked for a part it lacks, which would end its process. `AlteredBetweenAnswers`: a sound disk holds a bad copy only if a peer sent a good shasum and then other content. `LeaversForgotten`: after its update nobody lists a leaver again. `UndisturbedEnd`: a download ends while nobody leaves and no `siteLogic` stops. |

Each module also has a type invariant, checked in one of its runs. In all the
configurations `CHECK_DEADLOCK` is off because the system may really stop: users
click and transfers send a bounded number of times, and then nothing is left.

The disagreements found:

- **`df_contention`.** `handlers.go:43` sends StartSC each time `isReady` holds.
  While the task of the site is in the section, the entry is still a request
  that comes first, so that any message of the queue (the other site's
  acknowledgement or request) sends it again. No goroutine receives:
  `siteLogic` stops for ever, and the update never leaves. The register's
  README promises a register "shared and synchronized between all sites".
- **`df_twotasks`.** `distributed_file.go:61` overwrites the entry of the
  request already granted with the later date of a second one of the same site,
  and broadcasts it. The other site then comes first, while the first task is
  still in the section.
- **`election_kite`.** `HandleElected` sets `Election` to nil, and
  `HandleElectionWave` does not look at `ElectedID`: a wave of a worse
  candidate, late on another path, is adopted as a first one and wins too.

More of them are in the models and not kept as runs. The modules state the
property that fails, under "What the code does not keep" (`Wave`, `Snapshot`,
`Transfer`, `Membership`), so that adding it to a configuration shows the trace:

- `WaveCompletes`: in a triangle, if the last answer the initiator counts is a
  wave that came by another way, `vague.go:96-97` deletes the state and echoes
  to the empty parent; `onWaveComplete` is not called.
- `CompleteMeansAll` and `MetOnce` hold in every tree and in `wave_kite`, not in
  every network. With seven sites linked 1-2, 1-3, 1-4, 4-5, 4-6, 4-7, 5-6, 6-7, an
  echo overtakes by a second way the wave it answers; site 4 counts it, forgets the
  wave (`vague.go:96-97`), meets it again by way of 5, and the initiator 1 counts
  its second WAVE as an answer: the wave completes before leaf 2 was met.
- `OwnParent`, a part of the type invariant of `Election`, fails on cycles: a
  site whose `Election` was set to nil adopts its own old wave from a neighbour.
- `SnapshotEnds`: a message that a site sends to itself is counted
  (`central_handler.go:208-209`) and never arrives (`network_controler.go:193`).
  The sum of the balances is not zero again: no later snapshot ends.
- `OnlyIntactSpread`: only the shasum message is compared with the register. The
  content that comes later is written without a look (`torrentlogic.go:307-322`), so
  a copy that changed in between, or could not be read, spreads.
- `EveryDownloadEnds`: two sites that download want the section at the same time,
  and `handlers.go:43` stops the `siteLogic` of the first one (`df_contention`). It
  never liberates, and the other transfer waits for ever.
- `ExportsAreAsSaved`: `SavedRegister = *c.Reg` copies slice headers; the
  elements are changed in place afterwards.
- `LetIn`: two sites stand for one peer each; the loser is released with one
  peer that waits, and `election.go:143` stands again only for two. The log of
  `dynamique_network_handler.go:75` says that the peer waits for the release.
  `MayGo` fails for the same reason (`election.go:147`).
- `EveryWaitEnds`: `torrentlogic.go:272` announces a timeout, the `select` of line
  279 has none: a peer that leaves between its two answers is waited for without
  end.
- `HoldersKnown`: the register of a leaver replaces the others
  (`torrentlogic.go:440-442`). A site that has put its file together and waits
  for the section is overwritten, and then publishes a register that does not
  list it.
- `ListsHoldHosts`: `MakeInitialHardcodedRegister` gives one slice to a file and
  to all its parts (`registre.go:504-508`). Removing a leaver shifts and clears
  the shared array, and the later lists keep an empty name; a transfer that
  draws it sends a message without destination, which is not encoded, and waits.

With other plans and networks, `Membership` also shows: on a chain 1-2-3 whose two
ends leave, `LeaversStored` fails after 50 steps. Site 1 hears that 3 is elected,
forgets its own state, and adopts its own wave when 2 passes it back; it then expects no
answer, so that each of the two echoes it still gets makes it the winner. It starts
its departure twice, and the second time `PeersWaitingToLeave[1:]`
(`dynamique_network_handler.go:213`) is a slice of an empty list: the process panics
(the model goes on with a negative number, `departing`). Further: a newcomer that is let
in by a site whose neighbour leaves meanwhile is cut off, because `RestartTee`
rebuilds the links from names collected before (`leaving_process.go:153`); a
leaver with two neighbours leaves wrong counts behind, `NbNeighbors--` with no
increment for the neighbours that are taken over (`leaving_process.go:71`); the
last acknowledgement can die with the leaver's `cat`, and one neighbour keeps
its old tee; a second click of a newcomer lists it twice (no `continue` after
`dynamique_network_handler.go:146`); a site without neighbours wins no election;
on a chain with two newcomers at different peers the directories may differ for
good, since news of the two travel different ways; and three newcomers at one
peer, or two in a triangle, may leave one of them waiting for ever
(`add_user.go:110` drops the wave of the next election).

### Bounds, and why they are enough

Counts of clicks, tasks and messages are inputs of a run (`UiRequests`, `Task`,
`Quota`, `Clicks`, `Initiators`); nothing else is bounded, the clocks included:
with finite inputs the reachable states are finite. The queue between two sites
depends on these two and on the ties of their stamps, so two sites with several
requests each and three sites with competitors and a bystander show the
crossings; the proofs cover all other numbers. The networks are the smallest
with a cycle, with a leaf behind a cycle, and with an inner site of a tree; a
leaf behind a cycle is what makes a message arrive by two ways at a site that
others depend on.

`membership_pair` starts from the smallest network, so that four sites are
enough for two joins, or a join and a departure, at the same site or at
neighbours; every departure is that of a site with one link left or of one that
got a second link meanwhile. `transfer_parts` has two parts, so that a transfer
can have one of them and miss the other, two holders, so that one or both can
leave, and two sites that download, so that one can ask the other. The disk that fails is
that of `c`, for the first part: `c` writes it, publishes it, and `d`, which
downloads later, asks `c` for it, so that the copy can change between the two
answers and reach a sound disk. In two of the plans the lists do not share their
arrays any more (`shared`), as after a departure: when both holders leave then, nobody
is left to ask (`NoPeerHasPart`). An instance with
two downloads of one site and one of another, of one part, was checked as well
(93,040 states, invariants only, not kept as a run).

### Restrictions

Some properties hold only under a restriction, and the models without it break
them. They are limits of the code, not of the models.

- `Mutex`, `EntrySeesPublished`, the refinement: a site runs at most one task
  and its user does not press LOCAL_SC_REQUEST as well (`OneUserPerSite`).
  `df_twotasks` is what happens otherwise. `GrantExclusion` and
  `RequestsAnnounced` need no such restriction.
- `SomebodyEnters` is weak on purpose: the first grant is certain, the second
  is not, because of the stop that `df_contention` shows.
  `GrantedUnlessStopped` leaves out the runs in which a `siteLogic` stops, and then
  every grant is certain.
- The wave of `wave_kite` starts at a leaf. When the initiator is on a cycle,
  completion is lost (`WaveCompletes` fails), and a site that has forgotten the wave can
  meet it again by a slower path; only then does an echo come too late to count
  (the second half of `Ignorable`).
- `election_chain` and `election_triangle` use `EarlySpec`: a user starts an
  election only before his site has heard of another. A candidate that stands
  after it has answered a larger name is elected beside that name, even in a
  tree. `election_kite` shows that the restriction does not suffice on every
  network, and `ElectionConcludes` fails on cycles, where a candidate's last
  answer can be a wave and its echo to itself is dropped (`election.go:86`).
- `UndisturbedEnds` speaks of one click: two initiators ignore each other's
  markers and both wait for ever (`handlers.go:104`). It also leaves out the runs in
  which a site writes to itself (`NobodyWritesToItself`); `SnapshotEnds`, which does
  not, fails. The two safety properties have neither restriction.
- `Snapshot` runs on a chain. Its two safety properties are proved for every
  network and any clicks (section 4); `UndisturbedEnds` was also checked with one
  click on a triangle (258,000 states, not kept as a run).
- The tasks of `DistributedFile` download different files. The register has no
  lock, and two additions to the same list of peers, one by a transfer and one by a
  merge, can lose one of them. With different files they write different lists.
- In `Membership`, `CountsMatchLinks` and `StayConnected` speak of networks in
  which no join overlapped a departure and whoever left had one neighbour
  (`LeafDepartures`); `DirectoriesAgree` excludes a newcomer whose peer is itself
  leaving (`Overlap`): the peer then never gets all its answers. `NobodyForgotten`
  excludes two sites that stand (`LetIn` fails) and more than two who want to be
  served. `SomebodyServed` has no
  antecedent; its users start no election of their own, since such an election
  is never released. A user clicks once for each name.
- `UndisturbedEnd` excludes departures (no timeout), a `siteLogic` that stops, as two
  sites that want the section may make it (`EveryDownloadEnds` fails), and a second
  download of the same file at the same site, which may ask itself.
- `AlteredBetweenAnswers` allows what the code does not exclude, and nothing more:
  that the copy was good when its shasum was sent (`Slipped`). A file
  that is being written is empty for a moment.
- `Transfer` follows one file, and its transfers take turns in `holder`: one site
  with two files has the troubles of `df_twotasks`.

### Fairness

`siteLogic` takes whatever comes first in its queue, the pipes deliver, and
goroutines run: weak fairness of the steps that handle a message. `Flooding` and
`Election` state it for each link, since one queue is fed by all of them;
`Wave` and `Snapshot` need only that something moves while something is on a
link, and so does `Membership`, whose messages are finitely many; it adds that
the section is granted to a leaver (`DoneWithSCLeaving`). `Transfer` needs
only that the program does not stop while some goroutine, answer, end of a transfer,
update or departure once asked for has a step to take (`Step`): its steps are finitely
many. Nobody has to click, to leave, to stop, or to change a copy. That who waits
for the section gets it unless a `siteLogic` stops is `GrantedUnlessStopped` of
`df_compete`. `DistributedFile` states it for each task, each queue and each channel. No
user has to click, no transfer has to send or to end (`Ask` has no fairness).

## 4. What is proved

Eight modules, checked by TLAPS without any fact taken on trust. The theorems
hold for every value of the constants; what is assumed of these are the named
assumptions of the modules, which give them their types.

| Module | Theorem | Property |
|---|---|---|
| `DistributedFileProofs` | `TypeCorrect` | `TypeOK` |
| | `RequestsAreAnnounced` | `RequestsAnnounced` |
| | `GrantsExclude` | `GrantExclusion` |
| | `DatesAdvance` | `DatesNeverGoBack` |
| | `MutualExclusion` | `Mutex`, given `OneUserPerSite` |
| | `FactsAreKept` | `NoFactLost` |
| | `EntrySeesAll` | `EntrySeesPublished`, given `OneUserPerSite` |
| | `ImplementsSharedRegister` | `RefinesSharedRegister`, given `OneUserPerSite` |
| `FloodingProofs` | `TypeCorrect` | `TypeOK` |
| | `CausalOrder` | `CausalDelivery` |
| | `FloodsDoNotMultiply` | `NoTwinsOnLink` |
| | `StaysWithNeighbours` | `NeighboursOnly` (proved, checked by no run) |
| `WaveProofs` | `TypeCorrect` | `TypeOK` |
| | `WavesMeetOnce` | `MetOnce`, in a tree |
| | `WavesCompleteLast` | `CompleteMeansAll`, in a tree |
| | `WavesNotAbandoned` | `NoWaveAbandoned`, in a tree in which every site has a neighbour |
| `ElectionProofs` | `ElectionTyped` | the types of `TypeOK`, in every network |
| | `TypeCorrectInTree` | `TypeOK`, of `EarlySpec` in a tree |
| | `OneHolderInTree` | `OneHolder`, of `EarlySpec` in a tree |
| | `ElectedInTree` | `ElectedByAll`, of `EarlySpec` in a tree |
| | `SmallestHoldsInTree` | who holds the election is the smallest of those who stood, same restrictions |
| `SnapshotProofs` | `SnapshotTypeCorrect` | `TypeOK` |
| | `SnapshotCuts` | `ExportsAreCuts` |
| | `SnapshotOnce` | `OneExportPerClick` |
| `TransferProofs` | `TypeCorrect` | `TypeOK` |
| | `NobodyListedWrongly` | `RegistersTrue` |
| | `PeersHaveWhatIsAsked` | `AskedHasPart` |
| | `SpoiltBetweenAnswersOnly` | `AlteredBetweenAnswers` |
| | `NobodyNamesLeavers` | `LeaversForgotten` |
| `MembershipProofs` | `MemberTyped` | `MemberTypeOK` |
| | `JoinsConnected` | `StayConnected`, given `OnlyJoins` and `FirstConnected` |
| | `JoinsCounted` | `CountsMatchLinks`, given `OnlyJoins` and `AskOnce` |
| | `OnePeerAgrees` | `DirectoriesAgree`, given `OnlyJoins`, `AskOnce`, `OnePeer` and `FirstConnected` |

### The critical section

Any number `N` of sites, any tasks, any number of clicks
(`SitesAssumption`, `TasksAssumption`, `UiAssumption`).

None of the properties is inductive alone. For each ordered pair of sites
`u`, `v` the inductive invariant `Pairs` relates four things: the channel from
`u` to `v`, the entry that `v` keeps for `u`, the entry that `u` keeps for
itself, and the clock of `u`. It says that dates in the channel increase and are
later than the entry (`Ordered`), that none is later than the clock of `u`
(`Known`), and that the own standing request of `u` is announced
(`RequestsAnnounced`). What a step of the whole system can do to these four is
summed up in `PairStep` (receive one message, send one that is not older than
the clock, date the own entry, or nothing), and `NextPairStep` shows that every
action is one of these; the lemmas `PairReceive`, `PairPosts`, `PairDates` and
`PairKeeps` are then about one sequence and two records only. `GrantExclusion`
follows: if two sites both come first, each has an entry of the other that is
later than its own request; an announced request is either known as it is,
which contradicts the total order, or still on its way, and then the entry is
older than it, which again contradicts the order. For `Mutex`, the tasks are
tied to the grants (`Control`): a site whose task is in the section still holds
the request that was granted and still comes first.

### What is published

`FactsAreKept` needs no restriction. A fact is in the register of whoever
publishes it, an update leaves a queue only for the next one, and the last queue
only for the register (`ReachesStep`).

`EntrySeesAll` is about the order of three queues. Two invariants say why the
update of the previous holder cannot be late:

- `Unforwarded`: as long as an update of `s` has not reached the network, it
  comes before everything else that `s` has to say, and the request of `s`
  still comes first. Then no other site is granted, by `GrantExclusion`.
- `Barred`: as long as it is on its way from `s` to `t`, the liberation is
  behind it. At the moment it is handled, `t` will take a request of `s` for
  standing (`StandsAt`), dated `d`, and every request that `t` makes meanwhile
  comes after `d`. The entry that `t` keeps for `s` is not later than `d`, so
  that `t` is not granted (`BarredNotGranted`).

The update therefore has arrived when somebody enters. `ImplementsSharedRegister`
follows with `Mutex`: `Ask`, `Grant`, `Publish` and `Finish` are the four steps
of the abstract register, and every other step is a stutter.

### The flooding

Any set of sites, any symmetric network (connected or not), any number of
messages (`SiteAssumption`, `NeighboursAssumption`, `QuotaAssumption`).

`LinksInv` says what is on a link: messages as they were sent, written by their
sender or by a site that has seen them. A site writes a message once, when it
sends it or when its id is new to it, so that no link carries it twice.

`OrderInv` gives the order. Whoever has passed a message on has put it on each of
his links (`PassedOn`); on a link, a message comes after all it depends on, unless
these are settled at the reader (`InOrder`). "Settled" has three cases: own, seen,
or a message for one site that this site has seen. The third is needed because a
site does not pass on what is meant for it alone (`routeMessage`), so that what it
writes next overtakes that message; the only site that could mind has it already.
`WriteAfter` is the step that matters: what is settled at a site is settled at each
neighbour or on the link to it, before what the site writes next. This is what lets
`DistributedFile` take one ordered channel for each pair of sites, and `Snapshot`
its colours.

### Links and trees

`LinksProofs` has no theorem of its own; it says once what `WaveProofs`,
`ElectionProofs` and `SnapshotProofs` need of the links (`SiteFinite`: the sites
are finitely many processes).

A handler takes one message and writes at most one (`Taking`), a local event
writes one (`Sending`); the lemmas say what that does to the kinds of messages
that a link holds (`On`, `Single`, `Followed`), so that the protocols never look
into a sequence. `LinksInv` holds in every network: each link carries what its
writer sent or has seen, once.

A tree is a network of which every link is a bridge (`Acyclic`: some set of
sites is joined to the rest by that link alone) and no part is shut off
(`Connected`). `StarIsTree` is an example. `Toward(s, p, w)` says that `p` is the
neighbour of `s` on the way to `w`. Two facts are enough for all that follows:
each link points one way for each site (`EveryLinkPoints`, `OneWay`), and a set
that holds `w`, and with each site those behind it, is everything (`Descent`, by
the finite number of sites). In a tree, a message is new to its reader if and only
if it comes from the side of its sender (`TreeInv`): it reaches each site once.

A network that has grown by joins is a tree, since a newcomer is linked to its
peer alone. The network that `simulations/reseau.sh` starts is not: it has
cycles, and there `CompleteMeansAll`, `OneHolder` and `ElectionConcludes` are not
proved but, for other networks with cycles, refuted (section 3).

### The waves

Any set of initiators; `TypeCorrect` in every network, the rest in a tree. For
the wave of `w`, a site is met, and then has answered, when its neighbours behind
it have. The invariant follows the wave outwards and the echoes back: on each
link outwards there is the wave or its reader has met it, on each link inwards
the echo or the writer still owes it, and the count that a site keeps is the
number of its neighbours that owe it an echo. Hence an initiator that counts its
last echo is owed none, and `Descent` gives that all have been met
(`WavesCompleteLast`). When nothing is on its way, whoever owes an echo is waiting for
one behind it, which cannot go on for ever (`NoEndlessDescent`): nobody owes any, and
the wave is complete (`WavesNotAbandoned`). An initiator without a neighbour waits
for an echo that nobody can send, which is why that theorem asks for one.

### The elections

`ElectionTyped` holds in every network and for all clicks. The rest is about a
tree and `EarlySpec`, for any number of candidates and clicks.

While nobody is elected (`Open`), the invariant `OneCandidate(c)` holds for each
site `c`, whether it stands or not, and speaks only of those who follow `c` now:

- who follows `c` has been followed by the neighbour on the way to `c`, or that one
  has gone on to a smaller name (`Ahead`); no wave of `c` is coming from there any
  more, and the wave of `c` is on each link outwards behind all that it replaces (`Heard`);
- an echo about `c` was written by a site that owes none, and comes behind the
  waves of the same site (`EchoesBehind`); nobody who has answered is drawn away
  from `c` before its parent is (`SaidEcho`, `DrawnAway`);
- the count of a follower is the number of neighbours that owe it an answer (`Kept`).

Sites only ever go on to smaller names (`Onward`), so that a step for one candidate
disturbs the others little: `TurnStep` (somebody follows `c`), `CountStep` (an
answer about `c` is counted) and `AsideStep` (all the rest) preserve
`OneCandidate`, and each handler is one of these for each `c`. When a candidate
gets its last answer, `Descent` gives that ALL sites follow it now, hence that it is
the smallest of those who stood, and then that no wave of anybody is left on any
link (`NoWaveLeft`): the network is `Settled`, whoever sets its state to nil
afterwards meets no old wave, and nobody else can win. That last point is what
fails on a cycle (`election_kite`). `EarlySpec` is needed for `SaidEcho`: a site that
stands after it has answered a larger name leaves it while its parent still counts
that answer, and both may win.

### The snapshots

Every network that the links allow, trees or not, any number of messages and
clicks, clicks at the same time included (`SiteAssumption`,
`NeighboursAssumption`, `QuotaAssumption`, `ClicksAssumption`, `SiteFinite`).

The code counts; it keeps neither whose snapshot a site has joined nor what that
site looked like then. The invariant `SnapInv` says that such things exist
(`Going`): for each site `v` the id `mk[v]` of the marker for which it last
joined, the state `sv[v]` it had then, the id `r` of the last reset that was sent,
and the set `cut` of what had been sent in the last snapshot that ended. TLC
confirmed these invariants with history variables before they were proved.
For each initiator `c`:

- `Core`: who has joined stays red and has passed the marker on. What he sends
  later is red and is behind that marker on every link (`LateIsRed`, the argument of
  `OrderInv`, here for one message), so that whoever gets any of it has joined
  before (`Consistent`). That makes the collected states a cut.
- `Tally`: the two counters of `c` are the number of sites whose state is missing,
  and what the collected states sent, less what they received, less the preposts.
  When no state is missing, all have joined (`TallyStates`) and the
  second counter is the number of preposts still missing (`TallyMessages`): two zeros
  are a complete cut.
- `Collected`: each state or prepost on its way to `c` fits these counters and has
  no twin with another id; the links exclude copies of the same one.
- `Resets`, `Marks` and `Hue` are about the next snapshot: who has not heard of
  the last reset is still red, and the reset comes before everything that was sent
  white after it, so that no late marker, reset or prepost of a snapshot that is over
  disturbs the one after it.

The proof goes through the handlers by what they do to a snapshot (`Does`): nothing,
start one, join one, count, conclude one, turn white. `StepDoes` shows that every
action is one of these six; `ProgressKept` is about those that end nothing, and
`ConcludesGoes` about the end, where a new `r` and `cut` are chosen. For
`OneExportPerClick` the exports and the initiators together are at most as many as
the clicks (`Counted`). Two users who click at the same time ignore each other's
markers, neither snapshot need ever end, and the theorems say that no wrong one is
exported.

### The transfers

Any sites, transfers, parts, faulty disks and plans, two first owners
(`NoHostAssumption`, `PartsAssumption`, `OwnerAssumption`, `FaultyAssumption`,
`NamesAssumption`, `TransferAssumption`, `PlanAssumption`).

- `HoldingsInv`: a message between a part and its peer means that the peer has
  the part; a part asks for content only after a shasum that agrees with the
  register; no part ever disappears from a disk, whatever happens to what it
  holds. A register that lists a site for what it has therefore stays true, whoever
  merges or copies it.
- `SpoiltBetweenAnswersOnly`: a part that is asked for content had a good shasum
  (`ShasumAgreed`), and what it is sent comes after that (`ContentLater`, `ContentThere`).
  What is written that is not intact therefore differs from what the peer announced,
  and stays so as a witness of the bad copy: `Slipped`. Two transfers of one site that write
  the same part at the same time are included (`Overwritten`).
- `DepartureInv`: who is in the section has handled every update before he
  publishes (`SectionHeld`), and for each site `s` that is leaving every other
  site that is present has a place in its inbox, the departure of `s` or one
  that came later, whose update replaces its register, and neither that one nor
  any behind it names `s` (`DepartureSpreads`).

### Joins

`MemberTyped` is about every network and every plan, joins that race departures
included. Most of it is what the name says; the parts that are not are that a
directory never names a first site twice (`Directory`), which `WithoutUser`, a
removal of one name, rests on, and that only a site whose user leaves enters the
section for it or exits. The latter needs that an answer which says "you are the
leaver" goes to such a site only, and that nobody else is on its own list of
leavers (`Typing`).

The three other theorems assume `OnlyJoins`: the leavers of every plan are none.
With departures the properties need the restrictions of section 3, and are left to
TLC. Everything else is in: messages that cross a join, the two ends of a new
link, the text that a new reader gets (`Uncopied`), elections that overlap. The
first network may have cycles, and any number of sites may join.

- `JoinsConnected` (any clicks, any peers; `FirstConnected`: the first network is
  connected). `Linking` says who is linked to whom: the links of the first
  network stay, and who is in is linked to the peer it asked, both ways.
- `JoinsCounted` (`AskOnce`: a user clicks once for a name). A newcomer counts its
  peer when it asks, the peer counts it when it lets it in. `Requests` says that who has
  asked and is not in stands in exactly one place, on a link or in the list of its
  peer, so that nobody is counted twice; `Counts` says what the
  numbers are at every moment: a first site counts its links, and a newcomer the
  clicks it has made.
- `OnePeerAgrees` (`OnePeer`: in each plan the newcomers that ask, ask the same
  peer, whichever; `FirstConnected`). The directory of this peer is the reference. It
  names whom it has let in, once each (`RollOK`), and writes one `ADD_USER_CONFIRM`
  for each of them, with ids that grow in the order of its directory (`Stamps`,
  `NewsOK`). A link keeps this order, and a site passes each piece on
  the first time it meets it. A first site therefore has the directory of the peer up to
  some place, and what its neighbours have beyond that is on its links, in order
  (`OldOK`); when all is silent, all are equally far, because the first network is
  connected (`SettledOld`). What a newcomer hears before its own
  `UPDATE_LISTE` is overwritten by that list, which ends with its own name; it skips
  its own news, and hears all the later ones from the peer (`NewOK`, `SettledNew`). With two peers there
  is no such reference, and a chain shows that the orders may then differ
  (section 3).

`OrderedStep` goes through the steps by what they do to this: somebody asks, the peer
lets the waiting ones in (`Welcomes`), or messages are read and passed on.

### Only model-checked

- In `Membership`: departures (`StayConnected`, `CountsMatchLinks` and
  `DirectoriesAgree` with a leaver), newcomers at two peers for `DirectoriesAgree`,
  `LeaversStored` and `NobodyForgotten`. The last two are about elections that
  follow each other on a network that changes; the proofs of `ElectionProofs` are
  about one election in a fixed tree, and `LeaversStored` fails with two leavers on a chain.
- Waves and elections on networks with a cycle (`wave_kite`,
  `election_triangle`), where the proofs for trees do not apply.
- Liveness under fairness (`SomebodyEnters`, `UndisturbedEnd`, `UndisturbedEnds`,
  `EveryoneHears`, `SomebodyServed` and the others) is out of the prover's reach.

## 5. What is not modelled

- The composition of the queue with the membership: a request that stands while
  the table is replaced (`add_user.go:156`, `leaving_process.go:136`), and the
  liberation of a leaver, which the dispatcher ignores
  (`network_controler.go:173`). Each of the two modules has as many states as a
  run can hold; `Transfer` and `Membership` take the section as granted in turn.
- `AddNewUserToTorrentLogic`: the register's entry for a newcomer. It is one more
  task of the section, as in `DistributedFile`.
- Shell commands that fail (`lsof`, `ps`, `kill`), and text that is lost between
  the `cat` that is killed at a join and the next one.
- Most errors of the file system: a copy that changes and a read or write of a part
  that fails are modelled, a directory or file that cannot be made is not. The
  `log.Fatal` of `CalculateShasum` is met only as a part that is not there
  (`AskedHasPart`). Splitting files into parts, copying, cleaning up.
- The data race on the register's slices: a transfer goroutine and `siteLogic`
  may append to one list at the same time. `DistributedFile` avoids it with
  different files, and `Transfer` takes each operation as one step.
- Vector clocks and the stamps of a snapshot; they label the result only, and no
  guard reads them.
- The capacity of the queues (10000 events) and the text framing of the pipes.
- Web interface, delays, start-up: input, output and sleeping.

## 6. What could follow

1. The race on the register: `AddPeerHavingFile` and `Merge` in two steps each.
2. `DistributedFile` with a table that grows and shrinks, for two sites and a
   newcomer, without the election.
3. Proofs: departures that do not overlap, for `CountsMatchLinks` and
   `StayConnected`; `NobodyForgotten` for one newcomer.

## 7. Running

    tlc -config DistributedFile_compete.cfg MCDistributedFile
    tlapm DistributedFileProofs.tla
    tlapm FloodingProofs.tla
    tlapm TransferProofs.tla
    tlapm LinksProofs.tla
    tlapm WaveProofs.tla
    tlapm ElectionProofs.tla
    tlapm SnapshotProofs.tla
    tlapm MembershipProofs.tla

A configuration `X_y.cfg` belongs to the module `MCX`. `PROJECT.json` lists the
runs, the lines of code that each definition models, and, for every property, a
mutated definition that breaks it.
