------------------------------ MODULE Transfer ------------------------------
(***************************************************************************)
(* The download of a file (pkg/torrentLogic) and the registers that say    *)
(* who has what (pkg/registre).  A transfer runs one goroutine per part:   *)
(* it picks a peer among those its register lists, asks it for the shasum, *)
(* then for the content, saves the part and lists its own site.  When all  *)
(* of them have reported, the file is put together and the site is listed  *)
(* as a holder of the file; the register is then sent to everybody from    *)
(* the critical section.  A site that leaves sends a register without its  *)
(* own name, which REPLACES the others.                                    *)
(*                                                                         *)
(* The critical section and the order of the updates are those that        *)
(* DistributedFile and Flooding establish: one holder at a time, who has   *)
(* handled what was published before.  A part goroutine waits for one      *)
(* answer at a time, so that each has at most one message on its way; the  *)
(* channels of the dispatcher hold as much at any time and never fill.     *)
(* What DistributedFile also shows is that siteLogic may stop for ever     *)
(* when two sites want the section: from then on the site handles nothing. *)
(*                                                                         *)
(* The disks are not the program's alone: a copy may change, fail to be    *)
(* read or to be written at any time, if it is one of Faulty.              *)
(***************************************************************************)
EXTENDS Integers, FiniteSets, Sequences

CONSTANTS
    Site,     \* the sites
    NoHost,   \* the empty name, left in a list by a removal
    NbParts,  \* number of parts of the file
    Owner,    \* the two sites that have the file at first
    Faulty,   \* the copies on disk that may change, or fail to be read or written
    Transfer, \* the downloads, each started by a click
    By,       \* By[x]: the site that downloads
    Plan      \* what the users may do, one of these from the start

Part == 1 .. NbParts
Nobody == "nobody"

ASSUME NoHostAssumption == NoHost \notin Site
ASSUME PartsAssumption == NbParts \in Nat \ {0}
ASSUME OwnerAssumption == Owner \subseteq Site /\ Cardinality(Owner) = 2
ASSUME FaultyAssumption == Faulty \subseteq Site \X Part
ASSUME NamesAssumption == Transfer \cap Site = {} /\ Nobody \notin Transfer \cup Site
ASSUME TransferAssumption == By \in [Transfer -> Site]
ASSUME PlanAssumption ==
    Plan \subseteq [asks : SUBSET Transfer, leavers : SUBSET Site, shared : BOOLEAN]

VARIABLES
    reg,     \* reg[s]: Controller.Reg of site s
    aliased, \* aliased[s]: the owner lists of s still share one array
    disk,    \* disk[s][i]: what the storage of s holds as part i
    stage,   \* stage[x]: where StartOutgoingTransfer is
    at,      \* at[x][i]: where StartTransferForPart is, for part i
    asked,   \* asked[x][i]: peerToAsk, until nothing more is expected of it
    mail,    \* mail[x][i]: the message on its way between the two
    shasum,  \* shasum[x][i]: the copy of which the peer has sent the shasum
    content, \* content[x][i]: the content that the peer has sent
    inbox,   \* inbox[s]: the register updates s has yet to handle, in order
    leave,   \* leave[s]: how far s is with leaving
    holder,  \* who is in the critical section, if anybody
    stopped  \* the sites whose siteLogic has stopped on TorrentScChan

peerVars == <<reg, aliased, disk>>
partVars == <<at, asked, mail, shasum, content>>
sectionVars == <<holder, stopped>>
vars == <<peerVars, stage, partVars, inbox, leave, sectionVars>>

(* The process of s is there, and its siteLogic handles events. *)
Present(s) == leave[s] # "left"
Handles(s) == Present(s) /\ s \notin stopped

-----------------------------------------------------------------------------
(* The register: the peers, those who have the file, those who have a part.*)

List == SUBSET (Site \cup {NoHost})
Register == [peers : SUBSET Site, file : List, parts : [Part -> List]]

MakeInitialHardcodedRegister ==
    [peers |-> Site, file |-> Owner, parts |-> [i \in Part |-> Owner]]

AddPeerHavingFile(r, s) == [r EXCEPT !.file = @ \cup {s}]
AddPeerHavingPart(r, s, i) == [r EXCEPT !.parts[i] = @ \cup {s}]
Merge(r, other) ==
    [peers |-> r.peers \cup other.peers,
     file |-> r.file \cup other.file,
     parts |-> [i \in Part |-> r.parts[i] \cup other.parts[i]]]

(* The initial lists of a file and of its parts are one slice of length    *)
(* and capacity two: a list leaves the array when a name is appended to    *)
(* it.  slices.Delete shifts the array and clears its last place, so the   *)
(* first list that s is removed from gets shorter, and those that share    *)
(* the array keep their length, with an empty name.                        *)
Sharing(r) == {i \in Part : r.parts[i] = Owner}
Spoilt(r, s) ==
    IF s \notin Owner THEN {}
    ELSE {i \in Sharing(r) : r.file = Owner \/ \E j \in Sharing(r) : j < i}

(* Mutant: the place of s among the peers is cleared, not taken away. *)
RemoveUserLeavesPlace(r, s, shared) ==
    [peers |-> (r.peers \ {s}) \cup {NoHost},
     file |-> r.file \ {s},
     parts |-> [i \in Part |-> r.parts[i] \ {s}]]

RemoveUserFromRegister(r, s, shared) ==
    LET spoilt == IF shared THEN Spoilt(r, s) ELSE {} IN
    [peers |-> r.peers \ {s},
     file |-> r.file \ {s},
     parts |-> [i \in Part |-> (r.parts[i] \ {s}) \cup
                               (IF i \in spoilt THEN {NoHost} ELSE {})]]

Update(r, deleteMe) == [reg |-> r, deleteMe |-> deleteMe]
Broadcast(s, m) ==
    [t \in Site |-> IF t = s THEN inbox[t] ELSE Append(inbox[t], m)]

-----------------------------------------------------------------------------
(* The lists of a network in which nobody has left yet share their arrays; *)
(* a departure replaces them by decoded ones, which do not.                *)
Init ==
    /\ reg = [s \in Site |-> MakeInitialHardcodedRegister]
    /\ disk = [s \in Site |-> [i \in Part |->
                 IF s \in Owner THEN "intact" ELSE "none"]]
    /\ at = [x \in Transfer |-> [i \in Part |-> "start"]]
    /\ asked = [x \in Transfer |-> [i \in Part |-> NoHost]]
    /\ mail = [x \in Transfer |-> [i \in Part |-> "none"]]
    /\ shasum = [x \in Transfer |-> [i \in Part |-> "none"]]
    /\ content = [x \in Transfer |-> [i \in Part |-> "none"]]
    /\ inbox = [s \in Site |-> <<>>]
    /\ holder = Nobody /\ stopped = {}
    /\ \E plan \in Plan :
          /\ aliased = [s \in Site |-> plan.shared]
          /\ stage = [x \in Transfer |-> IF x \in plan.asks THEN "asked" ELSE "none"]
          /\ leave = [s \in Site |-> IF s \in plan.leavers THEN "may" ELSE "stay"]

-----------------------------------------------------------------------------
(* StartOutgoingTransfer, up to the goroutines of the parts. *)

Begin(x, next) ==
    /\ stage[x] = "asked" /\ Handles(By[x])
    /\ stage' = [stage EXCEPT ![x] = next]
    /\ UNCHANGED <<peerVars, partVars, inbox, leave, sectionVars>>

RefuseStranger(x) == By[x] \notin reg[By[x]].peers /\ Begin(x, "failed")
AlreadyThere(x) ==
    LET r == reg[By[x]] IN
    By[x] \in r.peers /\ By[x] \in r.file /\ Begin(x, "done")
StartOutgoingTransfer(x) ==
    LET r == reg[By[x]] IN
    By[x] \in r.peers /\ By[x] \notin r.file /\ Begin(x, "receiving")

-----------------------------------------------------------------------------
(* StartTransferForPart and AskPeerForPart. *)

PartAt(x, i, place) ==
    stage[x] = "receiving" /\ at[x][i] = place /\ Present(By[x])
GoTo(x, i, place, message) ==
    /\ at' = [at EXCEPT ![x][i] = place]
    /\ mail' = [mail EXCEPT ![x][i] = message]
    /\ UNCHANGED <<stage, inbox, leave, sectionVars>>

Dismiss(x, i) == asked' = [asked EXCEPT ![x][i] = NoHost]

PeersHavingPart(s, i) == reg[s].parts[i]

(* No peer has the part: it is reported all the same. *)
NoPeerHasPart(x, i) ==
    /\ PartAt(x, i, "start")
    /\ PeersHavingPart(By[x], i) = {}
    /\ GoTo(x, i, "reported", "none")
    /\ UNCHANGED <<peerVars, asked, shasum, content>>

(* A message without destination is not encoded, routeMessage drops one    *)
(* that a site sends to itself, and nothing leaves when siteLogic stands.  *)
Question(s, p, message) ==
    IF p \in {NoHost, s} \/ s \in stopped THEN "none" ELSE message

(* Mutant: any peer of the register is asked. *)
AskAnyForShasum(x, i) ==
    /\ PartAt(x, i, "start")
    /\ \E p \in reg[By[x]].peers :
          /\ asked' = [asked EXCEPT ![x][i] = p]
          /\ GoTo(x, i, "shasum", Question(By[x], p, "AskingForShasum"))
    /\ UNCHANGED <<peerVars, shasum, content>>

(* A peer drawn at random. *)
AskForShasum(x, i) ==
    /\ PartAt(x, i, "start")
    /\ \E p \in PeersHavingPart(By[x], i) :
          /\ asked' = [asked EXCEPT ![x][i] = p]
          /\ GoTo(x, i, "shasum", Question(By[x], p, "AskingForShasum"))
    /\ UNCHANGED <<peerVars, shasum, content>>

HasPart(s, i) == disk[s][i] # "none"

(* HandlePeerAskingIfWeHavePart at the peer; CalculateShasum ends the      *)
(* whole process when the part is not there (property AskedHasPart).       *)
AnswerShasum(x, i) ==
    LET p == asked[x][i] IN
    /\ mail[x][i] = "AskingForShasum"
    /\ Handles(p) /\ HasPart(p, i)
    /\ mail' = [mail EXCEPT ![x][i] = "ReceivingShasum"]
    /\ shasum' = [shasum EXCEPT ![x][i] = disk[p][i]]
    /\ UNCHANGED <<peerVars, stage, at, asked, content, inbox, leave, sectionVars>>

(* siteLogic hands the answer of the peer to the goroutine. *)
Gets(x, i, place, message) ==
    PartAt(x, i, place) /\ mail[x][i] = message /\ By[x] \notin stopped

(* The shasum received is that of the register. *)
ShasumMatches(x, i) == shasum[x][i] = "intact"

(* Mutant: the goroutine returns without a report. *)
RejectSilently(x, i) ==
    /\ Gets(x, i, "shasum", "ReceivingShasum")
    /\ ~ShasumMatches(x, i)
    /\ GoTo(x, i, "shasum", "none")
    /\ UNCHANGED <<peerVars, asked, shasum, content>>

(* HandlePeerRespondingWithShasum: a mismatch is an error, and the part is *)
(* reported all the same.                                                  *)
RejectShasum(x, i) ==
    /\ Gets(x, i, "shasum", "ReceivingShasum")
    /\ ~ShasumMatches(x, i)
    /\ Dismiss(x, i)
    /\ GoTo(x, i, "reported", "none")
    /\ UNCHANGED <<peerVars, shasum, content>>

(* Mutant: the shasum received is not compared. *)
AskForContentUnchecked(x, i) ==
    /\ Gets(x, i, "shasum", "ReceivingShasum")
    /\ GoTo(x, i, "content", "AskingForContent")
    /\ UNCHANGED <<peerVars, asked, shasum, content>>

AskForContent(x, i) ==
    /\ Gets(x, i, "shasum", "ReceivingShasum")
    /\ ShasumMatches(x, i)
    /\ GoTo(x, i, "content", "AskingForContent")
    /\ UNCHANGED <<peerVars, asked, shasum, content>>

(* HandlePeerAskingForPartContent: what the disk holds by now.  When it    *)
(* cannot be read, or is truncated once its size is known, zeros are sent. *)
Read(p, i) ==
    {disk[p][i]} \cup
        {bad \in {"altered"} : <<p, i>> \in Faulty \/ disk[p][i] = "empty"}
AnswerContent(x, i) ==
    LET p == asked[x][i] IN
    /\ mail[x][i] = "AskingForContent"
    /\ Handles(p) /\ HasPart(p, i)
    /\ mail' = [mail EXCEPT ![x][i] = "ReceivingContent"]
    /\ \E read \in Read(p, i) : content' = [content EXCEPT ![x][i] = read]
    /\ UNCHANGED <<peerVars, stage, at, asked, shasum, inbox, leave, sectionVars>>

(* The content is not compared with anything.  WriteFile empties the file, *)
(* which others may be reading or writing, and then writes.                *)
TruncatePart(x, i) ==
    /\ Gets(x, i, "content", "ReceivingContent")
    /\ disk' = [disk EXCEPT ![By[x]][i] = "empty"]
    /\ Dismiss(x, i)
    /\ GoTo(x, i, "writing", "none")
    /\ UNCHANGED <<reg, aliased, shasum, content>>

(* What a file that held d may hold once c is written over it. *)
Overwritten(d, c) ==
    IF d = "empty" THEN {c} ELSE IF c = "empty" THEN {d} ELSE {c, d}
SavePart(x, i) ==
    /\ PartAt(x, i, "writing")
    /\ \E d \in Overwritten(disk[By[x]][i], content[x][i]) :
          disk' = [disk EXCEPT ![By[x]][i] = d]
    /\ GoTo(x, i, "saved", "none")
    /\ UNCHANGED <<reg, aliased, asked, shasum, content>>

(* The write fails: an error, reported like the others. *)
WriteFails(x, i) ==
    /\ PartAt(x, i, "writing") /\ <<By[x], i>> \in Faulty
    /\ GoTo(x, i, "reported", "none")
    /\ UNCHANGED <<peerVars, asked, shasum, content>>

(* The site lists itself, and the goroutine reports and ends. *)
RecordPart(x, i) ==
    /\ PartAt(x, i, "saved")
    /\ reg' = [reg EXCEPT ![By[x]] = AddPeerHavingPart(@, By[x], i)]
    /\ GoTo(x, i, "reported", "none")
    /\ UNCHANGED <<aliased, disk, asked, shasum, content>>

(* Something else than the program changes a copy. *)
CopyChanges(s, i) ==
    /\ <<s, i>> \in Faulty /\ disk[s][i] = "intact"
    /\ disk' = [disk EXCEPT ![s][i] = "altered"]
    /\ UNCHANGED <<reg, aliased, stage, partVars, inbox, leave, sectionVars>>

-----------------------------------------------------------------------------
(* The end of StartOutgoingTransfer, once every part has reported. *)

AllReported(x) ==
    /\ stage[x] = "receiving" /\ Present(By[x])
    /\ \A i \in Part : at[x][i] = "reported"
Whole(s) == \A i \in Part : HasPart(s, i)

(* ReassembleFileFromParts finds every part, or fails. *)
ReassembleFails(x) ==
    /\ AllReported(x) /\ ~Whole(By[x])
    /\ stage' = [stage EXCEPT ![x] = "failed"]
    /\ UNCHANGED <<peerVars, partVars, inbox, leave, sectionVars>>

(* Mutant: all parts have reported, so the file is taken to be complete. *)
ReassembleUnchecked(x) ==
    /\ AllReported(x)
    /\ reg' = [reg EXCEPT ![By[x]] = AddPeerHavingFile(@, By[x])]
    /\ stage' = [stage EXCEPT ![x] = "waiting"]
    /\ UNCHANGED <<aliased, disk, partVars, inbox, leave, sectionVars>>

Reassemble(x) ==
    /\ AllReported(x) /\ Whole(By[x])
    /\ reg' = [reg EXCEPT ![By[x]] = AddPeerHavingFile(@, By[x])]
    /\ stage' = [stage EXCEPT ![x] = "waiting"]
    /\ UNCHANGED <<aliased, disk, partVars, inbox, leave, sectionVars>>

(* What the distributed queue grants: to one at a time, who has handled    *)
(* the updates published before.                                           *)
Enter(s, who) ==
    /\ holder = Nobody /\ inbox[s] = <<>> /\ Handles(s)
    /\ holder' = who
    /\ UNCHANGED stopped

EnterToPublish(x) ==
    /\ stage[x] = "waiting"
    /\ Enter(By[x], x)
    /\ stage' = [stage EXCEPT ![x] = "inCS"]
    /\ UNCHANGED <<peerVars, partVars, inbox, leave>>

(* siteLogic sends the update, and then the liberation of DoneWithSC. *)
PublishRegister(x) ==
    /\ stage[x] = "inCS" /\ Handles(By[x])
    /\ inbox' = Broadcast(By[x], Update(reg[By[x]], FALSE))
    /\ stage' = [stage EXCEPT ![x] = "published"]
    /\ UNCHANGED <<peerVars, partVars, leave, sectionVars>>

DoneWithSC(x) ==
    /\ stage[x] = "published" /\ Handles(By[x])
    /\ stage' = [stage EXCEPT ![x] = "done"]
    /\ holder' = Nobody
    /\ UNCHANGED <<peerVars, partVars, inbox, leave, stopped>>

(* A request or an acknowledgement of another site that wants the section, *)
(* or has had it, reaches the one that is in it: siteLogic sends StartSC   *)
(* once more, nobody receives, and it stops for ever.                      *)
Rival(s) ==
    \/ \E y \in Transfer :
          By[y] # s /\ stage[y] \in {"waiting", "inCS", "published", "done"}
    \/ \E t \in Site \ {s} : leave[t] \in {"waiting", "inCS", "leaving", "left"}
Stop(s) ==
    /\ holder = s \/ \E x \in Transfer : holder = x /\ By[x] = s
    /\ Handles(s) /\ Rival(s)
    /\ stopped' = stopped \cup {s}
    /\ UNCHANGED <<peerVars, stage, partVars, inbox, leave, holder>>

-----------------------------------------------------------------------------
(* HandleRegisterUpdateMessage. *)

(* Mutant: the register of a leaver is merged like the others. *)
HandleRegisterUpdateMerges(s) ==
    /\ inbox[s] # <<>> /\ Handles(s)
    /\ reg' = [reg EXCEPT ![s] = Merge(@, Head(inbox[s]).reg)]
    /\ inbox' = [inbox EXCEPT ![s] = Tail(@)]
    /\ UNCHANGED <<aliased, disk, stage, partVars, leave, sectionVars>>

HandleRegisterUpdate(s) ==
    LET m == Head(inbox[s]) IN
    /\ inbox[s] # <<>> /\ Handles(s)
    /\ reg' = [reg EXCEPT ![s] = IF m.deleteMe THEN m.reg ELSE Merge(@, m.reg)]
    /\ aliased' = [aliased EXCEPT ![s] = @ /\ ~m.deleteMe]
    /\ inbox' = [inbox EXCEPT ![s] = Tail(@)]
    /\ UNCHANGED <<disk, stage, partVars, leave, sectionVars>>

-----------------------------------------------------------------------------
(* RemoveUserFromTorrentLogic, once the site was elected to leave. *)

AskToLeave(s) ==
    /\ leave[s] = "may" /\ Handles(s)
    /\ leave' = [leave EXCEPT ![s] = "waiting"]
    /\ UNCHANGED <<peerVars, stage, partVars, inbox, sectionVars>>

EnterToLeave(s) ==
    /\ leave[s] = "waiting"
    /\ Enter(s, s)
    /\ leave' = [leave EXCEPT ![s] = "inCS"]
    /\ UNCHANGED <<peerVars, stage, partVars, inbox>>

PublishDeparture(s) ==
    LET r == RemoveUserFromRegister(reg[s], s, aliased[s]) IN
    /\ leave[s] = "inCS" /\ Handles(s)
    /\ reg' = [reg EXCEPT ![s] = r]
    /\ inbox' = Broadcast(s, Update(r, TRUE))
    /\ leave' = [leave EXCEPT ![s] = "leaving"]
    /\ UNCHANGED <<aliased, disk, stage, partVars, sectionVars>>

(* The neighbours have answered: the process exits (finalLeaving). *)
Exit(s) ==
    /\ leave[s] = "leaving" /\ Handles(s)
    /\ leave' = [leave EXCEPT ![s] = "left"]
    /\ holder' = Nobody
    /\ UNCHANGED <<peerVars, stage, partVars, inbox, stopped>>

-----------------------------------------------------------------------------
Click(x) == RefuseStranger(x) \/ AlreadyThere(x) \/ StartOutgoingTransfer(x)
AskerStep(x, i) ==
    \/ NoPeerHasPart(x, i) \/ AskForShasum(x, i) \/ RejectShasum(x, i)
    \/ AskForContent(x, i) \/ TruncatePart(x, i)
    \/ SavePart(x, i) \/ WriteFails(x, i) \/ RecordPart(x, i)
PeerStep(x, i) == AnswerShasum(x, i) \/ AnswerContent(x, i)
EndStep(x) ==
    \/ ReassembleFails(x) \/ Reassemble(x)
    \/ EnterToPublish(x) \/ PublishRegister(x) \/ DoneWithSC(x)
LeaveStep(s) == EnterToLeave(s) \/ PublishDeparture(s) \/ Exit(s)

Next ==
    \/ \E x \in Transfer : Click(x) \/ EndStep(x)
    \/ \E x \in Transfer, i \in Part : AskerStep(x, i) \/ PeerStep(x, i)
    \/ \E s \in Site :
          AskToLeave(s) \/ LeaveStep(s) \/ HandleRegisterUpdate(s) \/ Stop(s)
    \/ \E s \in Site, i \in Part : CopyChanges(s, i)

Spec == Init /\ [][Next]_vars

(* Goroutines run and messages arrive: the program stops only when nothing *)
(* is left to do; nobody has to click or to leave.  Who waits for the      *)
(* section gets it, unless a siteLogic stops: that is GrantedUnlessStopped *)
(* of DistributedFile.                                                     *)
Step ==
    \/ \E x \in Transfer : EndStep(x)
    \/ \E x \in Transfer, i \in Part : AskerStep(x, i) \/ PeerStep(x, i)
    \/ \E s \in Site : LeaveStep(s) \/ HandleRegisterUpdate(s)
Fairness == WF_vars(Step)
FairSpec == Spec /\ Fairness
-----------------------------------------------------------------------------
(* Properties. *)

(* Every variable keeps its type. *)
Held == {"none", "intact", "altered", "empty"}
Stage ==
    {"none", "asked", "receiving", "waiting", "inCS", "published", "done", "failed"}
Place == {"start", "shasum", "content", "writing", "saved", "reported"}
Mail == {"none", "AskingForShasum", "ReceivingShasum", "AskingForContent",
         "ReceivingContent"}
Leave == {"stay", "may", "waiting", "inCS", "leaving", "left"}
TypeOK ==
    /\ reg \in [Site -> Register]
    /\ aliased \in [Site -> BOOLEAN]
    /\ disk \in [Site -> [Part -> Held]]
    /\ stage \in [Transfer -> Stage]
    /\ at \in [Transfer -> [Part -> Place]]
    /\ asked \in [Transfer -> [Part -> Site \cup {NoHost}]]
    /\ mail \in [Transfer -> [Part -> Mail]]
    /\ shasum \in [Transfer -> [Part -> Held]]
    /\ content \in [Transfer -> [Part -> Held]]
    /\ inbox \in [Site -> Seq([reg : Register, deleteMe : BOOLEAN])]
    /\ leave \in [Site -> Leave]
    /\ holder \in {Nobody} \cup Transfer \cup Site
    /\ stopped \subseteq Site

(* No register, held or on its way, lists a site for what it does not      *)
(* have, although a part that failed is reported like one that arrived.    *)
True(r) ==
    \A s \in Site :
        /\ s \in r.file => Whole(s)
        /\ \A i \in Part : s \in r.parts[i] => HasPart(s, i)
RegistersTrue ==
    /\ \A s \in Site : True(reg[s])
    /\ \A s \in Site : \A k \in DOMAIN inbox[s] : True(inbox[s][k].reg)

(* A peer that is asked has the part: the log.Fatal of CalculateShasum     *)
(* does not end it.                                                        *)
AskedHasPart ==
    \A x \in Transfer, i \in Part :
        mail[x][i] \in {"AskingForShasum", "AskingForContent"} =>
            HasPart(asked[x][i], i)

(* A copy is bad on a sound disk only if a peer announced a good shasum    *)
(* and then sent something else: its copy changed, or could not be read,   *)
(* between its two answers.  A file that is being written is empty.        *)
Slipped(x, i) ==
    shasum[x][i] = "intact" /\ content[x][i] \in {"altered", "empty"}
Spoils(x, i) ==
    \/ Slipped(x, i)
    \/ at[x][i] = "writing" /\ disk[By[x]][i] = "empty"
AlteredBetweenAnswers ==
    \A s \in Site, i \in Part :
        disk[s][i] \in {"altered", "empty"} =>
            \/ <<s, i>> \in Faulty
            \/ \E x \in Transfer : By[x] = s /\ Spoils(x, i)

(* Nobody who has handled the update of a leaver lists that site again. *)
LeaversForgotten ==
    \A s, t \in Site :
        leave[s] = "left" /\ Present(t) /\ inbox[t] = <<>> =>
            /\ s \notin reg[t].peers \cup reg[t].file
            /\ \A i \in Part : s \notin reg[t].parts[i]

(* A transfer ends, well or badly, as long as nobody leaves, no siteLogic  *)
(* stops, and its site runs no other one.                                  *)
Ended(x) == stage[x] \in {"done", "failed"}
Disturbed(x) ==
    \/ stopped # {}
    \/ \E s \in Site : leave[s] \notin {"stay", "may"}
    \/ \E y \in Transfer \ {x} : By[y] = By[x] /\ stage[y] \notin {"none", "asked"}
UndisturbedEnd ==
    \A x \in Transfer : stage[x] = "receiving" ~> Ended(x) \/ Disturbed(x)

-----------------------------------------------------------------------------
(* What the code does not keep; no run checks these.                       *)

(* Altered copies stay where they are: nobody saves one. *)
OnlyIntactSpread ==
    \A s \in Site, i \in Part : disk[s][i] = "altered" => <<s, i>> \in Faulty

(* A download ends even when two sites want the section. *)
EveryDownloadEnds ==
    \A x \in Transfer :
        stage[x] = "receiving" ~> Ended(x)
            \/ \E s \in Site : leave[s] \notin {"stay", "may"}

(* Every wait of AskPeerForPart ends, by an answer or by a timeout, unless *)
(* the site itself leaves.                                                 *)
Waits(x, i) == stage[x] = "receiving" /\ at[x][i] \in {"shasum", "content"}
EveryWaitEnds ==
    \A x \in Transfer, i \in Part : Waits(x, i) ~> ~Waits(x, i) \/ ~Present(By[x])

(* Once a site has published its download, every register lists it, for    *)
(* good.                                                                   *)
HoldersKnown ==
    \A x \in Transfer, s \in Site :
        stage[x] = "done" ~> ~Present(s) \/ ~Present(By[x])
                             \/ By[x] \in reg[s].file

(* The lists hold sites and nothing else. *)
ListsHoldHosts ==
    \A s \in Site, i \in Part : NoHost \notin reg[s].parts[i]
=============================================================================
