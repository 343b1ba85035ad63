--------------------------- MODULE TransferProofs ---------------------------
(***************************************************************************)
(* Safety of the downloads and of the registers for every number of sites, *)
(* parts and downloads, and whoever leaves: types, registers that list     *)
(* nobody for what he does not have, peers that have what they are asked   *)
(* for, how altered copies spread, leavers that are forgotten.              *)
(***************************************************************************)
EXTENDS Transfer, TLAPS

-----------------------------------------------------------------------------
(* The inductive invariant, in parts. *)

(* A message on its way is between the downloader and a site... *)
MailToSites ==
    \A x \in Transfer, i \in Part : mail[x][i] # "none" => asked[x][i] \in Site

(* ... which has the part. *)
PeerHasPart(x, i) == mail[x][i] # "none" => HasPart(asked[x][i], i)

(* A question is that of the place where the goroutine waits. *)
QuestionOfPlace(x, i) ==
    /\ mail[x][i] = "AskingForShasum" => at[x][i] = "shasum"
    /\ mail[x][i] = "AskingForContent" => at[x][i] = "content"

(* A content is only asked for after the shasums agreed... *)
ShasumAgreed(x, i) == at[x][i] \in {"content", "writing"} => shasum[x][i] = "intact"

(* ... it is not there before it was sent, and is there when it is saved.  *)
ContentLater(x, i) ==
    at[x][i] \in {"start", "shasum"} \/ mail[x][i] = "AskingForContent" =>
        content[x][i] = "none"
ContentThere(x, i) ==
    mail[x][i] = "ReceivingContent" \/ at[x][i] = "writing" => content[x][i] # "none"

(* A part that is being saved is on the disk, and when it is recorded too. *)
SavedOnDisk(x, i) == at[x][i] \in {"writing", "saved"} => HasPart(By[x], i)

PartGood(x, i) ==
    /\ PeerHasPart(x, i) /\ QuestionOfPlace(x, i) /\ ShasumAgreed(x, i)
    /\ ContentLater(x, i) /\ ContentThere(x, i) /\ SavedOnDisk(x, i)

(* Who is in the section is the holder, and has handled every update when  *)
(* he publishes.                                                           *)
SectionHeld ==
    /\ \A x \in Transfer :
          /\ stage[x] \in {"inCS", "published"} => holder = x
          /\ stage[x] = "inCS" => inbox[By[x]] = <<>>
    /\ \A s \in Site :
          /\ leave[s] \in {"inCS", "leaving"} => holder = s
          /\ leave[s] = "inCS" => inbox[s] = <<>>

(* The register r does not name s. *)
Forgets(r, s) ==
    s \notin r.peers \cup r.file /\ \A i \in Part : s \notin r.parts[i]

(* The site t forgets s for good at its k-th update, which replaces its    *)
(* register, or has done so when k = 0.                                    *)
ForgetsAt(t, s, k) ==
    /\ k = 0 => Forgets(reg[t], s)
    /\ k # 0 => inbox[t][k].deleteMe
    /\ \A j \in 1 .. Len(inbox[t]) : j >= k => Forgets(inbox[t][j].reg, s)

(* Every present site has forgotten who has announced a departure, or will *)
(* once it has handled its updates.                                        *)
DepartureSpreads ==
    \A s, t \in Site :
        s # t /\ leave[s] \in {"leaving", "left"} /\ Present(t) =>
            \E k \in 0 .. Len(inbox[t]) : ForgetsAt(t, s, k)

TypeInv == TypeOK /\ MailToSites
PartInv == \A x \in Transfer, i \in Part : PartGood(x, i)
HoldingsInv == RegistersTrue /\ PartInv
DepartureInv == SectionHeld /\ DepartureSpreads

-----------------------------------------------------------------------------
(* The operators on registers: the result of each, field by field. *)

LEMMA InitialRegister ==
    /\ MakeInitialHardcodedRegister \in Register
    /\ MakeInitialHardcodedRegister.file = Owner
    /\ \A i \in Part : MakeInitialHardcodedRegister.parts[i] = Owner
  BY OwnerAssumption DEF MakeInitialHardcodedRegister, Register, List

LEMMA AddFileFacts ==
    ASSUME NEW r \in Register, NEW s \in Site
    PROVE  /\ AddPeerHavingFile(r, s) \in Register
           /\ AddPeerHavingFile(r, s).peers = r.peers
           /\ AddPeerHavingFile(r, s).file = r.file \cup {s}
           /\ \A i \in Part : AddPeerHavingFile(r, s).parts[i] = r.parts[i]
  BY DEF AddPeerHavingFile, Register, List

LEMMA AddPartFacts ==
    ASSUME NEW r \in Register, NEW s \in Site, NEW i \in Part
    PROVE  /\ AddPeerHavingPart(r, s, i) \in Register
           /\ AddPeerHavingPart(r, s, i).peers = r.peers
           /\ AddPeerHavingPart(r, s, i).file = r.file
           /\ \A j \in Part : AddPeerHavingPart(r, s, i).parts[j] =
                IF j = i THEN r.parts[j] \cup {s} ELSE r.parts[j]
  BY DEF AddPeerHavingPart, Register, List

LEMMA MergeFacts ==
    ASSUME NEW r \in Register, NEW other \in Register
    PROVE  /\ Merge(r, other) \in Register
           /\ Merge(r, other).peers = r.peers \cup other.peers
           /\ Merge(r, other).file = r.file \cup other.file
           /\ \A i \in Part :
                 Merge(r, other).parts[i] = r.parts[i] \cup other.parts[i]
  BY DEF Merge, Register, List

LEMMA RemoveFacts ==
    ASSUME NEW r \in Register, NEW s \in Site, NEW shared \in BOOLEAN
    PROVE  LET n == RemoveUserFromRegister(r, s, shared) IN
           /\ n \in Register
           /\ n.peers = r.peers \ {s}
           /\ n.file = r.file \ {s}
           /\ \A i \in Part : n.parts[i] \subseteq (r.parts[i] \ {s}) \cup {NoHost}
  <1> DEFINE spoilt == IF shared THEN Spoilt(r, s) ELSE {}
             shorter(i) == (r.parts[i] \ {s}) \cup
                           (IF i \in spoilt THEN {NoHost} ELSE {})
  <1>1. \A i \in Part : shorter(i) \in List
    BY DEF Register, List
  <1>2. RemoveUserFromRegister(r, s, shared) =
          [peers |-> r.peers \ {s}, file |-> r.file \ {s},
           parts |-> [i \in Part |-> shorter(i)]]
    BY DEF RemoveUserFromRegister
  <1>3. \A i \in Part : shorter(i) \subseteq (r.parts[i] \ {s}) \cup {NoHost}
    OBVIOUS
  <1> HIDE DEF shorter
  <1> QED BY <1>1, <1>2, <1>3 DEF Register, List

(* Messages that are appended and popped. *)
LEMMA TailFacts ==
    ASSUME NEW S, NEW q \in Seq(S), q # <<>>
    PROVE  /\ Tail(q) \in Seq(S)
           /\ Head(q) \in S /\ Head(q) = q[1]
           /\ Len(q) \in Nat \ {0} /\ Len(Tail(q)) = Len(q) - 1
           /\ \A k \in 1 .. Len(Tail(q)) : Tail(q)[k] = q[k + 1]
  OBVIOUS

LEMMA AppendFacts ==
    ASSUME NEW S, NEW q \in Seq(S), NEW m \in S
    PROVE  /\ Append(q, m) \in Seq(S)
           /\ Len(q) \in Nat /\ Len(Append(q, m)) = Len(q) + 1
           /\ \A k \in 1 .. Len(q) : Append(q, m)[k] = q[k]
           /\ Append(q, m)[Len(q) + 1] = m
  OBVIOUS

RegisterUpdate == [reg : Register, deleteMe : BOOLEAN]

(* An update goes to everybody but its sender. *)
LEMMA BroadcastFacts ==
    ASSUME inbox \in [Site -> Seq(RegisterUpdate)], NEW s \in Site,
           NEW m \in RegisterUpdate
    PROVE  /\ Broadcast(s, m) \in [Site -> Seq(RegisterUpdate)]
           /\ \A t \in Site :
                 /\ t = s => Broadcast(s, m)[t] = inbox[t]
                 /\ t # s => Broadcast(s, m)[t] = Append(inbox[t], m)
  BY AppendFacts DEF Broadcast

-----------------------------------------------------------------------------
(* Types. *)

LEMMA TypeInit == Init => TypeInv
  <1> SUFFICES ASSUME Init PROVE TypeInv
    OBVIOUS
  <1>1. reg \in [Site -> Register]
    BY InitialRegister DEF Init
  <1>2. inbox \in [Site -> Seq([reg : Register, deleteMe : BOOLEAN])]
    BY DEF Init
  <1>3. /\ aliased \in [Site -> BOOLEAN]
        /\ disk \in [Site -> [Part -> Held]]
    BY PlanAssumption DEF Init, Held
  <1>4. /\ at \in [Transfer -> [Part -> Place]]
        /\ asked \in [Transfer -> [Part -> Site \cup {NoHost}]]
        /\ mail \in [Transfer -> [Part -> Mail]]
        /\ shasum \in [Transfer -> [Part -> Held]]
        /\ content \in [Transfer -> [Part -> Held]]
    BY DEF Init, Place, Mail, Held
  <1>5. /\ stage \in [Transfer -> Stage] /\ leave \in [Site -> Leave]
        /\ holder \in {Nobody} \cup Transfer \cup Site
        /\ stopped \subseteq Site
    BY DEF Init, Stage, Leave
  <1>6. MailToSites
    BY DEF Init, MailToSites
  <1> QED BY <1>1, <1>2, <1>3, <1>4, <1>5, <1>6 DEF TypeOK, TypeInv

LEMMA TypeStep == TypeInv /\ [Next]_vars => TypeInv'
  <1> SUFFICES ASSUME TypeInv, [Next]_vars PROVE TypeInv'
    OBVIOUS
  <1> USE DEF TypeOK, TypeInv, MailToSites
  <1>1. ASSUME NEW x \in Transfer, Click(x) PROVE TypeInv'
    BY <1>1 DEF Click, RefuseStranger, AlreadyThere, StartOutgoingTransfer, Begin,
                peerVars, partVars, sectionVars, Stage
  <1>2. ASSUME NEW x \in Transfer, EndStep(x) PROVE TypeInv'
    <2> By[x] \in Site
      BY TransferAssumption
    <2> USE DEF partVars, Stage
    <2>1. CASE ReassembleFails(x)
      BY <2>1 DEF ReassembleFails, peerVars, sectionVars
    <2>2. CASE Reassemble(x)
      BY <2>2, AddFileFacts DEF Reassemble, sectionVars
    <2>3. CASE EnterToPublish(x)
      BY <2>3 DEF EnterToPublish, Enter, peerVars
    <2>4. CASE PublishRegister(x)
      <3>1. Update(reg[By[x]], FALSE) \in RegisterUpdate
        BY DEF Update, RegisterUpdate
      <3>2. inbox' \in [Site -> Seq(RegisterUpdate)]
        BY <2>4, <3>1, BroadcastFacts DEF PublishRegister, RegisterUpdate
      <3> QED BY <2>4, <3>2 DEF PublishRegister, peerVars, sectionVars, RegisterUpdate
    <2>5. CASE DoneWithSC(x)
      BY <2>5 DEF DoneWithSC, peerVars
    <2> QED BY <1>2, <2>1, <2>2, <2>3, <2>4, <2>5 DEF EndStep
  <1>3. ASSUME NEW x \in Transfer, NEW i \in Part, AskerStep(x, i) PROVE TypeInv'
    <2> By[x] \in Site
      BY TransferAssumption
    <2> USE DEF GoTo, peerVars, sectionVars, Place, Mail
    <2>1. CASE NoPeerHasPart(x, i)
      BY <2>1 DEF NoPeerHasPart
    <2>2. CASE AskForShasum(x, i)
      <3>1. \A p \in PeersHavingPart(By[x], i) : p \in Site \cup {NoHost}
        BY DEF PeersHavingPart, Register, List
      <3>2. PICK p \in Site \cup {NoHost} :
              /\ asked' = [asked EXCEPT ![x][i] = p]
              /\ GoTo(x, i, "shasum", Question(By[x], p, "AskingForShasum"))
        BY <2>2, <3>1 DEF AskForShasum
      <3>3. /\ Question(By[x], p, "AskingForShasum") \in {"none", "AskingForShasum"}
            /\ p = NoHost => Question(By[x], p, "AskingForShasum") = "none"
        BY DEF Question
      <3> DEFINE q == Question(By[x], p, "AskingForShasum")
      <3> HIDE DEF q
      <3>4. /\ TypeOK' /\ mail'[x][i] = q
            /\ \A y \in Transfer, j \in Part :
                  ~(y = x /\ j = i) => mail'[y][j] = mail[y][j]
        <4>1. q \in Mail /\ "shasum" \in Place /\ GoTo(x, i, "shasum", q)
          BY <3>2, <3>3 DEF q
        <4>2. /\ mail' \in [Transfer -> [Part -> Mail]] /\ mail'[x][i] = q
              /\ \A y \in Transfer, j \in Part :
                    ~(y = x /\ j = i) => mail'[y][j] = mail[y][j]
          BY <4>1
        <4>3. at' \in [Transfer -> [Part -> Place]]
          BY <4>1
        <4>4. asked' \in [Transfer -> [Part -> Site \cup {NoHost}]]
          BY <3>2
        <4>5. UNCHANGED <<reg, aliased, disk, stage, shasum, content, inbox, leave, holder,
                          stopped>>
          BY <2>2, <4>1 DEF AskForShasum
        <4> QED BY <4>2, <4>3, <4>4, <4>5
      <3>5. MailToSites'
        BY <3>2, <3>3, <3>4 DEF q
      <3> QED BY <3>4, <3>5
    <2>3. CASE RejectShasum(x, i)
      BY <2>3 DEF RejectShasum, Dismiss
    <2>4. CASE AskForContent(x, i)
      BY <2>4 DEF AskForContent, Gets
    <2>5. CASE TruncatePart(x, i)
      <3>1. disk' \in [Site -> [Part -> Held]]
        BY <2>5 DEF TruncatePart, Held
      <3>2. /\ GoTo(x, i, "writing", "none") /\ asked' = [asked EXCEPT ![x][i] = NoHost]
            /\ UNCHANGED <<reg, aliased, shasum, content>>
        BY <2>5 DEF TruncatePart, Dismiss
      <3>3. at' \in [Transfer -> [Part -> Place]] /\ mail' \in [Transfer -> [Part -> Mail]]
        BY <3>2
      <3>4. MailToSites'
        BY <3>2
      <3> QED BY <3>1, <3>2, <3>3, <3>4
    <2>6. CASE SavePart(x, i)
      <3>1. PICK d \in Overwritten(disk[By[x]][i], content[x][i]) :
              disk' = [disk EXCEPT ![By[x]][i] = d]
        BY <2>6 DEF SavePart
      <3>2. d \in Held
        BY <3>1 DEF Overwritten
      <3>3. disk' \in [Site -> [Part -> Held]]
        BY <3>1, <3>2
      <3>4. GoTo(x, i, "saved", "none") /\ UNCHANGED <<reg, aliased, asked, shasum, content>>
        BY <2>6 DEF SavePart
      <3> QED BY <3>3, <3>4
    <2>7. CASE WriteFails(x, i)
      <3>1. /\ GoTo(x, i, "reported", "none")
            /\ UNCHANGED <<peerVars, asked, shasum, content>>
        BY <2>7 DEF WriteFails
      <3> QED BY <3>1
    <2>8. CASE RecordPart(x, i)
      <3>1. /\ reg' = [reg EXCEPT ![By[x]] = AddPeerHavingPart(reg[By[x]], By[x], i)]
            /\ GoTo(x, i, "reported", "none")
            /\ UNCHANGED <<aliased, disk, asked, shasum, content>>
        BY <2>8 DEF RecordPart
      <3>2. reg' \in [Site -> Register]
        BY <3>1, AddPartFacts
      <3> QED BY <3>1, <3>2
    <2> QED BY <1>3, <2>1, <2>2, <2>3, <2>4, <2>5, <2>6, <2>7, <2>8 DEF AskerStep
  <1>4. ASSUME NEW x \in Transfer, NEW i \in Part, PeerStep(x, i) PROVE TypeInv'
    <2> USE DEF peerVars, sectionVars, Mail
    <2>1. CASE AnswerShasum(x, i)
      <3>1. disk[asked[x][i]][i] \in Held
        BY <2>1 DEF AnswerShasum
      <3>2. shasum' \in [Transfer -> [Part -> Held]]
        BY <2>1, <3>1 DEF AnswerShasum
      <3>3. mail[x][i] # "none" /\ mail' = [mail EXCEPT ![x][i] = "ReceivingShasum"]
            /\ UNCHANGED <<peerVars, stage, at, asked, content, inbox, leave, sectionVars>>
        BY <2>1 DEF AnswerShasum
      <3> QED BY <3>2, <3>3
    <2>2. CASE AnswerContent(x, i)
      <3>1. PICK read \in Read(asked[x][i], i) : content' = [content EXCEPT ![x][i] = read]
        BY <2>2 DEF AnswerContent
      <3>2. asked[x][i] \in Site
        BY <2>2 DEF AnswerContent
      <3>3. disk[asked[x][i]][i] \in Held
        BY <3>2
      <3>4. read \in Held
        BY <3>1, <3>3 DEF Read, Held
      <3>5. content' \in [Transfer -> [Part -> Held]]
        BY <3>1, <3>4
      <3>6. mail[x][i] # "none" /\ mail' = [mail EXCEPT ![x][i] = "ReceivingContent"]
            /\ UNCHANGED <<peerVars, stage, at, asked, shasum, inbox, leave, sectionVars>>
        BY <2>2 DEF AnswerContent
      <3> QED BY <3>5, <3>6
    <2> QED BY <1>4, <2>1, <2>2 DEF PeerStep
  <1>5. ASSUME NEW s \in Site, AskToLeave(s) \/ Stop(s) PROVE TypeInv'
    BY <1>5 DEF AskToLeave, Stop, peerVars, partVars, sectionVars, Leave
  <1>6. ASSUME NEW s \in Site, LeaveStep(s) PROVE TypeInv'
    <2> USE DEF partVars, Leave
    <2>1. CASE EnterToLeave(s)
      BY <2>1 DEF EnterToLeave, Enter, peerVars
    <2>2. CASE PublishDeparture(s)
      <3> DEFINE r == RemoveUserFromRegister(reg[s], s, aliased[s])
      <3>1. r \in Register
        BY RemoveFacts
      <3> HIDE DEF r
      <3>2. Update(r, TRUE) \in RegisterUpdate
        BY <3>1 DEF Update, RegisterUpdate
      <3>3. inbox' = Broadcast(s, Update(r, TRUE)) /\ reg' = [reg EXCEPT ![s] = r]
        BY <2>2 DEF PublishDeparture, r
      <3>4. inbox' \in [Site -> Seq(RegisterUpdate)]
        BY <3>2, <3>3, BroadcastFacts DEF RegisterUpdate
      <3>5. reg' \in [Site -> Register]
        BY <3>1, <3>3
      <3> QED BY <2>2, <3>4, <3>5 DEF PublishDeparture, sectionVars, RegisterUpdate
    <2>3. CASE Exit(s)
      BY <2>3 DEF Exit, peerVars
    <2> QED BY <1>6, <2>1, <2>2, <2>3 DEF LeaveStep
  <1>7. ASSUME NEW s \in Site, HandleRegisterUpdate(s) PROVE TypeInv'
    <2>1. inbox[s] \in Seq(RegisterUpdate) /\ inbox[s] # <<>>
      BY <1>7 DEF HandleRegisterUpdate, RegisterUpdate
    <2>2. Head(inbox[s]) \in RegisterUpdate /\ Tail(inbox[s]) \in Seq(RegisterUpdate)
      BY <2>1, TailFacts
    <2>3. inbox' \in [Site -> Seq(RegisterUpdate)]
      BY <1>7, <2>2 DEF HandleRegisterUpdate, RegisterUpdate
    <2>4. reg' \in [Site -> Register] /\ aliased' \in [Site -> BOOLEAN]
      BY <1>7, <2>2, MergeFacts DEF HandleRegisterUpdate, RegisterUpdate
    <2> QED BY <1>7, <2>3, <2>4
            DEF HandleRegisterUpdate, partVars, sectionVars, RegisterUpdate
  <1>8. ASSUME NEW s \in Site, NEW i \in Part, CopyChanges(s, i) PROVE TypeInv'
    <2>1. disk' \in [Site -> [Part -> Held]]
      BY <1>8 DEF CopyChanges, Held
    <2> QED BY <1>8, <2>1 DEF CopyChanges, partVars, sectionVars
  <1>9. CASE UNCHANGED vars
    BY <1>9 DEF vars, peerVars, partVars, sectionVars
  <1> QED BY <1>1, <1>2, <1>3, <1>4, <1>5, <1>6, <1>7, <1>8, <1>9 DEF Next

(* Every variable of a site keeps its type, whoever downloads and leaves. *)
THEOREM TypeCorrect == Spec => []TypeOK
  <1>1. TypeInv => TypeOK
    BY DEF TypeInv
  <1> QED BY <1>1, TypeInit, TypeStep, PTL DEF Spec

-----------------------------------------------------------------------------
(* What the sites hold.  True(r) of the model is Holds(r, disk). *)

Holds(r, d) ==
    \A s \in Site :
        /\ s \in r.file => \A i \in Part : d[s][i] # "none"
        /\ \A i \in Part : s \in r.parts[i] => d[s][i] # "none"

(* The disks e have the parts that the disks d have. *)
Keeps(d, e) == \A s \in Site, i \in Part : d[s][i] # "none" => e[s][i] # "none"

LEMMA TrueIsHolds ==
    RegistersTrue <=>
        /\ \A s \in Site : Holds(reg[s], disk)
        /\ \A s \in Site : \A k \in DOMAIN inbox[s] : Holds(inbox[s][k].reg, disk)
  BY DEF RegistersTrue, True, Whole, HasPart, Holds

LEMMA TrueIsHoldsNext ==
    RegistersTrue' <=>
        /\ \A s \in Site : Holds(reg'[s], disk')
        /\ \A s \in Site : \A k \in DOMAIN inbox'[s] : Holds(inbox'[s][k].reg, disk')
  BY DEF RegistersTrue, True, Whole, HasPart, Holds

(* A register that is right stays right when parts are added. *)
LEMMA HoldsKept ==
    ASSUME NEW r, NEW d, NEW e, Keeps(d, e), Holds(r, d)
    PROVE  Holds(r, e)
  BY DEF Holds, Keeps

LEMMA KeepsItself == \A d : Keeps(d, d)
  BY DEF Keeps

(* Two registers that are right are right together. *)
LEMMA HoldsMerge ==
    ASSUME NEW r \in Register, NEW other \in Register, NEW d,
           Holds(r, d), Holds(other, d)
    PROVE  Holds(Merge(r, other), d)
  BY MergeFacts DEF Holds

LEMMA HoldsAddPart ==
    ASSUME NEW r \in Register, NEW s \in Site, NEW i \in Part, NEW d,
           Holds(r, d), d[s][i] # "none"
    PROVE  Holds(AddPeerHavingPart(r, s, i), d)
  <1> DEFINE n == AddPeerHavingPart(r, s, i)
  <1>1. /\ n.file = r.file
        /\ \A j \in Part : n.parts[j] = IF j = i THEN r.parts[j] \cup {s} ELSE r.parts[j]
    BY AddPartFacts
  <1> HIDE DEF n
  <1>2. Holds(n, d)
    BY <1>1 DEF Holds
  <1> QED BY <1>2 DEF n

LEMMA HoldsAddFile ==
    ASSUME NEW r \in Register, NEW s \in Site, NEW d,
           Holds(r, d), \A i \in Part : d[s][i] # "none"
    PROVE  Holds(AddPeerHavingFile(r, s), d)
  BY AddFileFacts DEF Holds

LEMMA HoldsRemove ==
    ASSUME NEW r \in Register, NEW s \in Site, NEW shared \in BOOLEAN, NEW d,
           Holds(r, d)
    PROVE  Holds(RemoveUserFromRegister(r, s, shared), d)
  <1> DEFINE n == RemoveUserFromRegister(r, s, shared)
  <1>1. /\ n.file = r.file \ {s}
        /\ \A i \in Part : n.parts[i] \subseteq (r.parts[i] \ {s}) \cup {NoHost}
    BY RemoveFacts
  <1> HIDE DEF n
  <1>2. Holds(n, d)
    BY <1>1, NoHostAssumption DEF Holds
  <1> QED BY <1>2 DEF n

(* No part ever disappears: a file that is truncated is there, and what is *)
(* written was sent.                                                       *)
LEMMA DiskStep ==
    ASSUME TypeInv, HoldingsInv, [Next]_vars
    PROVE  Keeps(disk, disk')
  <1> DEFINE Written == Keeps(disk, disk')
  <1>types. By \in [Transfer -> Site] /\ disk \in [Site -> [Part -> Held]]
    BY TransferAssumption DEF TypeInv, TypeOK
  <1>1. disk' = disk => Written
    BY KeepsItself
  <1>2. ASSUME NEW x \in Transfer, NEW i \in Part, TruncatePart(x, i) PROVE Written
    BY <1>2, <1>types DEF TruncatePart, Keeps
  <1>3. ASSUME NEW x \in Transfer, NEW i \in Part, SavePart(x, i) PROVE Written
    <2>1. PICK d \in Overwritten(disk[By[x]][i], content[x][i]) :
            disk' = [disk EXCEPT ![By[x]][i] = d]
      BY <1>3 DEF SavePart
    <2>2. content[x][i] # "none" /\ disk[By[x]][i] # "none"
      BY <1>3 DEF SavePart, PartAt, HoldingsInv, PartInv, PartGood, ContentThere,
                  SavedOnDisk, HasPart
    <2>3. d # "none"
      BY <2>1, <2>2 DEF Overwritten
    <2> QED BY <2>1, <2>3, <1>types DEF Keeps
  <1>4. ASSUME NEW s \in Site, NEW i \in Part, CopyChanges(s, i) PROVE Written
    BY <1>4, <1>types DEF CopyChanges, Keeps
  <1> HIDE DEF Written
  <1>5. ASSUME NEW x \in Transfer, Click(x) \/ EndStep(x) PROVE Written
    BY <1>1, <1>5 DEF Click, RefuseStranger, AlreadyThere, StartOutgoingTransfer, Begin,
        EndStep, ReassembleFails, Reassemble, EnterToPublish, PublishRegister, DoneWithSC,
        peerVars
  <1>6. ASSUME NEW x \in Transfer, NEW i \in Part, AskerStep(x, i) \/ PeerStep(x, i)
        PROVE  Written
    BY <1>1, <1>2, <1>3, <1>6 DEF AskerStep, NoPeerHasPart, AskForShasum, RejectShasum,
        AskForContent, WriteFails, RecordPart, PeerStep, AnswerShasum, AnswerContent,
        peerVars
  <1>7. ASSUME NEW s \in Site,
               AskToLeave(s) \/ LeaveStep(s) \/ HandleRegisterUpdate(s) \/ Stop(s)
        PROVE  Written
    BY <1>1, <1>7 DEF AskToLeave, LeaveStep, EnterToLeave, PublishDeparture, Exit,
        HandleRegisterUpdate, Stop, peerVars
  <1>8. UNCHANGED vars => Written
    BY <1>1 DEF vars, peerVars
  <1>9. Written
    BY <1>4, <1>5, <1>6, <1>7, <1>8 DEF Next
  <1> QED BY <1>9 DEF Written

LEMMA HoldingsInit == Init => HoldingsInv /\ AlteredBetweenAnswers
  <1> SUFFICES ASSUME Init PROVE HoldingsInv /\ AlteredBetweenAnswers
    OBVIOUS
  <1>1. RegistersTrue
    <2>1. \A s \in Owner, i \in Part : disk[s][i] # "none"
      BY OwnerAssumption DEF Init
    <2>2. Holds(MakeInitialHardcodedRegister, disk)
      BY <2>1, InitialRegister DEF Holds
    <2>3. \A s \in Site : reg[s] = MakeInitialHardcodedRegister /\ inbox[s] = <<>>
      BY DEF Init
    <2> QED BY <2>2, <2>3, TrueIsHolds
  <1>2. PartInv
    BY DEF Init, PartInv, PartGood, PeerHasPart, QuestionOfPlace, ShasumAgreed,
           ContentLater, ContentThere, SavedOnDisk
  <1>3. AlteredBetweenAnswers
    BY DEF Init, AlteredBetweenAnswers
  <1> QED BY <1>1, <1>2, <1>3 DEF HoldingsInv

(* A handler, a download that ends or starts, or a departure changes the   *)
(* register of one site, and publishes what the site knows.                *)
LEMMA RegistersStep ==
    ASSUME TypeInv, HoldingsInv, [Next]_vars
    PROVE  RegistersTrue'
  <1> USE DEF HoldingsInv
  <1> Keeps(disk, disk')
    BY DiskStep
  <1>1. /\ \A s \in Site : Holds(reg[s], disk')
        /\ \A s \in Site : \A k \in DOMAIN inbox[s] : Holds(inbox[s][k].reg, disk')
    BY TrueIsHolds, HoldsKept
  <1> DEFINE Both == /\ \A s \in Site : Holds(reg'[s], disk')
                     /\ \A s \in Site : \A k \in DOMAIN inbox'[s] :
                           Holds(inbox'[s][k].reg, disk')
  <1> HIDE DEF HoldingsInv
  <1> SUFFICES Both
    BY TrueIsHoldsNext
  <1>types. /\ reg \in [Site -> Register] /\ inbox \in [Site -> Seq(RegisterUpdate)]
            /\ aliased \in [Site -> BOOLEAN] /\ By \in [Transfer -> Site]
    BY TransferAssumption DEF TypeInv, TypeOK, RegisterUpdate
  <1>2. reg' = reg /\ inbox' = inbox => Both
    BY <1>1
  <1>3. ASSUME NEW s \in Site, NEW r, Holds(r, disk'), reg' = [reg EXCEPT ![s] = r],
               inbox' = inbox
        PROVE  Both
    BY <1>1, <1>3, <1>types
  <1>4. ASSUME NEW s \in Site, NEW r \in Register, NEW b \in BOOLEAN, Holds(r, disk'),
               reg' = [reg EXCEPT ![s] = r], inbox' = Broadcast(s, Update(r, b))
        PROVE  Both
    <2>1. \A t \in Site : Holds(reg'[t], disk')
      BY <1>1, <1>4, <1>types
    <2>2. Update(r, b) \in RegisterUpdate /\ Update(r, b).reg = r
      BY DEF Update, RegisterUpdate
    <2>3. \A t \in Site : \A k \in DOMAIN inbox'[t] : Holds(inbox'[t][k].reg, disk')
      <3> SUFFICES ASSUME NEW t \in Site, NEW k \in DOMAIN inbox'[t]
                   PROVE  Holds(inbox'[t][k].reg, disk')
        OBVIOUS
      <3>1. inbox[t] \in Seq(RegisterUpdate)
        BY <1>types
      <3>2. CASE t = s
        <4>1. inbox'[t] = inbox[t]
          BY <1>4, <2>2, <3>2, <1>types, BroadcastFacts DEF RegisterUpdate
        <4> QED BY <4>1, <1>1
      <3>3. CASE t # s
        <4>1. inbox'[t] = Append(inbox[t], Update(r, b))
          BY <1>4, <2>2, <3>3, <1>types, BroadcastFacts DEF RegisterUpdate
        <4>2. /\ k \in 1 .. Len(inbox[t]) + 1
              /\ k # Len(inbox[t]) + 1 => k \in DOMAIN inbox[t]
                                          /\ inbox'[t][k] = inbox[t][k]
              /\ k = Len(inbox[t]) + 1 => inbox'[t][k] = Update(r, b)
          BY <4>1, <3>1, <2>2
        <4> QED BY <4>2, <2>2, <1>1, <1>4
      <3> QED BY <3>2, <3>3
    <2> QED BY <2>1, <2>3
  <1> HIDE DEF Both
  <1>5. ASSUME NEW x \in Transfer, Click(x) PROVE Both
    BY <1>2, <1>5 DEF Click, RefuseStranger, AlreadyThere, StartOutgoingTransfer, Begin,
                      peerVars
  <1>6. ASSUME NEW x \in Transfer, EndStep(x) PROVE Both
    <2>s. By[x] \in Site /\ reg[By[x]] \in Register
      BY <1>types
    <2>1. CASE ReassembleFails(x) \/ EnterToPublish(x) \/ DoneWithSC(x)
      BY <2>1, <1>2 DEF ReassembleFails, EnterToPublish, DoneWithSC, peerVars
    <2>2. CASE Reassemble(x)
      <3>1. \A i \in Part : disk'[By[x]][i] # "none"
        BY <2>2 DEF Reassemble, Whole, HasPart
      <3>2. Holds(AddPeerHavingFile(reg[By[x]], By[x]), disk')
        BY <2>s, <3>1, <1>1, HoldsAddFile
      <3>3. reg' = [reg EXCEPT ![By[x]] = AddPeerHavingFile(reg[By[x]], By[x])]
        BY <2>2 DEF Reassemble
      <3>4. inbox' = inbox
        BY <2>2 DEF Reassemble
      <3> QED BY <3>2, <3>3, <3>4, <2>s, <1>3
    <2>3. CASE PublishRegister(x)
      <3>1. /\ reg' = [reg EXCEPT ![By[x]] = reg[By[x]]]
            /\ inbox' = Broadcast(By[x], Update(reg[By[x]], FALSE))
        BY <2>3, <1>types DEF PublishRegister, peerVars
      <3> QED BY <3>1, <2>s, <1>1, <1>4
    <2> QED BY <1>6, <2>1, <2>2, <2>3 DEF EndStep
  <1>7. ASSUME NEW x \in Transfer, NEW i \in Part, AskerStep(x, i) \/ PeerStep(x, i)
        PROVE  Both
    <2>1. CASE RecordPart(x, i)
      <3>1. By[x] \in Site /\ reg[By[x]] \in Register
        BY <1>types
      <3>2. disk'[By[x]][i] # "none"
        BY <2>1 DEF HoldingsInv, PartInv, PartGood, SavedOnDisk, HasPart, RecordPart,
                    PartAt
      <3>3. Holds(AddPeerHavingPart(reg[By[x]], By[x], i), disk')
        BY <3>1, <3>2, <1>1, HoldsAddPart
      <3>4. /\ reg' = [reg EXCEPT ![By[x]] = AddPeerHavingPart(reg[By[x]], By[x], i)]
            /\ inbox' = inbox
        BY <2>1 DEF RecordPart, GoTo
      <3> QED BY <3>1, <3>3, <3>4, <1>3
    <2> QED BY <1>7, <2>1, <1>2
            DEF AskerStep, NoPeerHasPart, AskForShasum, RejectShasum, AskForContent, GoTo,
                TruncatePart, SavePart, WriteFails, PeerStep, AnswerShasum, AnswerContent,
                peerVars
  <1>8. ASSUME NEW s \in Site, AskToLeave(s) \/ LeaveStep(s) \/ Stop(s) PROVE Both
    <2>1. CASE PublishDeparture(s)
      <3> DEFINE r == RemoveUserFromRegister(reg[s], s, aliased[s])
      <3>1. r \in Register /\ Holds(r, disk')
        BY <1>types, <1>1, RemoveFacts, HoldsRemove
      <3>2. reg' = [reg EXCEPT ![s] = r] /\ inbox' = Broadcast(s, Update(r, TRUE))
        BY <2>1 DEF PublishDeparture
      <3> HIDE DEF r
      <3> QED BY <3>1, <3>2, <1>4
    <2> QED BY <1>8, <2>1, <1>2
            DEF AskToLeave, LeaveStep, EnterToLeave, Exit, Stop, peerVars
  <1>9. ASSUME NEW s \in Site, HandleRegisterUpdate(s) PROVE Both
    <2> DEFINE m == Head(inbox[s])
    <2>1. inbox[s] \in Seq(RegisterUpdate) /\ inbox[s] # <<>>
      BY <1>9, <1>types DEF HandleRegisterUpdate
    <2>2. /\ m \in RegisterUpdate /\ m = inbox[s][1] /\ 1 \in DOMAIN inbox[s]
          /\ \A k \in DOMAIN Tail(inbox[s]) :
                k + 1 \in DOMAIN inbox[s] /\ Tail(inbox[s])[k] = inbox[s][k + 1]
      BY <2>1, TailFacts
    <2>3. m.reg \in Register /\ Holds(m.reg, disk') /\ reg[s] \in Register
          /\ Holds(reg[s], disk')
      BY <2>2, <1>1, <1>types DEF RegisterUpdate
    <2>4. Holds(Merge(reg[s], m.reg), disk')
      BY <2>3, HoldsMerge
    <2>5. /\ reg' = [reg EXCEPT ![s] = IF m.deleteMe THEN m.reg
                                                       ELSE Merge(reg[s], m.reg)]
          /\ inbox' = [inbox EXCEPT ![s] = Tail(inbox[s])]
      BY <1>9 DEF HandleRegisterUpdate
    <2> HIDE DEF m
    <2>6. \A t \in Site : Holds(reg'[t], disk')
      BY <2>3, <2>4, <2>5, <1>1, <1>types
    <2>7. \A t \in Site : \A k \in DOMAIN inbox'[t] : Holds(inbox'[t][k].reg, disk')
      BY <2>2, <2>5, <1>1, <1>types
    <2> QED BY <2>6, <2>7 DEF Both
  <1>10. ASSUME NEW s \in Site, NEW i \in Part, CopyChanges(s, i) PROVE Both
    BY <1>2, <1>10 DEF CopyChanges
  <1>11. CASE UNCHANGED vars
    BY <1>11, <1>2 DEF vars, peerVars
  <1> QED BY <1>5, <1>6, <1>7, <1>8, <1>9, <1>10, <1>11 DEF Next

(* A step concerns one part of one download at most: the others are as     *)
(* good as they were.                                                      *)
AloneAt(x, i) ==
    \A y \in Transfer, j \in Part : ~(y = x /\ j = i) =>
        /\ at'[y][j] = at[y][j] /\ asked'[y][j] = asked[y][j]
        /\ mail'[y][j] = mail[y][j] /\ shasum'[y][j] = shasum[y][j]
        /\ content'[y][j] = content[y][j]

LEMMA PartKept ==
    ASSUME TypeInv, HoldingsInv, Keeps(disk, disk'), NEW x \in Transfer, NEW i \in Part,
           at'[x][i] = at[x][i], asked'[x][i] = asked[x][i], mail'[x][i] = mail[x][i],
           shasum'[x][i] = shasum[x][i], content'[x][i] = content[x][i]
    PROVE  PartGood(x, i)'
  <1>1. PartGood(x, i) /\ By[x] \in Site /\ (mail[x][i] # "none" => asked[x][i] \in Site)
    BY TransferAssumption DEF HoldingsInv, PartInv, TypeInv, MailToSites
  <1>2. /\ mail[x][i] # "none" => disk'[asked[x][i]][i] # "none"
        /\ at[x][i] \in {"writing", "saved"} => disk'[By[x]][i] # "none"
    BY <1>1 DEF PartGood, PeerHasPart, SavedOnDisk, HasPart, Keeps
  <1>3. PeerHasPart(x, i)' /\ SavedOnDisk(x, i)'
    BY <1>2 DEF PeerHasPart, SavedOnDisk, HasPart
  <1>4. /\ QuestionOfPlace(x, i)' /\ ShasumAgreed(x, i)'
        /\ ContentLater(x, i)' /\ ContentThere(x, i)'
    BY <1>1 DEF PartGood, QuestionOfPlace, ShasumAgreed, ContentLater, ContentThere
  <1> QED BY <1>3, <1>4 DEF PartGood

(* What one step of a goroutine, or of the peer that answers it, makes of  *)
(* its part.                                                               *)
LEMMA AskerAlone ==
    ASSUME TypeInv, NEW x \in Transfer, NEW i \in Part, AskerStep(x, i) \/ PeerStep(x, i)
    PROVE  AloneAt(x, i)
  <1> USE DEF TypeInv, TypeOK, AloneAt, GoTo, Dismiss
  <1>1. CASE NoPeerHasPart(x, i) \/ RejectShasum(x, i) \/ AskForContent(x, i)
    BY <1>1 DEF NoPeerHasPart, RejectShasum, AskForContent
  <1>2. CASE AskForShasum(x, i)
    BY <1>2 DEF AskForShasum
  <1>3. CASE TruncatePart(x, i) \/ SavePart(x, i) \/ WriteFails(x, i) \/ RecordPart(x, i)
    BY <1>3 DEF TruncatePart, SavePart, WriteFails, RecordPart
  <1>4. CASE AnswerShasum(x, i)
    BY <1>4 DEF AnswerShasum
  <1>5. CASE AnswerContent(x, i)
    BY <1>5 DEF AnswerContent
  <1> QED BY <1>1, <1>2, <1>3, <1>4, <1>5 DEF AskerStep, PeerStep

LEMMA AskerGood ==
    ASSUME TypeInv, HoldingsInv, Keeps(disk, disk'), NEW x \in Transfer, NEW i \in Part,
           AskerStep(x, i)
    PROVE  PartGood(x, i)'
  <1>good. PartGood(x, i)
    BY DEF HoldingsInv, PartInv
  <1>types. /\ By \in [Transfer -> Site] /\ disk \in [Site -> [Part -> Held]]
            /\ at \in [Transfer -> [Part -> Place]]
            /\ asked \in [Transfer -> [Part -> Site \cup {NoHost}]]
            /\ mail \in [Transfer -> [Part -> Mail]]
            /\ reg \in [Site -> Register]
    BY TransferAssumption DEF TypeInv, TypeOK
  <1> USE DEF GoTo, PartAt, PartGood, PeerHasPart, QuestionOfPlace, ShasumAgreed,
              ContentLater, ContentThere, SavedOnDisk, HasPart
  <1>1. CASE NoPeerHasPart(x, i)
    BY <1>1, <1>types DEF NoPeerHasPart
  <1>2. CASE AskForShasum(x, i)
    <2>1. PICK p \in PeersHavingPart(By[x], i) :
            /\ asked' = [asked EXCEPT ![x][i] = p]
            /\ GoTo(x, i, "shasum", Question(By[x], p, "AskingForShasum"))
      BY <1>2 DEF AskForShasum
    <2>2. p \in Site \cup {NoHost}
      BY <1>types DEF PeersHavingPart, Register, List
    <2>3. p \in Site => disk'[p][i] # "none"
      <3>1. Holds(reg[By[x]], disk)
        BY <1>types, TrueIsHolds DEF HoldingsInv
      <3> QED BY <3>1, <2>2 DEF Holds, PeersHavingPart, Keeps
    <2>4. /\ at'[x][i] = "shasum" /\ asked'[x][i] = p /\ content'[x][i] = content[x][i]
          /\ mail'[x][i] = Question(By[x], p, "AskingForShasum")
      BY <1>2, <2>1, <1>types DEF AskForShasum
    <2>5. /\ mail'[x][i] \in {"none", "AskingForShasum"}
          /\ mail'[x][i] # "none" => p \in Site
      BY <2>2, <2>4 DEF Question
    <2>6. content[x][i] = "none"
      BY <1>2, <1>good DEF AskForShasum
    <2> QED BY <2>3, <2>4, <2>5, <2>6
  <1>3. CASE RejectShasum(x, i)
    BY <1>3, <1>types DEF RejectShasum
  <1>4. CASE AskForContent(x, i)
    <2>1. /\ at[x][i] = "shasum" /\ mail[x][i] = "ReceivingShasum"
          /\ shasum[x][i] = "intact" /\ content[x][i] = "none"
      BY <1>4, <1>good DEF AskForContent, Gets, ShasumMatches
    <2>2. /\ at'[x][i] = "content" /\ mail'[x][i] = "AskingForContent"
          /\ asked' = asked /\ shasum' = shasum /\ content' = content
      BY <1>4, <1>types DEF AskForContent
    <2>3. disk'[asked[x][i]][i] # "none"
      BY <2>1, <1>good DEF TypeInv, MailToSites, Keeps
    <2> QED BY <2>1, <2>2, <2>3
  <1>5. CASE TruncatePart(x, i)
    <2>1. /\ at[x][i] = "content" /\ mail[x][i] = "ReceivingContent"
          /\ shasum[x][i] = "intact" /\ content[x][i] # "none"
      BY <1>5, <1>good DEF TruncatePart, Gets
    <2>2. /\ at'[x][i] = "writing" /\ mail'[x][i] = "none"
          /\ shasum' = shasum /\ content' = content /\ disk'[By[x]][i] = "empty"
      BY <1>5, <1>types DEF TruncatePart
    <2> QED BY <2>1, <2>2
  <1>6. CASE SavePart(x, i)
    <2>1. disk'[By[x]][i] # "none"
      BY <1>6, <1>good, <1>types DEF SavePart, Keeps
    <2>2. at'[x][i] = "saved" /\ mail'[x][i] = "none"
      BY <1>6, <1>types DEF SavePart
    <2> QED BY <2>1, <2>2
  <1>7. CASE WriteFails(x, i)
    BY <1>7, <1>types DEF WriteFails
  <1>8. CASE RecordPart(x, i)
    BY <1>8, <1>types DEF RecordPart
  <1> QED BY <1>1, <1>2, <1>3, <1>4, <1>5, <1>6, <1>7, <1>8 DEF AskerStep

LEMMA PeerGood ==
    ASSUME TypeInv, HoldingsInv, Keeps(disk, disk'), NEW x \in Transfer, NEW i \in Part,
           PeerStep(x, i)
    PROVE  PartGood(x, i)'
  <1>good. PartGood(x, i)
    BY DEF HoldingsInv, PartInv
  <1>types. /\ By \in [Transfer -> Site]
            /\ mail \in [Transfer -> [Part -> Mail]]
            /\ shasum \in [Transfer -> [Part -> Held]]
            /\ content \in [Transfer -> [Part -> Held]]
    BY TransferAssumption DEF TypeInv, TypeOK
  <1> USE DEF PartGood, PeerHasPart, QuestionOfPlace, ShasumAgreed,
              ContentLater, ContentThere, SavedOnDisk, HasPart
  <1>1. CASE AnswerShasum(x, i)
    <2>1. /\ mail[x][i] = "AskingForShasum" /\ mail'[x][i] = "ReceivingShasum"
          /\ at' = at /\ asked' = asked /\ content' = content /\ disk' = disk
      BY <1>1, <1>types DEF AnswerShasum, peerVars
    <2> QED BY <2>1, <1>good
  <1>2. CASE AnswerContent(x, i)
    <2>1. /\ mail[x][i] = "AskingForContent" /\ mail'[x][i] = "ReceivingContent"
          /\ at' = at /\ asked' = asked /\ shasum' = shasum /\ disk' = disk
      BY <1>2, <1>types DEF AnswerContent, peerVars
    <2>2. PICK read \in Read(asked[x][i], i) : content' = [content EXCEPT ![x][i] = read]
      BY <1>2 DEF AnswerContent
    <2>3. content'[x][i] # "none"
      BY <1>2, <2>2, <1>types DEF AnswerContent, Read
    <2> QED BY <2>1, <2>3, <1>good
  <1> QED BY <1>1, <1>2 DEF PeerStep

LEMMA PartsStep ==
    ASSUME TypeInv, HoldingsInv, [Next]_vars
    PROVE  PartInv'
  <1>kept. Keeps(disk, disk')
    BY DiskStep
  <1>1. UNCHANGED partVars => PartInv'
    BY <1>kept, PartKept DEF partVars, PartInv
  <1>2. ASSUME NEW x \in Transfer, NEW i \in Part, AskerStep(x, i) \/ PeerStep(x, i)
        PROVE  PartInv'
    <2>1. PartGood(x, i)'
      BY <1>2, <1>kept, AskerGood, PeerGood
    <2>2. AloneAt(x, i)
      BY <1>2, AskerAlone
    <2>3. ASSUME NEW y \in Transfer, NEW j \in Part, ~(y = x /\ j = i)
          PROVE  PartGood(y, j)'
      BY <2>2, <2>3, <1>kept, PartKept DEF AloneAt
    <2> QED BY <2>1, <2>3 DEF PartInv
  <1>3. ASSUME NEW x \in Transfer, Click(x) \/ EndStep(x) PROVE PartInv'
    BY <1>1, <1>3 DEF Click, RefuseStranger, AlreadyThere, StartOutgoingTransfer, Begin,
        EndStep, ReassembleFails, Reassemble, EnterToPublish, PublishRegister, DoneWithSC
  <1>4. ASSUME NEW s \in Site,
               AskToLeave(s) \/ LeaveStep(s) \/ HandleRegisterUpdate(s) \/ Stop(s)
        PROVE  PartInv'
    BY <1>1, <1>4 DEF AskToLeave, LeaveStep, EnterToLeave, PublishDeparture, Exit,
        HandleRegisterUpdate, Stop
  <1>5. ASSUME NEW s \in Site, NEW i \in Part, CopyChanges(s, i) PROVE PartInv'
    BY <1>1, <1>5 DEF CopyChanges
  <1>6. UNCHANGED vars => PartInv'
    BY <1>1 DEF vars
  <1> QED BY <1>2, <1>3, <1>4, <1>5, <1>6 DEF Next

(* What a peer sent for an announced copy is not sent again.  A bad copy   *)
(* comes from there, and a file is empty while it is being written.        *)
LEMMA SpreadStep ==
    ASSUME TypeInv, HoldingsInv, AlteredBetweenAnswers, [Next]_vars
    PROVE  AlteredBetweenAnswers'
  <1>types. /\ By \in [Transfer -> Site] /\ disk \in [Site -> [Part -> Held]]
            /\ at \in [Transfer -> [Part -> Place]]
            /\ shasum \in [Transfer -> [Part -> Held]]
            /\ content \in [Transfer -> [Part -> Held]]
    BY TransferAssumption DEF TypeInv, TypeOK
  <1>good. \A x \in Transfer, i \in Part : PartGood(x, i)
    BY DEF HoldingsInv, PartInv
  <1> DEFINE Bad(s, i) == disk[s][i] \in {"altered", "empty"} /\ <<s, i>> \notin Faulty
             Explained(s, i) == \E x \in Transfer : By[x] = s /\ Spoils(x, i)
  <1>old. \A s \in Site, i \in Part : Bad(s, i) => Explained(s, i)
    BY DEF AlteredBetweenAnswers
  <1> SUFFICES ASSUME NEW s \in Site, NEW j \in Part, Bad(s, j)'
               PROVE  \E x \in Transfer : By[x] = s /\ Spoils(x, j)'
    BY DEF AlteredBetweenAnswers
  <1> DEFINE Goal == \E x \in Transfer : By[x] = s /\ Spoils(x, j)'
  <1> SUFFICES Goal
    OBVIOUS
  (* The answers of a peer only change as long as it has not sent both. *)
  <1>slip. \A x \in Transfer : Slipped(x, j) => Slipped(x, j)'
    <2> SUFFICES ASSUME NEW x \in Transfer, Slipped(x, j) PROVE Slipped(x, j)'
      OBVIOUS
    <2>1. mail[x][j] \notin {"AskingForShasum", "AskingForContent"}
      BY <1>good DEF Slipped, PartGood, QuestionOfPlace, ContentLater
    <2>2. shasum'[x][j] = shasum[x][j] /\ content'[x][j] = content[x][j]
      <3>1. ASSUME NEW y \in Transfer, NEW i \in Part, AskerStep(y, i) \/ PeerStep(y, i)
            PROVE  shasum'[x][j] = shasum[x][j] /\ content'[x][j] = content[x][j]
        <4>1. CASE ~(x = y /\ j = i)
          BY <3>1, <4>1, AskerAlone DEF AloneAt
        <4>2. CASE x = y /\ j = i
          BY <3>1, <4>2, <2>1 DEF AskerStep, NoPeerHasPart, AskForShasum, RejectShasum,
             AskForContent, TruncatePart, SavePart, WriteFails, RecordPart, PeerStep,
             AnswerShasum, AnswerContent
        <4> QED BY <4>1, <4>2
      <3>2. ASSUME UNCHANGED partVars
            PROVE  shasum'[x][j] = shasum[x][j] /\ content'[x][j] = content[x][j]
        BY <3>2 DEF partVars
      <3>3. UNCHANGED partVars
            \/ \E y \in Transfer, i \in Part : AskerStep(y, i) \/ PeerStep(y, i)
        BY DEF Next, vars, Click, RefuseStranger, AlreadyThere, StartOutgoingTransfer, Begin,
           EndStep, ReassembleFails, Reassemble, EnterToPublish, PublishRegister, DoneWithSC,
           AskToLeave, LeaveStep, EnterToLeave, PublishDeparture, Exit,
           HandleRegisterUpdate, Stop, CopyChanges
      <3> QED BY <3>1, <3>2, <3>3
    <2> QED BY <2>2 DEF Slipped
  (* The same copy as before: its explanation holds on. *)
  <1>same. ASSUME disk'[s][j] = disk[s][j],
                  \A x \in Transfer :
                     By[x] = s /\ at[x][j] = "writing" => at'[x][j] = "writing"
           PROVE  Goal
    <2>1. PICK x \in Transfer : By[x] = s /\ Spoils(x, j)
      BY <1>same, <1>old
    <2> QED BY <2>1, <1>same, <1>slip DEF Spoils
  <1> HIDE DEF Goal
  <1>1. ASSUME NEW x \in Transfer, Click(x) \/ EndStep(x) PROVE Goal
    <2>1. disk' = disk /\ at' = at
      BY <1>1 DEF Click, RefuseStranger, AlreadyThere, StartOutgoingTransfer, Begin,
        EndStep, ReassembleFails, Reassemble, EnterToPublish, PublishRegister, DoneWithSC,
        peerVars, partVars
    <2> QED BY <2>1, <1>same
  <1>2. ASSUME NEW t \in Site,
               AskToLeave(t) \/ LeaveStep(t) \/ HandleRegisterUpdate(t) \/ Stop(t)
        PROVE  Goal
    <2>1. disk' = disk /\ at' = at
      BY <1>2 DEF AskToLeave, LeaveStep, EnterToLeave, PublishDeparture, Exit,
        HandleRegisterUpdate, Stop, peerVars, partVars
    <2> QED BY <2>1, <1>same
  <1>3. ASSUME NEW t \in Site, NEW i \in Part, CopyChanges(t, i) PROVE Goal
    <2>1. disk'[s][j] = disk[s][j] /\ at' = at
      BY <1>3, <1>types DEF CopyChanges, partVars
    <2> QED BY <2>1, <1>same
  <1>4. ASSUME NEW x \in Transfer, NEW i \in Part, AskerStep(x, i) \/ PeerStep(x, i)
        PROVE  Goal
    <2>1. CASE TruncatePart(x, i)
      <3>1. /\ disk' = [disk EXCEPT ![By[x]][i] = "empty"]
            /\ at' = [at EXCEPT ![x][i] = "writing"]
        BY <2>1 DEF TruncatePart, GoTo
      <3>2. CASE By[x] = s /\ i = j
        <4>1. at'[x][j] = "writing" /\ disk'[s][j] = "empty"
          BY <3>1, <3>2, <1>types
        <4> QED BY <4>1, <3>2 DEF Goal, Spoils
      <3>3. CASE ~(By[x] = s /\ i = j)
        <4>1. disk'[s][j] = disk[s][j]
          BY <3>1, <3>3, <1>types
        <4>2. \A y \in Transfer : at[y][j] = "writing" => at'[y][j] = "writing"
          BY <3>1, <1>types
        <4> QED BY <4>1, <4>2, <1>same
      <3> QED BY <3>2, <3>3
    <2>2. CASE SavePart(x, i)
      <3>1. PICK d \in Overwritten(disk[By[x]][i], content[x][i]) :
              disk' = [disk EXCEPT ![By[x]][i] = d]
        BY <2>2 DEF SavePart
      <3>2. at' = [at EXCEPT ![x][i] = "saved"] /\ at[x][i] = "writing"
        BY <2>2 DEF SavePart, GoTo, PartAt
      <3>3. CASE ~(By[x] = s /\ i = j)
        <4>1. disk'[s][j] = disk[s][j]
          BY <3>1, <3>3, <1>types
        <4>2. \A y \in Transfer :
                By[y] = s /\ at[y][j] = "writing" => at'[y][j] = "writing"
          BY <3>2, <3>3, <1>types
        <4> QED BY <4>1, <4>2, <1>same
      <3>4. CASE By[x] = s /\ i = j
        <4>1. disk'[s][j] = d /\ d \in {"altered", "empty"}
          BY <3>1, <3>4, <1>types
        <4>2. CASE d = content[x][i]
          <5>1. Slipped(x, j)
            BY <4>1, <4>2, <3>2, <3>4, <1>good DEF Slipped, PartGood, ShasumAgreed
          <5> QED BY <5>1, <3>4, <1>slip DEF Goal, Spoils
        <4>3. CASE d = disk[s][j] /\ disk[s][j] # "empty"
          <5>1. Bad(s, j)
            BY <4>1, <4>3
          <5>2. PICK y \in Transfer : By[y] = s /\ Slipped(y, j)
            BY <5>1, <4>3, <1>old DEF Spoils
          <5> QED BY <5>2, <1>slip DEF Goal, Spoils
        <4> QED BY <4>2, <4>3, <3>1, <3>4 DEF Overwritten
      <3> QED BY <3>3, <3>4
    <2>3. CASE WriteFails(x, i)
      <3>1. /\ disk' = disk /\ at' = [at EXCEPT ![x][i] = "reported"]
            /\ <<By[x], i>> \in Faulty
        BY <2>3 DEF WriteFails, GoTo, peerVars
      <3>2. \A y \in Transfer :
              By[y] = s /\ at[y][j] = "writing" => at'[y][j] = "writing"
        BY <3>1, <1>types
      <3> QED BY <3>1, <3>2, <1>same
    <2>4. CASE ~TruncatePart(x, i) /\ ~SavePart(x, i) /\ ~WriteFails(x, i)
      <3>1. disk' = disk
        BY <1>4, <2>4 DEF AskerStep, NoPeerHasPart, AskForShasum, RejectShasum,
           AskForContent, RecordPart, PeerStep, AnswerShasum, AnswerContent, peerVars
      <3>2. \/ at' = at
            \/ /\ at[x][i] # "writing"
               /\ \E place : at' = [at EXCEPT ![x][i] = place]
        BY <1>4, <2>4 DEF AskerStep, NoPeerHasPart, AskForShasum, RejectShasum, Gets, PartAt,
           AskForContent, RecordPart, PeerStep, AnswerShasum, AnswerContent, GoTo
      <3>3. \A y \in Transfer : at[y][j] = "writing" => at'[y][j] = "writing"
        BY <3>2, <1>types
      <3> QED BY <3>1, <3>3, <1>same
    <2> QED BY <2>1, <2>2, <2>3, <2>4
  <1>5. CASE UNCHANGED vars
    BY <1>5, <1>same DEF vars, peerVars, partVars
  <1> QED BY <1>1, <1>2, <1>3, <1>4, <1>5 DEF Next

LEMMA HoldingsStep == TypeInv /\ HoldingsInv /\ [Next]_vars => HoldingsInv'
  BY RegistersStep, PartsStep DEF HoldingsInv

LEMMA HoldingsAlways == Spec => [](TypeInv /\ HoldingsInv)
  <1>1. Init => TypeInv /\ HoldingsInv
    BY TypeInit, HoldingsInit
  <1>2. TypeInv /\ HoldingsInv /\ [Next]_vars => TypeInv' /\ HoldingsInv'
    BY TypeStep, HoldingsStep
  <1> QED BY <1>1, <1>2, PTL DEF Spec

(* No register, held or published, lists a site for what it does not have: *)
(* a part counts as reported when it failed, and yet the file is only put  *)
(* together, and its site only listed, when every part was saved.          *)
THEOREM NobodyListedWrongly == Spec => []RegistersTrue
  <1>1. HoldingsInv => RegistersTrue
    BY DEF HoldingsInv
  <1> QED BY <1>1, HoldingsAlways, PTL

(* A peer that gets AskingForShasum or AskingForContent has the part.      *)
THEOREM PeersHaveWhatIsAsked == Spec => []AskedHasPart
  <1>1. HoldingsInv => AskedHasPart
    BY DEF HoldingsInv, PartInv, PartGood, PeerHasPart, AskedHasPart
  <1> QED BY <1>1, HoldingsAlways, PTL

(* Whichever copies change, or fail to be read or written, an altered copy *)
(* is only saved elsewhere when a peer announced the right shasum and then *)
(* sent another content: the check of the shasum stops everything else.    *)
THEOREM SpoiltBetweenAnswersOnly == Spec => []AlteredBetweenAnswers
  <1>1. Init => AlteredBetweenAnswers
    BY HoldingsInit
  <1>2. TypeInv /\ HoldingsInv /\ AlteredBetweenAnswers /\ [Next]_vars
            => AlteredBetweenAnswers'
    BY SpreadStep
  <1> QED BY <1>1, <1>2, HoldingsAlways, PTL DEF Spec

-----------------------------------------------------------------------------
(* Departures. *)

(* A register that forgets s goes on doing so when others are added, when  *)
(* it is merged with one that forgets s as well, and when others leave.    *)
LEMMA ForgetsAdd ==
    ASSUME NEW r \in Register, NEW s \in Site, NEW t \in Site, NEW i \in Part,
           s # t, Forgets(r, s)
    PROVE  Forgets(AddPeerHavingFile(r, t), s) /\ Forgets(AddPeerHavingPart(r, t, i), s)
  <1>1. Forgets(AddPeerHavingFile(r, t), s)
    BY AddFileFacts DEF Forgets
  <1>2. /\ AddPeerHavingPart(r, t, i).peers = r.peers
        /\ AddPeerHavingPart(r, t, i).file = r.file
    BY AddPartFacts
  <1>3. ASSUME NEW j \in Part
        PROVE  AddPeerHavingPart(r, t, i).parts[j] \subseteq r.parts[j] \cup {t}
    BY DEF AddPeerHavingPart, Register
  <1>4. Forgets(AddPeerHavingPart(r, t, i), s)
    BY <1>2, <1>3 DEF Forgets
  <1> QED BY <1>1, <1>4

LEMMA ForgetsMerge ==
    ASSUME NEW r \in Register, NEW other \in Register, NEW s \in Site,
           Forgets(r, s), Forgets(other, s)
    PROVE  Forgets(Merge(r, other), s)
  BY MergeFacts DEF Forgets

LEMMA ForgetsRemove ==
    ASSUME NEW r \in Register, NEW t \in Site, NEW shared \in BOOLEAN, NEW s \in Site,
           s = t \/ Forgets(r, s)
    PROVE  Forgets(RemoveUserFromRegister(r, t, shared), s)
  <1> DEFINE n == RemoveUserFromRegister(r, t, shared)
  <1>1. /\ n.peers = r.peers \ {t} /\ n.file = r.file \ {t}
        /\ \A i \in Part : n.parts[i] \subseteq (r.parts[i] \ {t}) \cup {NoHost}
    BY RemoveFacts
  <1> HIDE DEF n
  <1>2. Forgets(n, s)
    BY <1>1, NoHostAssumption DEF Forgets
  <1> QED BY <1>2 DEF n

LEMMA DepartureInit == Init => DepartureInv
  BY DEF Init, DepartureInv, SectionHeld, DepartureSpreads

(* The section has one holder: who enters finds it empty, and the others   *)
(* only publish from it.                                                   *)
LEMMA SectionStep ==
    ASSUME TypeInv, SectionHeld, [Next]_vars
    PROVE  SectionHeld'
  <1>types. /\ stage \in [Transfer -> Stage] /\ leave \in [Site -> Leave]
            /\ holder \in {Nobody} \cup Transfer \cup Site
            /\ inbox \in [Site -> Seq(RegisterUpdate)]
            /\ By \in [Transfer -> Site]
    BY TransferAssumption DEF TypeInv, TypeOK, RegisterUpdate
  <1> USE NamesAssumption DEF SectionHeld, sectionVars
  <1>1. ASSUME NEW x \in Transfer, Click(x) PROVE SectionHeld'
    BY <1>1, <1>types DEF Click, RefuseStranger, AlreadyThere, StartOutgoingTransfer, Begin
  <1>2. ASSUME NEW x \in Transfer, EndStep(x) PROVE SectionHeld'
    <2>1. CASE ReassembleFails(x) \/ Reassemble(x)
      BY <2>1, <1>types DEF ReassembleFails, Reassemble
    <2>2. CASE EnterToPublish(x)
      BY <2>2, <1>types DEF EnterToPublish, Enter
    <2>3. CASE PublishRegister(x)
      <3>1. holder = x /\ holder' = x /\ leave' = leave
            /\ stage' = [stage EXCEPT ![x] = "published"]
        BY <2>3 DEF PublishRegister
      <3>2. \A y \in Transfer : stage'[y] # "inCS" /\ (stage'[y] = "published" => y = x)
        BY <3>1, <1>types
      <3>3. \A s \in Site : leave'[s] \notin {"inCS", "leaving"}
        BY <3>1, <1>types
      <3> QED BY <3>1, <3>2, <3>3
    <2>4. CASE DoneWithSC(x)
      <3>1. holder = x /\ leave' = leave /\ stage' = [stage EXCEPT ![x] = "done"]
        BY <2>4 DEF DoneWithSC
      <3>2. \A y \in Transfer : stage'[y] \notin {"inCS", "published"}
        BY <3>1, <1>types
      <3>3. \A s \in Site : leave'[s] \notin {"inCS", "leaving"}
        BY <3>1, <1>types
      <3> QED BY <3>2, <3>3
    <2> QED BY <1>2, <2>1, <2>2, <2>3, <2>4 DEF EndStep
  <1>3. ASSUME NEW x \in Transfer, NEW i \in Part, AskerStep(x, i) \/ PeerStep(x, i)
        PROVE  SectionHeld'
    <2>1. stage' = stage /\ inbox' = inbox /\ leave' = leave /\ holder' = holder
      BY <1>3 DEF AskerStep, NoPeerHasPart, AskForShasum, RejectShasum, AskForContent,
         TruncatePart, SavePart, WriteFails, RecordPart, GoTo, PeerStep, AnswerShasum,
         AnswerContent
    <2> QED BY <2>1
  <1>4. ASSUME NEW s \in Site, AskToLeave(s) \/ Stop(s) PROVE SectionHeld'
    BY <1>4, <1>types DEF AskToLeave, Stop
  <1>5. ASSUME NEW s \in Site, LeaveStep(s) PROVE SectionHeld'
    <2>1. CASE EnterToLeave(s)
      BY <2>1, <1>types DEF EnterToLeave, Enter
    <2>2. CASE PublishDeparture(s)
      <3>1. holder = s /\ holder' = s /\ stage' = stage
            /\ leave' = [leave EXCEPT ![s] = "leaving"]
        BY <2>2 DEF PublishDeparture
      <3>2. \A y \in Transfer : stage'[y] \notin {"inCS", "published"}
        BY <3>1, <1>types
      <3>3. \A t \in Site : leave'[t] # "inCS" /\ (leave'[t] = "leaving" => t = s)
        BY <3>1, <1>types
      <3> QED BY <3>1, <3>2, <3>3
    <2>3. CASE Exit(s)
      BY <2>3, <1>types DEF Exit
    <2> QED BY <1>5, <2>1, <2>2, <2>3 DEF LeaveStep
  <1>6. ASSUME NEW s \in Site, HandleRegisterUpdate(s) PROVE SectionHeld'
    <2>1. \A t \in Site : inbox[t] = <<>> => inbox'[t] = <<>>
      BY <1>6, <1>types DEF HandleRegisterUpdate
    <2> QED BY <1>6, <2>1, <1>types DEF HandleRegisterUpdate
  <1>7. ASSUME NEW s \in Site, NEW i \in Part, CopyChanges(s, i) PROVE SectionHeld'
    BY <1>7 DEF CopyChanges
  <1>8. CASE UNCHANGED vars
    BY <1>8 DEF vars
  <1> QED BY <1>1, <1>2, <1>3, <1>4, <1>5, <1>6, <1>7, <1>8 DEF Next

(* What is published does not name who has left: its sender has handled    *)
(* every update, those of the leavers among them.                          *)
LEMMA PublisherForgets ==
    ASSUME TypeInv, DepartureInv, NEW u \in Site, NEW s \in Site, u # s,
           leave[s] \in {"leaving", "left"}, Present(u), inbox[u] = <<>>
    PROVE  Forgets(reg[u], s)
  <1>1. PICK k \in 0 .. Len(inbox[u]) : ForgetsAt(u, s, k)
    BY DEF DepartureInv, DepartureSpreads
  <1>2. k = 0
    BY <1>1
  <1> QED BY <1>1, <1>2 DEF ForgetsAt

LEMMA SpreadsStep ==
    ASSUME TypeInv, DepartureInv, [Next]_vars
    PROVE  DepartureSpreads'
  <1>types. /\ leave \in [Site -> Leave]
            /\ reg \in [Site -> Register] /\ inbox \in [Site -> Seq(RegisterUpdate)]
            /\ aliased \in [Site -> BOOLEAN] /\ By \in [Transfer -> Site]
    BY TransferAssumption DEF TypeInv, TypeOK, RegisterUpdate
  <1>held. /\ \A x \in Transfer : stage[x] = "inCS" => holder = x /\ inbox[By[x]] = <<>>
           /\ \A s \in Site : leave[s] \in {"inCS", "leaving"} => holder = s
           /\ \A s \in Site : leave[s] = "inCS" => inbox[s] = <<>>
    BY DEF DepartureInv, SectionHeld
  <1> SUFFICES ASSUME NEW s \in Site, NEW t \in Site, s # t,
                      leave'[s] \in {"leaving", "left"}, leave'[t] # "left"
               PROVE  \E k \in 0 .. Len(inbox'[t]) :
                         /\ k = 0 => Forgets(reg'[t], s)
                         /\ k # 0 => inbox'[t][k].deleteMe
                         /\ \A j \in 1 .. Len(inbox'[t]) :
                               j >= k => Forgets(inbox'[t][j].reg, s)
    BY DEF DepartureSpreads, ForgetsAt, Present
  <1> DEFINE Spread(r, q) ==
        \E k \in 0 .. Len(q) :
            /\ k = 0 => Forgets(r, s)
            /\ k # 0 => q[k].deleteMe
            /\ \A j \in 1 .. Len(q) : j >= k => Forgets(q[j].reg, s)
  <1> SUFFICES Spread(reg'[t], inbox'[t])
    OBVIOUS
  <1>t. reg[t] \in Register /\ inbox[t] \in Seq(RegisterUpdate)
    BY <1>types
  <1>old. leave[s] \in {"leaving", "left"} /\ leave[t] # "left" => Spread(reg[t], inbox[t])
    BY DEF DepartureInv, DepartureSpreads, ForgetsAt, Present
  (* An update that forgets s is appended. *)
  <1>more. ASSUME NEW r, NEW q \in Seq(RegisterUpdate), NEW m \in RegisterUpdate,
                  Forgets(m.reg, s), Spread(r, q) \/ m.deleteMe
           PROVE  Spread(r, Append(q, m))
    <2> DEFINE w == Append(q, m)
    <2>1. /\ Len(q) \in Nat /\ Len(w) = Len(q) + 1 /\ w[Len(q) + 1] = m
          /\ \A k \in 1 .. Len(q) : w[k] = q[k]
      BY AppendFacts
    <2> HIDE DEF w
    <2>2. CASE m.deleteMe
      <3>1. /\ Len(q) + 1 \in 0 .. Len(w) /\ Len(q) + 1 # 0
            /\ w[Len(q) + 1].deleteMe
            /\ \A j \in 1 .. Len(w) : j >= Len(q) + 1 => Forgets(w[j].reg, s)
        <4>1. \A j \in 1 .. Len(w) : j >= Len(q) + 1 => w[j] = m
          BY <2>1
        <4> QED BY <4>1, <2>1, <2>2, <1>more
      <3> QED BY <3>1 DEF w
    <2>3. CASE Spread(r, q)
      <3>1. PICK k \in 0 .. Len(q) :
              /\ k = 0 => Forgets(r, s)
              /\ k # 0 => q[k].deleteMe
              /\ \A j \in 1 .. Len(q) : j >= k => Forgets(q[j].reg, s)
        BY <2>3
      <3>2. /\ k \in 0 .. Len(w)
            /\ k # 0 => w[k].deleteMe
        BY <2>1, <3>1
      <3>3. \A j \in 1 .. Len(w) : j >= k => Forgets(w[j].reg, s)
        <4> SUFFICES ASSUME NEW j \in 1 .. Len(w), j >= k PROVE Forgets(w[j].reg, s)
          OBVIOUS
        <4>1. j \in 1 .. Len(q) \/ w[j] = m
          BY <2>1
        <4> QED BY <4>1, <2>1, <3>1, <1>more
      <3> QED BY <3>1, <3>2, <3>3 DEF w
    <2> QED BY <2>2, <2>3, <1>more
  (* The register of t is replaced by one that forgets s if it did. *)
  <1>anew. ASSUME NEW r, NEW n, NEW q, Forgets(r, s) => Forgets(n, s), Spread(r, q)
           PROVE  Spread(n, q)
    BY <1>anew
  <1>1. leave[s] \in {"leaving", "left"} /\ leave[t] # "left" /\ reg'[t] = reg[t]
        /\ inbox'[t] = inbox[t] => Spread(reg'[t], inbox'[t])
    BY <1>old
  <1> HIDE DEF Spread
  <1> DEFINE Goal == Spread(reg'[t], inbox'[t])
  <1>2. ASSUME NEW x \in Transfer, Click(x) PROVE Goal
    BY <1>1, <1>2 DEF Click, RefuseStranger, AlreadyThere, StartOutgoingTransfer, Begin,
        peerVars
  <1>3. ASSUME NEW x \in Transfer, EndStep(x) PROVE Goal
    <2>0. leave' = leave
      BY <1>3 DEF EndStep, ReassembleFails, Reassemble, EnterToPublish, PublishRegister,
         DoneWithSC
    <2>1. CASE ReassembleFails(x) \/ EnterToPublish(x) \/ DoneWithSC(x)
      BY <2>0, <2>1, <1>1 DEF ReassembleFails, EnterToPublish, DoneWithSC, peerVars
    <2>2. CASE Reassemble(x)
      <3>1. inbox' = inbox
            /\ reg' = [reg EXCEPT ![By[x]] = AddPeerHavingFile(reg[By[x]], By[x])]
        BY <2>2 DEF Reassemble
      <3>2. CASE By[x] # t
        BY <3>1, <3>2, <2>0, <1>1, <1>types
      <3>3. CASE By[x] = t
        <4>1. reg'[t] = AddPeerHavingFile(reg[t], t)
          BY <3>1, <3>3, <1>types
        <4>2. Forgets(reg[t], s) => Forgets(reg'[t], s)
          BY <4>1, <1>t, AddFileFacts DEF Forgets
        <4> QED BY <4>2, <3>1, <2>0, <1>old, <1>anew
      <3> QED BY <3>2, <3>3
    <2>3. CASE PublishRegister(x)
      <3> DEFINE u == By[x]
                 m == Update(reg[u], FALSE)
      <3>1. /\ stage[x] = "inCS" /\ Present(u) /\ reg' = reg
            /\ inbox' = Broadcast(u, m)
        BY <2>3 DEF PublishRegister, Handles, peerVars
      <3>2. m \in RegisterUpdate /\ m.reg = reg[u]
        BY <1>types DEF Update, RegisterUpdate
      <3>3. holder = x /\ inbox[u] = <<>> /\ u \in Site
        BY <3>1, <1>held, <1>types
      <3> HIDE DEF m
      <3>4. /\ t = u => inbox'[t] = inbox[t]
            /\ t # u => inbox'[t] = Append(inbox[t], m)
        BY <3>1, <3>2, <3>3, <1>types, BroadcastFacts
      <3>5. CASE t = u
        BY <3>1, <3>4, <3>5, <2>0, <1>1
      <3>6. CASE t # u
        <4>1. leave[s] = "left"
          BY <3>3, <2>0, <1>held, NamesAssumption
        <4>2. u # s
          BY <4>1, <3>1 DEF Present
        <4>3. Forgets(reg[u], s)
          BY <4>1, <4>2, <3>1, <3>3, PublisherForgets
        <4> QED BY <4>3, <3>1, <3>2, <3>4, <3>6, <2>0, <1>old, <1>t, <1>more
      <3> QED BY <3>5, <3>6
    <2> QED BY <1>3, <2>1, <2>2, <2>3 DEF EndStep
  <1>4. ASSUME NEW x \in Transfer, NEW i \in Part, AskerStep(x, i) \/ PeerStep(x, i)
        PROVE  Goal
    <2>1. CASE RecordPart(x, i)
      <3>1. inbox' = inbox /\ leave' = leave
            /\ reg' = [reg EXCEPT ![By[x]] = AddPeerHavingPart(reg[By[x]], By[x], i)]
        BY <2>1 DEF RecordPart, GoTo
      <3>2. CASE By[x] # t
        BY <3>1, <3>2, <1>1, <1>types
      <3>3. CASE By[x] = t
        <4>1. reg'[t] = AddPeerHavingPart(reg[t], t, i)
          BY <3>1, <3>3, <1>types
        <4>2. Forgets(reg[t], s) => Forgets(reg'[t], s)
          BY <4>1, <1>t, ForgetsAdd
        <4> QED BY <4>2, <3>1, <1>old, <1>anew
      <3> QED BY <3>2, <3>3
    <2> QED BY <1>4, <2>1, <1>1
            DEF AskerStep, NoPeerHasPart, AskForShasum, RejectShasum, AskForContent, GoTo,
                TruncatePart, SavePart, WriteFails, PeerStep, AnswerShasum, AnswerContent,
                peerVars
  <1>5. ASSUME NEW u \in Site, AskToLeave(u) \/ Stop(u) PROVE Goal
    BY <1>1, <1>5, <1>types DEF AskToLeave, Stop, peerVars, Leave
  <1>6. ASSUME NEW u \in Site, LeaveStep(u) PROVE Goal
    <2>1. CASE EnterToLeave(u)
      BY <2>1, <1>1, <1>types DEF EnterToLeave, peerVars, Leave
    <2>2. CASE Exit(u)
      BY <2>2, <1>1, <1>types DEF Exit, peerVars
    <2>3. CASE PublishDeparture(u)
      <3> DEFINE r == RemoveUserFromRegister(reg[u], u, aliased[u])
                 m == Update(r, TRUE)
      <3>1. /\ leave[u] = "inCS" /\ leave' = [leave EXCEPT ![u] = "leaving"]
            /\ inbox' = Broadcast(u, m) /\ reg' = [reg EXCEPT ![u] = r]
        BY <2>3 DEF PublishDeparture
      <3>2. r \in Register
        BY <1>types, RemoveFacts
      <3>3. holder = u /\ inbox[u] = <<>>
        BY <3>1, <1>held
      <3>4. u # s => leave[s] = "left" /\ Forgets(reg[u], s)
        BY <3>1, <3>3, <1>types, <1>held, PublisherForgets DEF Present
      <3>5. Forgets(r, s)
        BY <3>4, <1>types, ForgetsRemove
      <3> HIDE DEF r
      <3>6. m \in RegisterUpdate /\ m.reg = r /\ m.deleteMe
        BY <3>2 DEF Update, RegisterUpdate
      <3> HIDE DEF m
      <3>7. /\ t = u => inbox'[t] = inbox[t]
            /\ t # u => inbox'[t] = Append(inbox[t], m)
        BY <3>1, <3>6, <1>types, BroadcastFacts
      <3>8. CASE t = u
        <4>1. reg'[t] = r /\ leave[t] # "left" /\ u # s
          BY <3>1, <3>8, <1>types
        <4>2. Spread(reg'[t], inbox'[t])
          BY <4>1, <3>4, <3>5, <3>7, <3>8, <1>old, <1>anew
        <4> QED BY <4>2
      <3>9. CASE t # u
        BY <3>5, <3>6, <3>7, <3>9, <1>t, <1>more
      <3> QED BY <3>8, <3>9
    <2> QED BY <1>6, <2>1, <2>2, <2>3 DEF LeaveStep
  <1>7. ASSUME NEW u \in Site, HandleRegisterUpdate(u) PROVE Goal
    <2>0. leave' = leave
      BY <1>7 DEF HandleRegisterUpdate
    <2>1. CASE u # t
      BY <2>0, <2>1, <1>1, <1>7, <1>types DEF HandleRegisterUpdate
    <2>2. CASE u = t
      <3> DEFINE q == inbox[t]
                 m == Head(q)
                 n == IF m.deleteMe THEN m.reg ELSE Merge(reg[t], m.reg)
      <3>1. reg'[t] = n /\ inbox'[t] = Tail(q) /\ q # <<>>
        BY <2>2, <1>7, <1>types DEF HandleRegisterUpdate
      <3>2. /\ m \in RegisterUpdate /\ m = q[1] /\ Len(q) \in Nat \ {0}
            /\ Len(Tail(q)) = Len(q) - 1
            /\ \A k \in 1 .. Len(Tail(q)) : Tail(q)[k] = q[k + 1]
        BY <3>1, <1>t, TailFacts
      <3>3. m.reg \in Register /\ m.deleteMe \in BOOLEAN
        BY <3>2 DEF RegisterUpdate
      <3>4. PICK k \in 0 .. Len(q) :
              /\ k = 0 => Forgets(reg[t], s)
              /\ k # 0 => q[k].deleteMe
              /\ \A j \in 1 .. Len(q) : j >= k => Forgets(q[j].reg, s)
        BY <2>0, <1>old DEF Spread
      <3> HIDE DEF m
      <3>5. k \in {0, 1} => Forgets(n, s)
        <4>1. k \in {0, 1} => Forgets(m.reg, s)
          BY <3>2, <3>4
        <4>2. CASE k = 0
          BY <4>1, <4>2, <3>3, <3>4, <1>t, ForgetsMerge
        <4>3. CASE k = 1
          BY <4>1, <4>3, <3>2, <3>4
        <4> QED BY <4>2, <4>3
      <3> HIDE DEF n
      <3> DEFINE w == Tail(q)
                 l == IF k = 0 THEN 0 ELSE k - 1
      <3>6. /\ l \in 0 .. Len(w)
            /\ l # 0 => w[l].deleteMe
        BY <3>2, <3>4
      <3>7. \A j \in 1 .. Len(w) : j >= l => Forgets(w[j].reg, s)
        <4> SUFFICES ASSUME NEW j \in 1 .. Len(w), j >= l PROVE Forgets(w[j].reg, s)
          OBVIOUS
        <4>1. w[j] = q[j + 1] /\ j + 1 \in 1 .. Len(q) /\ j + 1 >= k
          BY <3>2, <3>4
        <4> QED BY <4>1, <3>4
      <3>8. l = 0 => Forgets(n, s)
        BY <3>4, <3>5
      <3> HIDE DEF l, w
      <3>9. Spread(n, w)
        BY <3>6, <3>7, <3>8 DEF Spread
      <3> QED BY <3>1, <3>9 DEF w
    <2> QED BY <2>1, <2>2
  <1>8. ASSUME NEW u \in Site, NEW i \in Part, CopyChanges(u, i) PROVE Goal
    BY <1>1, <1>8 DEF CopyChanges
  <1>9. CASE UNCHANGED vars
    BY <1>1, <1>9 DEF vars, peerVars
  <1> QED BY <1>2, <1>3, <1>4, <1>5, <1>6, <1>7, <1>8, <1>9 DEF Next

(* No present site that has handled its updates names a site that has      *)
(* left, however its own downloads and the updates of others go on.        *)
THEOREM NobodyNamesLeavers == Spec => []LeaversForgotten
  <1>1. TypeInv /\ DepartureInv /\ [Next]_vars => TypeInv' /\ DepartureInv'
    BY TypeStep, SectionStep, SpreadsStep DEF DepartureInv
  <1>2. TypeInv /\ DepartureInv => LeaversForgotten
    <2> SUFFICES ASSUME TypeInv, DepartureInv, NEW s \in Site, NEW t \in Site,
                        leave[s] = "left", Present(t), inbox[t] = <<>>
                 PROVE  Forgets(reg[t], s)
      BY DEF LeaversForgotten, Forgets
    <2>1. s # t
      BY DEF Present
    <2> QED BY <2>1, PublisherForgets
  <1> QED BY <1>1, <1>2, TypeInit, DepartureInit, PTL DEF Spec
=============================================================================
