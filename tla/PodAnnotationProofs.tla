------------------------ MODULE PodAnnotationProofs ------------------------
(***************************************************************************)
(* No write of the pod loses an entry of its annotation, the container     *)
(* gets every interface that was added, and the daemon restores what ADD   *)
(* made: for every number of sandboxes and of ADDs, every list of up to    *)
(* three networks, every number of foreign writes and whatever fails.      *)
(***************************************************************************)
EXTENDS PodAnnotation, SequenceTheorems, FiniteSetTheorems, TLAPS

Label == {"none", "host", "update", "added", "addFailed", "deleted"}

\* An ADD that holds a copy of the pod's current version holds its current entries.
CopyOK(a) ==
  pc[a] \in {"host", "update"} =>
    copy[a].rv <= api.rv /\ (copy[a].rv = api.rv => copy[a].entries = api.entries)

AInv ==
  /\ nets \in NetLists
  /\ api \in Pod
  /\ copy \in [AllAtt -> Pod]
  /\ pc \in [AllAtt -> Label]
  /\ \A a \in AllAtt : CopyOK(a)

Grows ==
  /\ Len(api'.entries) <= Len(api.entries) + 1
  /\ SubSeq(api'.entries, 1, Len(api.entries)) = api.entries

-----------------------------------------------------------------------------

\* The attachments of a list of networks are among those the constants allow.
LEMMA AttType ==
  ASSUME nets \in NetLists, NEW a \in Att
  PROVE  /\ a \in AllAtt /\ a[2] \in 1..Len(nets) /\ a[2] \in 1..Len(IfNames)
         /\ nets \in Seq(Network)
<1>1. nets \in Seq(Network) /\ Len(nets) \in 1..Len(IfNames)
  BY AnnotationAssumption
<1>2. Len(IfNames) \in Nat
  BY DEF IfNames
<1>3. \A i \in 1..Len(nets) : i \in 1..Len(IfNames)
  BY <1>1, <1>2
<1>4. PICK sb \in Sandbox, i \in 1..Len(nets) : a = <<sb, i>>
  BY DEF Att
<1>5. a[2] = i /\ <<sb, i>> \in Sandbox \X (1..Len(IfNames))
  BY <1>3, <1>4
<1> QED BY <1>1, <1>3, <1>4, <1>5 DEF AllAtt

\* SaveRemoteConfig makes a well-formed entry.
LEMMA EntryType ==
  ASSUME nets \in NetLists, NEW a \in Att
  PROVE  EntryOf(a) \in Entry
<1>1. a \in AllAtt /\ a[2] \in 1..Len(nets) /\ nets \in Seq(Network)
  BY AttType
<1>2. nets[a[2]] \in Network
  BY <1>1
<1>3. nets[a[2]].host \in HostConf /\ nets[a[2]].iface \in {"", "a", "b"}
  BY <1>2 DEF Network
<1>4. nets[a[2]].host.contMode \in Mode /\ nets[a[2]].host.mode \in Mode
  BY <1>3 DEF HostConf
<1>5. AddMode(nets[a[2]].host) \in Mode
  BY <1>4 DEF AddMode, Mode
<1>6. a[2] \in 1..Len(IfNames)
  BY AttType
<1>7. IfName(a) \in {"a", "b"} \union {IfNames[i] : i \in 1..Len(IfNames)}
  BY <1>3, <1>6 DEF IfName
<1> HIDE DEF IfName, AddMode
<1>8. (IF nets[a[2]].host.contMode # "" THEN nets[a[2]].host.contMode
       ELSE IF nets[a[2]].host.ifType = "memif" THEN AddMode(nets[a[2]].host) ELSE "") \in Mode
  BY <1>4, <1>5 DEF Mode
<1> QED BY <1>1, <1>7, <1>8 DEF EntryOf, Entry

\* Appending to the list keeps what it held.
LEMMA AppendGrows ==
  ASSUME NEW S, NEW list \in Seq(S), NEW x \in S
  PROVE  /\ Append(list, x) \in Seq(S)
         /\ Len(Append(list, x)) = Len(list) + 1
         /\ SubSeq(Append(list, x), 1, Len(list)) = list
<1>1. /\ Append(list, x) \in Seq(S)
      /\ Len(Append(list, x)) = Len(list) + 1
      /\ \A i \in 1..Len(list) : Append(list, x)[i] = list[i]
  BY AppendProperties
<1>2. Len(list) \in Nat /\ \A i \in 1..Len(list) : Append(list, x)[i] \in S
  BY <1>1
<1> DEFINE front == SubSeq(Append(list, x), 1, Len(list))
<1>3. /\ front \in Seq(S)
      /\ Len(front) = IF 1 <= Len(list) THEN Len(list) - 1 + 1 ELSE 0
      /\ \A i \in 1..(Len(list) - 1 + 1) : front[i] = Append(list, x)[1 + i - 1]
  BY <1>2, SubSeqProperties
<1>4. Len(front) = Len(list)
  BY <1>2, <1>3
<1>5. \A i \in 1..Len(front) : front[i] = list[i]
  BY <1>1, <1>2, <1>3, <1>4
<1>6. front = list
  BY <1>3, <1>4, <1>5, SeqEqual
<1> QED BY <1>1, <1>6

\* A list that stays as it is loses nothing.
LEMMA SameGrows ==
  ASSUME AInv, api'.entries = api.entries
  PROVE  Grows
<1>1. api.entries \in Seq(Entry)
  BY DEF AInv, Pod
<1>2. SubSeq(api.entries, 1, Len(api.entries)) = api.entries
  BY <1>1, SubSeqFull
<1>3. Len(api.entries) \in Nat
  BY <1>1
<1> QED BY <1>2, <1>3 DEF Grows

\* A write that is not stale appends to the current list.
LEMMA WriteGrows ==
  ASSUME AInv, NEW a \in Att, pc[a] = "update", Fresh(a), api' = Annotated(a)
  PROVE  /\ api' \in Pod
         /\ api'.rv = api.rv + 1
         /\ Grows
<1>1. a \in AllAtt /\ EntryOf(a) \in Entry
  BY AttType, EntryType DEF AInv
<1>2. copy[a] \in Pod /\ copy[a].entries = api.entries /\ copy[a].rv = api.rv
  BY <1>1 DEF AInv, CopyOK, Fresh
<1>3. api.entries \in Seq(Entry) /\ api.rv \in Nat
  BY DEF AInv, Pod
<1>4. /\ Append(api.entries, EntryOf(a)) \in Seq(Entry)
      /\ Len(Append(api.entries, EntryOf(a))) = Len(api.entries) + 1
      /\ SubSeq(Append(api.entries, EntryOf(a)), 1, Len(api.entries)) = api.entries
  BY <1>1, <1>3, AppendGrows
<1>5. api' = [live |-> copy[a].live, rv |-> api.rv + 1,
              entries |-> Append(api.entries, EntryOf(a)), mapped |-> MappedSharedDir]
  BY <1>2 DEF Annotated, Pod
<1>6. api'.entries = Append(api.entries, EntryOf(a)) /\ api'.rv = api.rv + 1
  BY <1>5
<1>7. copy[a].live \in BOOLEAN
  BY <1>2 DEF Pod
<1>8. api' \in Pod
  BY <1>3, <1>4, <1>5, <1>7 DEF Pod, MappedSharedDir
<1> QED BY <1>3, <1>4, <1>6, <1>8 DEF Grows

-----------------------------------------------------------------------------

\* At first no ADD holds a copy.
LEMMA InitAInv == Init => AInv
<1> SUFFICES ASSUME Init PROVE AInv
  OBVIOUS
<1>1. <<>> \in Seq(Entry)
  BY EmptySeq
<1>2. api \in Pod
  <2>1. PICK dir \in {"", "mount", "other"} :
          api = [live |-> TRUE, rv |-> 1, entries |-> <<>>, mapped |-> dir]
    BY DEF Init
  <2> QED BY <1>1, <2>1 DEF Pod
<1>3. NoPod \in Pod
  BY <1>1 DEF Pod, NoPod
<1> QED BY <1>2, <1>3 DEF Init, AInv, CopyOK, Label

\* A step that neither gives an ADD a copy nor changes the entries without a new
\* version keeps the invariant.
LEMMA KeepAInv ==
  ASSUME AInv, nets' = nets, api' \in Pod,
         copy' \in [AllAtt -> Pod], pc' \in [AllAtt -> Label],
         \/ api'.rv = api.rv /\ api'.entries = api.entries
         \/ api'.rv = api.rv + 1,
         \A a \in AllAtt : pc'[a] \in {"host", "update"} =>
           \/ pc[a] \in {"host", "update"} /\ copy'[a] = copy[a]
           \/ copy'[a] = api /\ api' = api
  PROVE  AInv'
<1>1. api.rv \in Nat /\ \A a \in AllAtt : copy[a].rv \in Nat
  BY DEF AInv, Pod
<1>2. ASSUME NEW a \in AllAtt PROVE CopyOK(a)'
  BY <1>1, <1>2 DEF AInv, CopyOK
<1> QED BY <1>2 DEF AInv

\* Every step keeps the invariant and the entries.
LEMMA NextAInv ==
  ASSUME AInv, Next
  PROVE  AInv' /\ Grows
<1> USE DEF Goto
<1>1. ASSUME NEW a \in Att, GetPod(a) PROVE AInv' /\ Grows
  <2>1. a \in AllAtt
    BY AttType DEF AInv
  <2>2. /\ nets' = nets /\ api' = api
        /\ copy' = [copy EXCEPT ![a] = api] /\ pc' = [pc EXCEPT ![a] = "host"]
    BY <1>1 DEF GetPod
  <2>3. copy' \in [AllAtt -> Pod] /\ pc' \in [AllAtt -> Label]
    BY <2>1, <2>2 DEF AInv, Label
  <2>4. AInv'
    BY <2>1, <2>2, <2>3, KeepAInv DEF AInv
  <2> QED BY <2>2, <2>4, SameGrows
<1>2. ASSUME NEW a \in Att, AddOnHost(a) PROVE AInv' /\ Grows
  <2>1. a \in AllAtt
    BY AttType DEF AInv
  <2>2. /\ nets' = nets /\ api' = api /\ pc[a] = "host"
        /\ \E label \in {"update", "addFailed"} : pc' = [pc EXCEPT ![a] = label]
        /\ copy' = copy \/ (pc'[a] # "update" /\ copy' = [copy EXCEPT ![a] = NoPod])
    BY <1>2 DEF AddOnHost
  <2>3. NoPod \in Pod
    BY EmptySeq DEF NoPod, Pod
  <2>4. copy' \in [AllAtt -> Pod] /\ pc' \in [AllAtt -> Label]
    BY <2>1, <2>2, <2>3 DEF AInv, Label
  <2>5. AInv'
    BY <2>1, <2>2, <2>4, KeepAInv DEF AInv, Label
  <2> QED BY <2>2, <2>5, SameGrows
<1>3. ASSUME NEW a \in Att, WritePodAnnotation(a) PROVE AInv' /\ Grows
  <2>1. a \in AllAtt
    BY AttType DEF AInv
  <2>2. /\ nets' = nets /\ pc[a] = "update" /\ copy' = [copy EXCEPT ![a] = NoPod]
        /\ \E label \in {"added", "addFailed"} : pc' = [pc EXCEPT ![a] = label]
        /\ api' = api \/ (Fresh(a) /\ api' = Annotated(a))
    BY <1>3 DEF WritePodAnnotation, Conflict
  <2>3. NoPod \in Pod
    BY EmptySeq DEF NoPod, Pod
  <2>4. copy' \in [AllAtt -> Pod] /\ pc' \in [AllAtt -> Label]
    BY <2>1, <2>2, <2>3 DEF AInv, Label
  <2>5. \A b \in AllAtt : pc'[b] \in {"host", "update"} =>
          pc[b] \in {"host", "update"} /\ copy'[b] = copy[b]
    BY <2>1, <2>2 DEF AInv, Label
  <2>6. CASE api' = api
    <3>1. AInv'
      BY <2>2, <2>4, <2>5, <2>6, KeepAInv DEF AInv
    <3> QED BY <2>6, <3>1, SameGrows
  <2>7. CASE Fresh(a) /\ api' = Annotated(a)
    <3>1. api' \in Pod /\ api'.rv = api.rv + 1 /\ Grows
      BY <2>2, <2>7, WriteGrows
    <3>2. AInv'
      BY <2>2, <2>4, <2>5, <3>1, KeepAInv
    <3> QED BY <3>1, <3>2
  <2> QED BY <2>2, <2>6, <2>7
<1>4. ASSUME NEW a \in Att, Del(a) PROVE AInv' /\ Grows
  <2>1. a \in AllAtt
    BY AttType DEF AInv
  <2>2. /\ nets' = nets /\ api' = api /\ copy' = copy
        /\ pc' = [pc EXCEPT ![a] = "deleted"]
    BY <1>4 DEF Del
  <2>3. copy' \in [AllAtt -> Pod] /\ pc' \in [AllAtt -> Label]
    BY <2>1, <2>2 DEF AInv, Label
  <2>4. AInv'
    BY <2>1, <2>2, <2>3, KeepAInv DEF AInv, Label
  <2> QED BY <2>2, <2>4, SameGrows
<1>5. CASE OtherWrite
  <2>1. /\ nets' = nets /\ copy' = copy /\ pc' = pc
        /\ api' = [api EXCEPT !.rv = @ + 1]
    BY <1>5 DEF OtherWrite
  <2>2. api' \in Pod /\ api'.rv = api.rv + 1 /\ api'.entries = api.entries
    <3>1. api \in Pod /\ api.rv \in Nat
      BY DEF AInv, Pod
    <3>2. api.rv + 1 \in Nat
      BY <3>1
    <3>3. /\ api'.rv = api.rv + 1 /\ api'.entries = api.entries
          /\ api'.live = api.live /\ api'.mapped = api.mapped
      BY <2>1, <3>1 DEF Pod
    <3> QED BY <2>1, <3>1, <3>2, <3>3 DEF Pod
  <2>3. AInv'
    BY <2>1, <2>2, KeepAInv DEF AInv
  <2> QED BY <2>2, <2>3, SameGrows
<1>6. CASE PodDeleted
  <2>1. /\ nets' = nets /\ copy' = copy /\ pc' = pc
        /\ api' = [api EXCEPT !.live = FALSE]
    BY <1>6 DEF PodDeleted
  <2>2. api' \in Pod /\ api'.rv = api.rv /\ api'.entries = api.entries
    BY <2>1 DEF AInv, Pod
  <2>3. AInv'
    BY <2>1, <2>2, KeepAInv DEF AInv
  <2> QED BY <2>2, <2>3, SameGrows
<1>7. CASE VppRestarts \/ Sync \/ SyncSkips
  <2>1. nets' = nets /\ copy' = copy /\ pc' = pc /\ api' = api
    BY <1>7 DEF VppRestarts, Sync, SyncSkips
  <2>2. AInv'
    BY <2>1 DEF AInv, CopyOK
  <2> QED BY <2>1, <2>2, SameGrows
<1> QED BY <1>1, <1>2, <1>3, <1>4, <1>5, <1>6, <1>7 DEF Next

\* The inductive invariant: what an ADD holds of the current version is current.
THEOREM CopiesStayGood == Spec => []AInv
<1>1. AInv /\ [Next]_vars => AInv'
  <2> SUFFICES ASSUME AInv, [Next]_vars PROVE AInv'
    OBVIOUS
  <2>1. CASE Next
    BY <2>1, NextAInv
  <2>2. CASE UNCHANGED vars
    BY <2>2 DEF vars, AInv, CopyOK
  <2> QED BY <2>1, <2>2
<1> QED BY <1>1, InitAInv, PTL DEF Spec

\* setPodAnnotationConfigData writes back the whole list as it was read before
\* AddOnHost; still no write of the pod loses or changes an entry, and none adds more
\* than one.
THEOREM EntriesOnlyGrowHolds == Spec => EntriesOnlyGrow
<1>1. AInv /\ [Next]_vars => [Grows]_vars
  <2> SUFFICES ASSUME AInv, [Next]_vars PROVE Grows \/ UNCHANGED vars
    OBVIOUS
  <2> QED BY NextAInv
<1>2. Spec => [][Grows]_vars
  BY <1>1, CopiesStayGood, PTL DEF Spec
<1> QED BY <1>2 DEF EntriesOnlyGrow, Grows
-----------------------------------------------------------------------------
(* What the annotation says of each attachment.                            *)

\* A bridge name that AddOnHost and the daemon cannot read.
TextBridge(h) == h.ifType = "memif" /\ h.netType = "bridge" /\ BridgeDomainID(h) = Text

\* What is known of each entry of the annotation, and of its attachment.
EntryOK(k) ==
  LET a == api.entries[k].att IN
  /\ a \in Att /\ api.entries[k] = EntryOf(a)
  /\ pc[a] # "none" /\ (pc[a] \in {"added", "addFailed", "deleted"} \/ a \in again)
  /\ ~TextBridge(nets[a[2]].host)
  /\ a \notin again => \A j \in 1..Len(api.entries) : api.entries[j].att = a => j = k

\* ADDs of a sandbox come in order, and one that can be written has a good name.
Ordered(a) ==
  /\ pc[a] # "none" => \A j \in 1..(a[2] - 1) : ~TextBridge(nets[j].host)
  /\ pc[a] \in {"update", "added"} => ~TextBridge(nets[a[2]].host)

Listed(a) == pc[a] = "added" => \E k \in 1..Len(api.entries) : api.entries[k].att = a

DInv ==
  /\ \A k \in 1..Len(api.entries) : EntryOK(k)
  /\ api.entries # <<>> => api.mapped = MappedSharedDir
  /\ \A a \in Att : Ordered(a) /\ Listed(a)

\* The networks of the pod stay, and what is computed from them.
LEMMA NetsFixed ==
  ASSUME nets' = nets
  PROVE  /\ Att' = Att
         /\ \A a \in Att : EntryOf(a)' = EntryOf(a)
BY DEF Att, EntryOf, IfName

LEMMA HostFacts ==
  ASSUME nets \in NetLists, NEW i \in 1..Len(nets)
  PROVE  /\ nets[i] \in Network /\ nets[i].host \in HostConf /\ nets[i].iface \in {"", "a", "b"}
         /\ nets[i].host.engine = "" => nets[i].host.ifType = ""
         /\ nets[i].host.ifType = "memif" => nets[i].host.engine = "vpp" /\ nets[i].host.role # ""
<1>1. nets \in Seq(Network) /\ i \in 1..Len(nets)
  BY AnnotationAssumption
<1>2. nets[i] \in Network
  BY <1>1
<1>3. nets[i].host \in HostConf /\ nets[i].iface \in {"", "a", "b"}
  BY <1>2 DEF Network
<1>4. \/ nets[i].host.engine = "" /\ nets[i].host.ifType = ""
      \/ nets[i].host.engine = "vpp" /\ nets[i].host.ifType = "memif" /\ nets[i].host.role # ""
      \/ nets[i].host.engine = "ovs-dpdk" /\ nets[i].host.ifType = "vhostuser"
  BY AnnotationAssumption
<1> QED BY <1>2, <1>3, <1>4

\* A step that leaves the entries alone keeps what is said of them.
LEMMA EntriesStay ==
  ASSUME AInv, DInv, nets' = nets, api'.entries = api.entries, api'.mapped = api.mapped,
         again \subseteq again',
         \A a \in Att :
           /\ pc[a] \in {"added", "addFailed", "deleted"} =>
                pc'[a] \in {"added", "addFailed", "deleted"} \/ a \in again'
           /\ pc[a] # "none" => pc'[a] # "none"
           /\ pc'[a] = "added" => pc[a] = "added"
           /\ pc'[a] # "none" => pc[a] # "none" \/ \A j \in 1..(a[2] - 1) : ~TextBridge(nets[j].host)
           /\ pc'[a] = "update" => pc[a] = "update" \/ ~TextBridge(nets[a[2]].host)
  PROVE  DInv'
<1>1. Att' = Att /\ \A a \in Att : EntryOf(a)' = EntryOf(a)
  BY NetsFixed
<1>2. ASSUME NEW k \in 1..Len(api.entries) PROVE EntryOK(k)'
  <2>1. EntryOK(k)
    BY DEF DInv
  <2> QED BY <1>1, <2>1 DEF EntryOK
<1>3. ASSUME NEW a \in Att PROVE Ordered(a)' /\ Listed(a)'
  <2>1. Ordered(a) /\ Listed(a)
    BY DEF DInv
  <2> QED BY <2>1 DEF Ordered, Listed
<1> QED BY <1>1, <1>2, <1>3 DEF DInv

\* A write that is not stale adds the entry of its attachment.
LEMMA WriteAppends ==
  ASSUME AInv, NEW a \in Att, pc[a] = "update", Fresh(a), api' = Annotated(a)
  PROVE  /\ api.entries \in Seq(Entry)
         /\ api'.entries = Append(api.entries, EntryOf(a)) /\ api'.mapped = MappedSharedDir
         /\ Len(api'.entries) = Len(api.entries) + 1
         /\ \A k \in 1..Len(api.entries) : api'.entries[k] = api.entries[k]
         /\ api'.entries[Len(api.entries) + 1] = EntryOf(a)
<1>1. a \in AllAtt /\ EntryOf(a) \in Entry
  BY AttType, EntryType DEF AInv
<1>2. copy[a] \in Pod /\ copy[a].entries = api.entries
  BY <1>1 DEF AInv, CopyOK, Fresh
<1>3. api.entries \in Seq(Entry)
  BY DEF AInv, Pod
<1>4. api'.entries = Append(api.entries, EntryOf(a)) /\ api'.mapped = MappedSharedDir
  BY <1>2 DEF Annotated, Pod
<1> QED BY <1>1, <1>3, <1>4, AppendProperties

LEMMA WriteLists ==
  ASSUME AInv, DInv, NEW a \in Att, pc[a] = "update", Fresh(a), api' = Annotated(a),
         nets' = nets, again' = again,
         NEW label \in {"added", "addFailed"}, pc' = [pc EXCEPT ![a] = label]
  PROVE  DInv'
<1>1. Att' = Att /\ \A b \in Att : EntryOf(b)' = EntryOf(b)
  BY NetsFixed
<1>2. /\ api.entries \in Seq(Entry) /\ Len(api.entries) \in Nat
      /\ api'.mapped = MappedSharedDir
      /\ Len(api'.entries) = Len(api.entries) + 1
      /\ \A k \in 1..Len(api.entries) : api'.entries[k] = api.entries[k]
      /\ api'.entries[Len(api.entries) + 1] = EntryOf(a)
  BY WriteAppends
<1>3. a \in AllAtt /\ pc'[a] = label /\ (\A b \in Att \ {a} : pc'[b] = pc[b])
  BY AttType DEF AInv
<1>4. EntryOf(a).att = a
  BY DEF EntryOf
<1>5. \A k \in 1..Len(api.entries) : EntryOK(k) /\ (api.entries[k].att = a => a \in again)
  BY DEF DInv, EntryOK
<1>6. ~TextBridge(nets[a[2]].host)
  BY DEF DInv, Ordered
<1>7. ASSUME NEW k \in 1..Len(api'.entries) PROVE EntryOK(k)'
  <2>1. CASE k \in 1..Len(api.entries)
    <3> DEFINE b == api.entries[k].att
    <3>1. EntryOK(k) /\ api'.entries[k] = api.entries[k] /\ (b = a => a \in again)
      BY <1>2, <1>5, <2>1
    <3>2. ASSUME b \notin again, NEW j \in 1..Len(api'.entries), api'.entries[j].att = b
          PROVE  j = k
      <4>1. j \in 1..Len(api.entries)
        BY <1>2, <1>4, <3>1, <3>2
      <4> QED BY <1>2, <3>1, <3>2, <4>1 DEF EntryOK
    <3>3. b \in Att /\ api.entries[k] = EntryOf(b) /\ ~TextBridge(nets[b[2]].host)
      BY <3>1 DEF EntryOK
    <3>4. pc'[b] # "none" /\ (pc'[b] \in {"added", "addFailed", "deleted"} \/ b \in again)
      BY <1>3, <3>1, <3>3 DEF EntryOK
    <3> QED BY <1>1, <3>1, <3>2, <3>3, <3>4 DEF EntryOK, TextBridge, BridgeDomainID
  <2>2. CASE k = Len(api.entries) + 1
    <3>1. api'.entries[k] = EntryOf(a) /\ api'.entries[k].att = a
      BY <1>2, <1>4, <2>2
    <3>2. ASSUME a \notin again, NEW j \in 1..Len(api'.entries), api'.entries[j].att = a PROVE j = k
      BY <1>2, <1>5, <2>2, <3>2
    <3> QED BY <1>1, <1>3, <1>6, <3>1, <3>2 DEF EntryOK
  <2> QED BY <1>2, <2>1, <2>2
<1>8. ASSUME NEW b \in Att PROVE Ordered(b)' /\ Listed(b)'
  <2>1. Ordered(b) /\ Listed(b)
    BY DEF DInv
  <2>2. Ordered(b)'
    BY <1>3, <1>6, <2>1 DEF Ordered
  <2>3. CASE b = a
    <3>1. Len(api.entries) + 1 \in 1..Len(api'.entries)
      BY <1>2
    <3> QED BY <1>2, <1>4, <2>2, <2>3, <3>1 DEF Listed
  <2>4. CASE b # a
    <3>1. \A k \in 1..Len(api.entries) : k \in 1..Len(api'.entries)
      BY <1>2
    <3> QED BY <1>2, <1>3, <2>1, <2>2, <2>4, <3>1 DEF Listed
  <2> QED BY <2>3, <2>4
<1> QED BY <1>1, <1>2, <1>7, <1>8 DEF DInv

\* Every step keeps it.
LEMMA NextDInv ==
  ASSUME AInv, DInv, Next
  PROVE  DInv'
<1> USE DEF Goto
<1>0. \A a \in Att : a \in AllAtt /\ a[2] \in 1..Len(nets)
  BY AttType DEF AInv
<1>1. ASSUME NEW a \in Att, GetPod(a) PROVE DInv'
  <2>1. \A j \in 1..(a[2] - 1) : ~TextBridge(nets[j].host)
    <3> SUFFICES ASSUME NEW j \in 1..(a[2] - 1), TextBridge(nets[j].host) PROVE FALSE
      OBVIOUS
    <3>1. PICK sb \in Sandbox, i \in 1..Len(nets) : a = <<sb, i>>
      BY DEF Att
    <3>2. nets \in Seq(Network) /\ Len(nets) \in Nat
      BY AttType DEF AInv
    <3>3. j \in 1..Len(nets) /\ j < i
      BY <3>1, <3>2
    <3>4. <<sb, j>> \in Att
      BY <3>3 DEF Att
    <3>5. Handled(<<sb, j>>)
      BY <3>3, HostFacts DEF TextBridge, Handled, AInv
    <3>6. pc[<<sb, j>>] = "added"
      BY <1>1, <3>1, <3>3, <3>4, <3>5 DEF GetPod, Turn
    <3>7. Ordered(<<sb, j>>)
      BY <3>4 DEF DInv
    <3> QED BY <3>6, <3>7 DEF Ordered
  <2>2. /\ nets' = nets /\ api' = api /\ pc' = [pc EXCEPT ![a] = "host"]
        /\ again \subseteq again' /\ (pc[a] = "none" \/ a \in again')
    BY <1>1 DEF GetPod
  <2> QED BY <1>0, <2>1, <2>2, EntriesStay DEF AInv, Label
<1>2. ASSUME NEW a \in Att, AddOnHost(a) PROVE DInv'
  <2>1. /\ nets' = nets /\ api' = api /\ again' = again /\ pc[a] = "host"
        /\ \/ pc' = [pc EXCEPT ![a] = "addFailed"]
           \/ pc' = [pc EXCEPT ![a] = "update"] /\ ~TextBridge(nets[a[2]].host)
    BY <1>2 DEF AddOnHost, TextBridge, AddBridgeDomain, BridgeDomainID
  <2> QED BY <1>0, <2>1, EntriesStay DEF AInv, Label
<1>3. ASSUME NEW a \in Att, WritePodAnnotation(a) PROVE DInv'
  <2>1. nets' = nets /\ again' = again /\ pc[a] = "update"
    BY <1>3 DEF WritePodAnnotation
  <2>2. CASE api' = api /\ pc' = [pc EXCEPT ![a] = "addFailed"]
    BY <1>0, <2>1, <2>2, EntriesStay DEF AInv, Label
  <2>3. ASSUME NEW label \in {"added", "addFailed"}, pc' = [pc EXCEPT ![a] = label],
               Fresh(a), api' = Annotated(a)
        PROVE  DInv'
    BY <2>1, <2>3, WriteLists
  <2> QED BY <1>3, <2>2, <2>3 DEF WritePodAnnotation, Conflict
<1>4. ASSUME NEW a \in Att, Del(a) PROVE DInv'
  <2>1. /\ nets' = nets /\ api' = api /\ again' = again /\ pc' = [pc EXCEPT ![a] = "deleted"]
        /\ pc[a] \in {"added", "addFailed"}
    BY <1>4 DEF Del
  <2> QED BY <1>0, <2>1, EntriesStay DEF AInv, Label
<1>5. CASE OtherWrite \/ PodDeleted
  <2>1. /\ nets' = nets /\ pc' = pc /\ again' = again
        /\ api' = [api EXCEPT !.rv = @ + 1] \/ api' = [api EXCEPT !.live = FALSE]
    BY <1>5 DEF OtherWrite, PodDeleted
  <2>2. api'.entries = api.entries /\ api'.mapped = api.mapped
    BY <2>1 DEF AInv, Pod
  <2> QED BY <2>1, <2>2, EntriesStay
<1>6. CASE VppRestarts \/ Sync \/ SyncSkips
  <2>1. nets' = nets /\ api' = api /\ pc' = pc /\ again' = again
    BY <1>6 DEF VppRestarts, Sync, SyncSkips
  <2> QED BY <2>1, EntriesStay
<1> QED BY <1>1, <1>2, <1>3, <1>4, <1>5, <1>6 DEF Next

LEMMA DInvHolds == Spec => []DInv
<1>1. Init => DInv
  <2> SUFFICES ASSUME Init PROVE DInv
    OBVIOUS
  <2>1. api.entries = <<>> /\ \A a \in Att : pc[a] = "none"
    <3>1. nets \in NetLists /\ \A a \in Att : a \in AllAtt
      BY AttType DEF Init
    <3>2. PICK dir \in {"", "mount", "other"} :
            api = [live |-> TRUE, rv |-> 1, entries |-> <<>>, mapped |-> dir]
      BY DEF Init
    <3>3. api.entries = <<>>
      BY <3>2
    <3>4. pc = [a \in AllAtt |-> "none"]
      BY DEF Init
    <3> QED BY <3>1, <3>3, <3>4
  <2> QED BY <2>1 DEF DInv, Ordered, Listed
<1>2. AInv /\ DInv /\ [Next]_vars => DInv'
  <2> SUFFICES ASSUME AInv, DInv, [Next]_vars PROVE DInv'
    OBVIOUS
  <2>1. CASE Next
    BY <2>1, NextDInv
  <2>2. CASE UNCHANGED vars
    BY <2>2, EntriesStay DEF vars
  <2> QED BY <2>1, <2>2
<1> QED BY <1>1, <1>2, CopiesStayGood, PTL DEF Spec

\* Counting the places of a list that have some property.
LEMMA Counts ==
  ASSUME NEW n \in Nat, NEW K, K \subseteq 1..n
  PROVE  /\ Cardinality(K) \in Nat
         /\ Cardinality(K) >= 1 <=> K # {}
         /\ (\A j, k \in K : j = k) => Cardinality(K) <= 1
<1>1. IsFiniteSet(1..n)
  BY FS_Interval
<1>2. IsFiniteSet(K)
  BY <1>1, FS_Subset
<1>3. Cardinality(K) \in Nat /\ (Cardinality(K) = 0 <=> K = {})
  BY <1>2, FS_CardinalityType, FS_EmptySet
<1>4. ASSUME NEW k \in K, \A i, j \in K : i = j PROVE Cardinality(K) <= 1
  <2>1. K = {k}
    BY <1>4
  <2>2. Cardinality(K) = 1
    BY <2>1, FS_Singleton
  <2> QED BY <2>2
<1>5. (\A j, k \in K : j = k) => Cardinality(K) <= 1
  <2>1. CASE K = {}
    <3>1. Cardinality(K) = 0
      BY <1>3, <2>1
    <3> QED BY <3>1
  <2>2. CASE K # {}
    BY <1>4, <2>2
  <2> QED BY <2>1, <2>2
<1>6. Cardinality(K) >= 1 <=> K # {}
  <2>1. ASSUME NEW c \in Nat PROVE c >= 1 <=> c # 0
    OBVIOUS
  <2> QED BY <1>3, <2>1
<1> QED BY <1>3, <1>5, <1>6

\* What GetRemoteConfig reads in the container has every interface whose ADD
\* returned success, and none twice that was not added again after its DEL,
\* whatever the writers of the pod and the failures were.
THEOREM Delivered == Spec => []AddedIsDelivered
<1>1. AInv /\ DInv => AddedIsDelivered
  <2> SUFFICES ASSUME AInv, DInv, NEW a \in Att
               PROVE  /\ pc[a] = "added" => Times(a, GetRemoteConfig(api)) >= 1
                      /\ a \notin again => Times(a, api.entries) <= 1
                      /\ Times(a, api.entries) >= 1 => api.mapped = MappedSharedDir
    BY DEF AddedIsDelivered
  <2> DEFINE K == {k \in 1..Len(api.entries) : api.entries[k].att = a}
  <2>1. api.entries \in Seq(Entry) /\ Len(api.entries) \in Nat
    <3>1. api.entries \in Seq(Entry)
      BY DEF AInv, Pod
    <3> QED BY <3>1
  <2>2. /\ Cardinality(K) \in Nat /\ (Cardinality(K) >= 1 <=> K # {})
        /\ (\A j, k \in K : j = k) => Cardinality(K) <= 1
    <3>1. K \subseteq 1..Len(api.entries)
      OBVIOUS
    <3> HIDE DEF K
    <3> QED BY <2>1, <3>1, Counts
  <2>3. a \notin again => \A j, k \in K : j = k
    BY DEF DInv, EntryOK
  <2>4. K # {} => api.entries # <<>>
    BY <2>1
  <2>5. K # {} => api.mapped = MappedSharedDir /\ GetRemoteConfig(api) = api.entries
    BY <2>4 DEF DInv, GetRemoteConfig, HasAnnotations, MappedSharedDir
  <2>6. pc[a] = "added" => K # {}
    BY DEF DInv, Listed
  <2>7. Times(a, api.entries) = Cardinality(K)
    BY DEF Times
  <2> HIDE DEF K
  <2> QED BY <2>2, <2>3, <2>5, <2>6, <2>7
<1> QED BY <1>1, CopiesStayGood, DInvHolds, PTL

-----------------------------------------------------------------------------
(* What is in VPP.                                                         *)

\* The daemon can tell what ADD made of it.
Restorable(a) ==
  /\ nets[a[2]].host.ifType = "memif" /\ nets[a[2]].host.role = "master"
  /\ nets[a[2]].host.sock = "" /\ Identified(a) /\ OneMode(nets[a[2]].host)

\* On its own socket there is nothing but its memif, whole or half made; what an ADD
\* left half made is there until the DEL.
OwnSocket(a) ==
  Restorable(a) =>
    \A m \in vpp : m.socket[2] = a =>
      \/ m \in {AddedMemif(a), HalfMade(AddedMemif(a), "sync")}
      \/ m = HalfMade(AddedMemif(a), "add") /\ pc[a] = "addFailed"

\* After a Sync without an error it is there.
Restored(a) ==
  synced /\ api.live /\ volume /\ pc[a] = "added" /\ Restorable(a) =>
    AddedMemif(a) \in vpp \/ HalfMade(AddedMemif(a), "sync") \in vpp

\* The daemon can tell it of every attachment of the pod.
AllTold ==
  \A a \in Att : Identified(a) /\ OneMode(nets[a[2]].host) /\ nets[a[2]].host.role # "slave"

\* Some ADD made it.
MadeByAdd(m) == \E a \in Att : Made(a) /\ m \in MadeOf(a)

VInv ==
  /\ vpp \subseteq Memif /\ volume \in BOOLEAN /\ synced \in BOOLEAN
  /\ \A a \in Att : OwnSocket(a) /\ Restored(a)
  /\ AllTold => \A m \in vpp : MadeByAdd(m)

LEMMA Numbers ==
  ASSUME NEW n \in Nat, NEW i \in 1..n, NEW k
  PROVE  /\ k \in 1..n /\ k <= i => k \in 1..i
         /\ k \in 1..i => k \in 1..n /\ (k # i => k \in 1..(i - 1) /\ n # 1)
OBVIOUS

LEMMA UpToThree ==
  ASSUME NEW n \in 1..3, NEW k \in 1..n
  PROVE  k = 1 \/ k = 2 \/ k = 3
OBVIOUS

\* A set of numbers up to three has a least one.
LEMMA Least ==
  ASSUME NEW S, \A k \in S : k = 1 \/ k = 2 \/ k = 3, S # {}
  PROVE  LET first == CHOOSE j \in S : \A k \in S : j <= k IN
         first \in S /\ \A k \in S : first <= k
<1>1. \E j \in S : \A k \in S : j <= k
  <2>1. CASE 1 \in S
    BY <2>1
  <2>2. CASE 1 \notin S /\ 2 \in S
    BY <2>2
  <2>3. CASE 1 \notin S /\ 2 \notin S
    BY <2>3
  <2> QED BY <2>1, <2>2, <2>3
<1> QED BY <1>1

\* The network found for an entry is the first of those that may be the entry's.
LEMMA FirstNetwork ==
  ASSUME nets \in NetLists, NEW e \in Entry, NEW i \in 1..Len(nets),
         nets[i].iface = "" \/ nets[i].iface = e.ifName
  PROVE  /\ NetworkOf(e) \in 1..i
         /\ Len(nets) = 1 \/ nets[NetworkOf(e)].iface = "" \/ nets[NetworkOf(e)].iface = e.ifName
<1> DEFINE may == {j \in 1..Len(nets) : Len(nets) = 1 \/ nets[j].iface \in {"", e.ifName}}
           first == CHOOSE j \in may : \A k \in may : j <= k
<1>1. Len(nets) \in 1..3
  <2>1. Len(IfNames) = 3
    BY DEF IfNames
  <2> QED BY <2>1, AnnotationAssumption
<1>2. i \in may /\ \A k \in may : k \in 1..Len(nets)
  OBVIOUS
<1>3. \A k \in 1..Len(nets) : k = 1 \/ k = 2 \/ k = 3
  BY <1>1, UpToThree
<1>4. NetworkOf(e) = first
  BY <1>2 DEF NetworkOf
<1>5. first \in may /\ \A k \in may : first <= k
  <2> HIDE DEF may
  <2> QED BY <1>2, <1>3, Least
<1>6. first \in 1..Len(nets) /\ first <= i
  BY <1>2, <1>5
<1>7. Len(nets) = 1 \/ nets[first].iface = "" \/ nets[first].iface = e.ifName
  BY <1>5
<1> HIDE DEF first
<1>8. first \in 1..i
  BY <1>1, <1>6, Numbers
<1> QED BY <1>4, <1>7, <1>8

\* The daemon finds the network of an attachment that can be told from the ones
\* before it.
LEMMA OwnNetwork ==
  ASSUME nets \in NetLists, NEW a \in Att
  PROVE  /\ NetworkOf(EntryOf(a)) \in 1..a[2] /\ a[2] \in 1..Len(nets)
         /\ Identified(a) => NetworkOf(EntryOf(a)) = a[2]
<1>1. a[2] \in 1..Len(nets) /\ a[2] \in 1..Len(IfNames) /\ nets \in Seq(Network) /\ Len(nets) \in Nat
  BY AttType
<1> DEFINE e == EntryOf(a)
           i == NetworkOf(e)
<1>2. e.ifName = IfName(a)
  BY DEF EntryOf
<1>3. nets[a[2]].iface = "" \/ nets[a[2]].iface = e.ifName
  BY <1>2 DEF IfName
<1> HIDE DEF e
<1>4. i \in 1..a[2] /\ (Len(nets) = 1 \/ nets[i].iface = "" \/ nets[i].iface = e.ifName)
  <2>1. e \in Entry
    BY EntryType DEF e
  <2> QED BY <1>1, <1>3, <2>1, FirstNetwork
<1>5. ASSUME Identified(a), i # a[2] PROVE FALSE
  <2> HIDE DEF i
  <2>1. i \in 1..(a[2] - 1) /\ i \in 1..Len(nets) /\ Len(nets) # 1
    BY <1>1, <1>4, <1>5, Numbers
  <2>2. nets[i].iface # "" /\ nets[i].iface = IfName(a)
    BY <1>2, <1>4, <1>5, <2>1 DEF Identified
  <2>3. nets[i].iface \in {"", "a", "b"}
    BY <2>1, HostFacts
  <2>4. IfNames[a[2]] \notin {"a", "b"}
    <3>1. a[2] = 1 \/ a[2] = 2 \/ a[2] = 3
      BY <1>1 DEF IfNames
    <3> QED BY <3>1 DEF IfNames
  <2>5. nets[a[2]].iface = nets[i].iface
    BY <2>2, <2>3, <2>4 DEF IfName
  <2>6. i = a[2]
    BY <1>1, <2>1, <2>2, <2>5, AnnotationAssumption
  <2> QED BY <1>5, <2>6
<1> QED BY <1>1, <1>4, <1>5 DEF e, i

\* No entry that the daemon reads has a bridge name that is not a number: ADD had
\* failed on it, and Multus had stopped there.
LEMMA NeverBad ==
  ASSUME AInv, DInv, NEW k \in 1..Len(api.entries), Wanted(api.entries[k])
  PROVE  ~BadName(k)
<1> DEFINE a == api.entries[k].att
           i == NetworkOf(api.entries[k])
<1>1. a \in Att /\ api.entries[k] = EntryOf(a) /\ EntryOK(k) /\ Ordered(a)
  BY DEF DInv, EntryOK
<1> HIDE DEF a
<1>2. i \in 1..a[2] /\ a[2] \in 1..Len(nets)
  BY <1>1, OwnNetwork DEF AInv
<1>3. nets[i].host.ifType = "memif"
  BY DEF Wanted, IsVppMemif
<1>4. ~TextBridge(nets[i].host)
  <2>1. CASE i = a[2]
    BY <1>1, <2>1 DEF EntryOK, a
  <2>2. CASE i # a[2]
    <3>1. i \in 1..(a[2] - 1)
      BY <1>2, <2>2
    <3>2. pc[a] # "none"
      BY <1>1 DEF EntryOK, a
    <3> QED BY <1>1, <3>1, <3>2 DEF Ordered
  <2> QED BY <2>1, <2>2
<1> QED BY <1>3, <1>4 DEF BadName, HostOf, TextBridge

\* The fields of a HostConf that ADD and the daemon read.
LEMMA HostFields ==
  ASSUME NEW h \in HostConf
  PROVE  /\ h.role \in {"", "master", "slave"} /\ h.bridgeName \in {0, 7, Text} /\ h.bridgeId \in {0, 5}
         /\ h.mode \in Mode /\ h.contMode \in Mode /\ h.sock \in {"", "memif.sock"}
<1>1. h.role \in {"", "master", "slave"}
  BY DEF HostConf
<1>2. h.bridgeName \in {0, 7, Text} /\ h.bridgeId \in {0, 5}
  BY DEF HostConf
<1>3. h.mode \in Mode /\ h.contMode \in Mode
  BY DEF HostConf
<1>4. h.sock \in {"", "memif.sock"}
  BY DEF HostConf
<1> QED BY <1>1, <1>2, <1>3, <1>4

\* A file that a NAD names is not the file of an attachment.
LEMMA NotNamed ==
  ASSUME nets \in NetLists, NEW a \in Att, NEW file
  PROVE  Named(file) # a
<1>1. a[2] \in 1..Len(nets) /\ Len(nets) \in Nat
  <2>1. nets \in Seq(Network) /\ a[2] \in 1..Len(nets)
    BY AttType
  <2> QED BY <2>1
<1>2. a[2] # 0
  BY <1>1, Numbers
<1> QED BY <1>2 DEF Named

\* What ADD puts into VPP.
LEMMA AddedFacts ==
  ASSUME AInv, volume \in BOOLEAN, NEW a \in Att, nets[a[2]].host.ifType = "memif"
  PROVE  /\ AddedMemif(a) \in Memif
         /\ \A b \in Att : AddedMemif(a).socket[2] = b => a = b
<1> DEFINE h == nets[a[2]].host
           dir == IF volume THEN "volume" ELSE "default"
           file == IF h.sock # "" THEN Named(h.sock) ELSE a
           bd == IF h.netType = "bridge" /\ AddBridgeDomain(h) # Text THEN AddBridgeDomain(h) ELSE 0
<1>1. a \in AllAtt /\ h \in HostConf /\ h.role # ""
  BY AttType, HostFacts DEF AInv
<1>2. /\ h.role \in {"", "master", "slave"} /\ h.bridgeName \in {0, 7, Text} /\ h.bridgeId \in {0, 5}
      /\ h.mode \in Mode /\ h.sock \in {"", "memif.sock"}
  BY <1>1, HostFields
<1>3. AddedMemif(a) = [socket |-> <<dir, file>>, role |-> h.role, mode |-> AddMode(h), bd |-> bd,
                       half |-> "no"]
  BY DEF AddedMemif, Socket
<1>4. <<dir, file>> \in {"volume", "default"} \X (AllAtt \union {Named("memif.sock")})
  BY <1>1, <1>2
<1>5. h.role \in {"master", "slave"}
  BY <1>1, <1>2
<1>6. AddMode(h) \in {"ethernet", "ip"}
  BY <1>2 DEF AddMode, Mode
<1>7. bd \in {0, 5, 7}
  BY <1>2 DEF AddBridgeDomain
<1>8. AddedMemif(a).socket[2] = file
  <2> HIDE DEF h, dir, file, bd
  <2>1. AddedMemif(a).socket = <<dir, file>>
    BY <1>3
  <2> QED BY <2>1
<1>9. \A b \in Att : file = b => a = b
  BY NotNamed DEF AInv
<1> HIDE DEF h, dir, file, bd
<1>10. AddedMemif(a) \in Memif
  BY <1>3, <1>4, <1>5, <1>6, <1>7 DEF Memif
<1> QED BY <1>8, <1>9, <1>10

\* What the daemon puts there for an entry: for an attachment that it can tell from
\* the others, what ADD put there.
LEMMA WantFacts ==
  ASSUME AInv, DInv, volume \in BOOLEAN, volume, NEW k \in DesiredForPod
  PROVE  /\ Want(k) \in Memif
         /\ api.entries[k].att \in Att
         /\ \A b \in Att : Want(k).socket[2] = b => api.entries[k].att = b
         /\ LET a == api.entries[k].att IN
            Identified(a) /\ OneMode(nets[a[2]].host) /\ nets[a[2]].host.role # "slave"
              => Want(k) = AddedMemif(a)
<1> DEFINE a == api.entries[k].att
           i == NetworkOf(api.entries[k])
           h == nets[i].host
           file == IF h.sock # "" THEN Named(h.sock) ELSE a
           bd == IF h.netType = "bridge" THEN BridgeDomainID(h) ELSE 0
           mode == IF (IF h.mode # "" THEN h.mode ELSE api.entries[k].mode) = "ip"
                   THEN "ip" ELSE "ethernet"
<1>1. k \in 1..Len(api.entries) /\ Wanted(api.entries[k])
  BY DEF DesiredForPod
<1>2. a \in Att /\ api.entries[k] = EntryOf(a) /\ ~BadName(k)
  BY <1>1, NeverBad DEF DInv, EntryOK
<1>3. a \in AllAtt /\ i \in 1..Len(nets) /\ (Identified(a) => i = a[2])
  <2>1. i \in 1..a[2] /\ a[2] \in 1..Len(nets) /\ (Identified(a) => i = a[2])
    BY <1>2, OwnNetwork DEF AInv
  <2>2. a \in AllAtt /\ nets \in Seq(Network) /\ Len(nets) \in Nat
    BY <1>2, AttType DEF AInv
  <2> HIDE DEF i, a
  <2> QED BY <2>1, <2>2, Numbers
<1>4. h \in HostConf /\ h.ifType = "memif" /\ h.role # ""
  BY <1>1, <1>3, HostFacts DEF AInv, Wanted, IsVppMemif
<1>5. /\ h.role \in {"", "master", "slave"} /\ h.bridgeName \in {0, 7, Text} /\ h.bridgeId \in {0, 5}
      /\ h.mode \in Mode /\ h.contMode \in Mode /\ h.sock \in {"", "memif.sock"}
  BY <1>4, HostFields
<1>6. Want(k) = [socket |-> <<"volume", file>>, role |-> "master", bd |-> bd, mode |-> mode,
               half |-> "no"]
  BY DEF Want, DesiredMemif, HostOf
<1>7. bd \in {0, 5, 7} /\ (h.netType = "bridge" => BridgeDomainID(h) # Text)
  BY <1>2, <1>5 DEF BadName, HostOf, BridgeDomainID
<1>8. <<"volume", file>> \in {"volume", "default"} \X (AllAtt \union {Named("memif.sock")})
  BY <1>3, <1>5
<1>9. \A b \in Att : file = b => a = b
  BY NotNamed DEF AInv
<1>10. Want(k).socket[2] = file
  <2> HIDE DEF file, bd, mode
  <2>1. Want(k).socket = <<"volume", file>>
    BY <1>6
  <2> QED BY <2>1
<1>11. mode \in {"ethernet", "ip"}
  OBVIOUS
<1>12. Want(k) \in Memif
  <2> HIDE DEF file, bd, mode
  <2> QED BY <1>6, <1>7, <1>8, <1>11 DEF Memif
<1>13. ASSUME Identified(a), OneMode(nets[a[2]].host), nets[a[2]].host.role # "slave"
       PROVE  Want(k) = AddedMemif(a)
  <2>1. i = a[2] /\ h = nets[a[2]].host /\ h.role = "master"
    BY <1>3, <1>4, <1>5, <1>13
  <2>2. Socket(a) = <<"volume", file>>
    BY <2>1 DEF Socket
  <2>3. bd = IF h.netType = "bridge" /\ AddBridgeDomain(h) # Text THEN AddBridgeDomain(h) ELSE 0
    BY <1>7 DEF AddBridgeDomain, BridgeDomainID
  <2>4. api.entries[k].mode = IF h.contMode # "" THEN h.contMode ELSE AddMode(h)
    <3>1. EntryOf(a).mode = IF nets[a[2]].host.contMode # "" THEN nets[a[2]].host.contMode
                            ELSE IF nets[a[2]].host.ifType = "memif"
                                 THEN AddMode(nets[a[2]].host) ELSE ""
      BY DEF EntryOf
    <3> HIDE DEF a, h
    <3> QED BY <1>2, <1>4, <2>1, <3>1
  <2>5. mode = AddMode(h)
    BY <1>5, <1>13, <2>1, <2>4 DEF OneMode, AddMode, Mode
  <2>6. AddedMemif(a) = [socket |-> Socket(a), role |-> h.role, mode |-> AddMode(h),
          bd |-> IF h.netType = "bridge" /\ AddBridgeDomain(h) # Text THEN AddBridgeDomain(h) ELSE 0,
          half |-> "no"]
    BY <2>1 DEF AddedMemif
  <2> HIDE DEF a, i, h, file, bd, mode
  <2> QED BY <1>6, <2>1, <2>2, <2>3, <2>5, <2>6
<1> QED BY <1>2, <1>9, <1>10, <1>12, <1>13

\* A half-made memif is one too, on the same socket.
LEMMA HalfFacts ==
  ASSUME NEW m \in Memif, NEW by \in {"add", "sync"}
  PROVE  HalfMade(m, by) \in Memif /\ HalfMade(m, by).socket = m.socket
<1> DEFINE Place == {"volume", "default"} \X (AllAtt \union {Named("memif.sock")})
<1>1. Memif = [socket : Place, role : {"master", "slave"}, bd : {0, 5, 7},
               mode : {"ethernet", "ip"}, half : {"no", "add", "sync"}]
  BY DEF Memif
<1> HIDE DEF Place
<1>2. HalfMade(m, by) = [m EXCEPT !.bd = 0, !.half = by]
  BY DEF HalfMade
<1>3. 0 \in {0, 5, 7} /\ by \in {"no", "add", "sync"}
  OBVIOUS
<1> QED BY <1>1, <1>2, <1>3

\* The networks and the volume of the pod stay, and what is computed from them.
LEMMA MemifsFixed ==
  ASSUME nets' = nets, volume' = volume
  PROVE  /\ Att' = Att /\ AllTold' = AllTold
         /\ \A a \in Att : /\ AddedMemif(a)' = AddedMemif(a) /\ Restorable(a)' = Restorable(a)
                           /\ MadeOf(a)' = MadeOf(a)
<1>1. Att' = Att
  BY DEF Att
<1>2. AllTold' = AllTold
  BY <1>1 DEF AllTold, Identified
<1>3. \A a \in Att : AddedMemif(a)' = AddedMemif(a)
  BY DEF AddedMemif, Socket
<1>4. \A a \in Att : Restorable(a)' = Restorable(a)
  BY DEF Restorable, Identified
<1>5. \A a \in Att : MadeOf(a)' = MadeOf(a)
  BY <1>3 DEF MadeOf, HalfMade
<1> QED BY <1>1, <1>2, <1>3, <1>4, <1>5

\* A step that puts nothing into VPP keeps the invariant.
LEMMA VppStays ==
  ASSUME VInv, nets' = nets, volume' = volume, vpp' \subseteq vpp, synced' \in BOOLEAN,
         \A a \in Att : /\ Made(a) => Made(a)'
                        /\ pc[a] = "addFailed" =>
                             \/ pc'[a] = "addFailed"
                             \/ Restorable(a) => \A m \in vpp' : m.socket[2] # a,
         synced' => /\ synced /\ vpp' = vpp /\ (api'.live => api.live)
                    /\ \A a \in Att : pc'[a] = "added" => pc[a] = "added"
  PROVE  VInv'
<1>1. /\ Att' = Att /\ AllTold' = AllTold
      /\ \A a \in Att : /\ AddedMemif(a)' = AddedMemif(a) /\ Restorable(a)' = Restorable(a)
                        /\ MadeOf(a)' = MadeOf(a)
  BY MemifsFixed
<1>2. vpp' \subseteq Memif /\ volume' \in BOOLEAN /\ synced' \in BOOLEAN
  BY DEF VInv
<1>3. ASSUME NEW a \in Att PROVE OwnSocket(a)'
  <2>1. OwnSocket(a)
    BY DEF VInv
  <2> QED BY <1>1, <2>1 DEF OwnSocket, HalfMade
<1>4. ASSUME NEW a \in Att PROVE Restored(a)'
  <2>1. Restored(a)
    BY DEF VInv
  <2> QED BY <1>1, <2>1 DEF Restored, HalfMade
<1>5. ASSUME AllTold, NEW m \in vpp' PROVE MadeByAdd(m)'
  <2>1. MadeByAdd(m)
    BY <1>5 DEF VInv
  <2>2. PICK a \in Att : Made(a) /\ m \in MadeOf(a)
    BY <2>1 DEF MadeByAdd
  <2>3. Made(a)' /\ m \in MadeOf(a)' /\ a \in Att'
    BY <1>1, <2>2
  <2> QED BY <2>3 DEF MadeByAdd
<1> QED BY <1>1, <1>2, <1>3, <1>4, <1>5 DEF VInv

\* What Made says of the next state, for steps that only move pc or add to again.
LEMMA MadeStays ==
  ASSUME NEW a, again \subseteq again',
         pc[a] \notin {"none", "host"} => pc'[a] \notin {"none", "host"} \/ a \in again'
  PROVE  Made(a) => Made(a)'
BY DEF Made

\* AddOnHost puts in what it makes of its own attachment.
LEMMA AddOnHostKeeps ==
  ASSUME AInv, VInv, NEW a \in Att, AddOnHost(a)
  PROVE  VInv'
<1> USE DEF Goto
<1>0. a \in AllAtt
  BY AttType DEF AInv
<1>1. /\ nets' = nets /\ volume' = volume /\ synced' = FALSE /\ pc[a] = "host" /\ again' = again
      /\ \E label \in {"update", "addFailed"} : pc' = [pc EXCEPT ![a] = label]
      /\ \/ vpp' = vpp
         \/ nets[a[2]].host.ifType = "memif" /\ vpp' = vpp \union {AddedMemif(a)}
         \/ /\ nets[a[2]].host.ifType = "memif" /\ vpp' = vpp \union {HalfMade(AddedMemif(a), "add")}
            /\ pc' = [pc EXCEPT ![a] = "addFailed"]
  BY DEF AddOnHost
<1>2. /\ pc'[a] \notin {"none", "host"}
      /\ \A b \in Att : /\ pc[b] \notin {"none", "host"} => pc'[b] \notin {"none", "host"}
                        /\ pc[b] = "addFailed" => pc'[b] = "addFailed"
  BY <1>0, <1>1 DEF AInv
<1>3. Made(a)' /\ \A b \in Att : Made(b) => Made(b)'
  BY <1>1, <1>2 DEF Made
<1>4. CASE vpp' = vpp
  BY <1>1, <1>2, <1>3, <1>4, VppStays
<1>5. ASSUME NEW new, nets[a[2]].host.ifType = "memif", vpp' = vpp \union {new},
             \/ new = AddedMemif(a)
             \/ new = HalfMade(AddedMemif(a), "add") /\ pc' = [pc EXCEPT ![a] = "addFailed"]
      PROVE  VInv'
  <2>1. /\ Att' = Att /\ AllTold' = AllTold
        /\ \A b \in Att : /\ AddedMemif(b)' = AddedMemif(b) /\ Restorable(b)' = Restorable(b)
                          /\ MadeOf(b)' = MadeOf(b)
    BY <1>1, MemifsFixed
  <2>2. AddedMemif(a) \in Memif /\ \A b \in Att : AddedMemif(a).socket[2] = b => a = b
    BY <1>5, AddedFacts DEF VInv
  <2>3. new \in Memif /\ new.socket = AddedMemif(a).socket
    BY <1>5, <2>2, HalfFacts
  <2>4. vpp' \subseteq Memif /\ volume' \in BOOLEAN /\ synced' \in BOOLEAN
    BY <1>1, <1>5, <2>3 DEF VInv
  <2>5. ASSUME NEW b \in Att PROVE OwnSocket(b)' /\ Restored(b)'
    <3>1. OwnSocket(b)
      BY DEF VInv
    <3>2. new.socket[2] = b =>
            \/ new = AddedMemif(b)
            \/ new = HalfMade(AddedMemif(b), "add") /\ pc'[b] = "addFailed"
      BY <1>0, <1>5, <2>2, <2>3 DEF AInv
    <3>3. OwnSocket(b)'
      BY <1>2, <1>5, <2>1, <3>1, <3>2 DEF OwnSocket, HalfMade
    <3>4. Restored(b)'
      BY <1>1 DEF Restored
    <3> QED BY <3>3, <3>4
  <2>6. ASSUME AllTold, NEW m \in vpp' PROVE MadeByAdd(m)'
    <3>1. CASE m \in vpp
      <4>1. MadeByAdd(m)
        BY <2>6, <3>1 DEF VInv
      <4>2. PICK b \in Att : Made(b) /\ m \in MadeOf(b)
        BY <4>1 DEF MadeByAdd
      <4>3. Made(b)' /\ m \in MadeOf(b)' /\ b \in Att'
        BY <1>3, <2>1, <4>2
      <4> QED BY <4>3 DEF MadeByAdd
    <3>2. CASE m = new
      <4>1. m \in MadeOf(a)
        BY <1>5, <3>2 DEF MadeOf
      <4>2. Made(a)' /\ m \in MadeOf(a)' /\ a \in Att'
        BY <1>3, <2>1, <4>1
      <4> QED BY <4>2 DEF MadeByAdd
    <3> QED BY <1>5, <2>6, <3>1, <3>2
  <2> QED BY <2>1, <2>4, <2>5, <2>6 DEF VInv
<1> QED BY <1>1, <1>4, <1>5

\* The daemon wants the memif of every attachment it can tell, as ADD made it.
LEMMA WantsAdded ==
  ASSUME AInv, DInv, VInv, NEW a \in Att, api.live, volume, pc[a] = "added", Restorable(a)
  PROVE  \E k \in DesiredForPod : Want(k) = AddedMemif(a)
<1>1. PICK k \in 1..Len(api.entries) : api.entries[k].att = a
  BY DEF DInv, Listed
<1>2. api.entries[k] = EntryOf(a)
  BY <1>1 DEF DInv, EntryOK
<1>3. NetworkOf(EntryOf(a)) = a[2] /\ a[2] \in 1..Len(nets)
  BY OwnNetwork DEF AInv, Restorable
<1>4. a[2] # 0
  <2>1. nets \in Seq(Network)
    BY AttType DEF AInv
  <2>2. Len(nets) \in Nat
    BY <2>1
  <2> QED BY <1>3, <2>2, Numbers
<1>5. IsVppMemif(nets[a[2]].host)
  BY <1>3, HostFacts DEF IsVppMemif, Restorable, AInv
<1>6. Wanted(api.entries[k])
  BY <1>2, <1>3, <1>4, <1>5 DEF Wanted
<1>7. k \in DesiredForPod
  BY <1>6, NeverBad DEF DesiredForPod
<1>8. volume \in BOOLEAN
  BY DEF VInv
<1>9. Identified(a) /\ OneMode(nets[a[2]].host) /\ nets[a[2]].host.role # "slave"
  BY DEF Restorable
<1> QED BY <1>1, <1>7, <1>8, <1>9, WantFacts

\* What a Sync puts in, whole or half made, is what ADD made; unless it ended without
\* an error nothing else is asked of it.
LEMMA SyncPuts ==
  ASSUME AInv, DInv, VInv, nets' = nets, volume' = volume, pc' = pc, again' = again,
         synced' \in BOOLEAN, vpp \subseteq vpp',
         \A m \in vpp' : m \in vpp \/ \E k \in DesiredForPod : m \in {Want(k), HalfMade(Want(k), "sync")},
         \A a \in Att : Restored(a)'
  PROVE  VInv'
<1>1. /\ Att' = Att /\ AllTold' = AllTold
      /\ \A b \in Att : /\ AddedMemif(b)' = AddedMemif(b) /\ Restorable(b)' = Restorable(b)
                        /\ MadeOf(b)' = MadeOf(b)
  BY MemifsFixed
<1>2. ASSUME NEW k \in DesiredForPod
      PROVE  /\ Want(k) \in Memif
             /\ api.entries[k].att \in Att
             /\ \A b \in Att : Want(k).socket[2] = b => api.entries[k].att = b
             /\ LET a == api.entries[k].att IN
                Identified(a) /\ OneMode(nets[a[2]].host) /\ nets[a[2]].host.role # "slave"
                  => Want(k) = AddedMemif(a)
  <2>1. volume /\ volume \in BOOLEAN
    BY DEF DesiredForPod, VInv
  <2> QED BY <2>1, WantFacts
<1>3. ASSUME NEW k \in DesiredForPod, NEW m \in {Want(k), HalfMade(Want(k), "sync")}
      PROVE  m \in Memif /\ m.socket = Want(k).socket
  BY <1>2, <1>3, HalfFacts
<1>4. vpp' \subseteq Memif /\ volume' \in BOOLEAN
  BY <1>3 DEF VInv
<1>5. ASSUME NEW a \in Att PROVE OwnSocket(a)'
  <2>1. OwnSocket(a)
    BY DEF VInv
  <2>2. ASSUME Restorable(a), NEW k \in DesiredForPod,
               NEW m \in {Want(k), HalfMade(Want(k), "sync")}, m.socket[2] = a
        PROVE  m \in {AddedMemif(a), HalfMade(AddedMemif(a), "sync")}
    <3>1. api.entries[k].att = a
      BY <1>2, <1>3, <2>2
    <3>2. Identified(a) /\ OneMode(nets[a[2]].host) /\ nets[a[2]].host.role # "slave"
      BY <2>2 DEF Restorable
    <3>3. Want(k) = AddedMemif(a)
      BY <1>2, <3>1, <3>2
    <3> QED BY <2>2, <3>3
  <2>3. ASSUME Restorable(a), NEW m \in vpp', m.socket[2] = a
        PROVE  \/ m \in {AddedMemif(a), HalfMade(AddedMemif(a), "sync")}
               \/ m = HalfMade(AddedMemif(a), "add") /\ pc[a] = "addFailed"
    <3>1. CASE m \in vpp
      BY <2>1, <2>3, <3>1 DEF OwnSocket
    <3>2. CASE m \notin vpp
      BY <2>2, <2>3, <3>2
    <3> QED BY <3>1, <3>2
  <2>4. HalfMade(AddedMemif(a), "add")' = HalfMade(AddedMemif(a), "add")
        /\ HalfMade(AddedMemif(a), "sync")' = HalfMade(AddedMemif(a), "sync")
    BY <1>1 DEF HalfMade
  <2> QED BY <1>1, <2>3, <2>4 DEF OwnSocket
<1>6. ASSUME AllTold, NEW m \in vpp' PROVE MadeByAdd(m)'
  <2>1. \E b \in Att : Made(b) /\ m \in MadeOf(b)
    <3>1. CASE m \in vpp
      BY <1>6, <3>1 DEF VInv, MadeByAdd
    <3>2. ASSUME NEW k \in DesiredForPod, m \in {Want(k), HalfMade(Want(k), "sync")}
          PROVE  \E b \in Att : Made(b) /\ m \in MadeOf(b)
      <4> DEFINE b == api.entries[k].att
      <4>1. b \in Att /\ Want(k) = AddedMemif(b)
        BY <1>2, <1>6 DEF AllTold
      <4>2. k \in 1..Len(api.entries)
        BY DEF DesiredForPod
      <4>3. Made(b)
        BY <4>2 DEF DInv, EntryOK, Made
      <4>4. m \in MadeOf(b)
        BY <3>2, <4>1 DEF MadeOf
      <4> QED BY <4>1, <4>3, <4>4
    <3> QED BY <1>6, <3>1, <3>2
  <2>2. PICK b \in Att : Made(b) /\ m \in MadeOf(b)
    BY <2>1
  <2>3. Made(b)' /\ m \in MadeOf(b)' /\ b \in Att'
    BY <1>1, <2>2 DEF Made
  <2> QED BY <2>3 DEF MadeByAdd
<1> QED BY <1>1, <1>4, <1>5, <1>6 DEF VInv

\* Sync puts in what ADD made, and leaves nothing out unless it ends with an error.
LEMMA SyncKeeps ==
  ASSUME AInv, DInv, VInv, Sync
  PROVE  VInv'
<1> DEFINE missing  == {k \in DesiredForPod :
                          \A v \in vpp : v.role = "master" => v.socket # Want(k).socket}
           clash(k) == \/ \E v \in vpp : v.socket = Want(k).socket
                       \/ \E j \in missing : j < k /\ Want(j).socket = Want(k).socket
           created  == {k \in missing : \A j \in missing : j <= k => ~clash(j)}
           half     == \E k \in created : \E left \in {{}, {HalfMade(Want(k), "sync")}} :
                         vpp' = vpp \union {Want(j) : j \in {i \in created : i < k}} \union left
<1>1. /\ nets' = nets /\ volume' = volume /\ api' = api /\ pc' = pc /\ again' = again
      /\ \/ vpp' = vpp \union {Want(k) : k \in created} /\ synced' = (created = missing)
         \/ half /\ synced' = FALSE
  BY DEF Sync
<1>2. created \subseteq missing /\ missing \subseteq DesiredForPod
  OBVIOUS
<1>3. \A k \in DesiredForPod : k \notin missing =>
        \E v \in vpp : v.role = "master" /\ v.socket = Want(k).socket
  OBVIOUS
<1> HIDE DEF missing, created
<1>4. CASE vpp' = vpp \union {Want(k) : k \in created} /\ synced' = (created = missing)
  <2>1. ASSUME NEW a \in Att PROVE Restored(a)'
    <3>1. AddedMemif(a)' = AddedMemif(a) /\ Restorable(a)' = Restorable(a)
      BY <1>1, MemifsFixed
    <3> SUFFICES ASSUME created = missing, api.live, volume, pc[a] = "added", Restorable(a)
                 PROVE  AddedMemif(a) \in vpp' \/ HalfMade(AddedMemif(a), "sync") \in vpp'
      BY <1>1, <1>4, <3>1 DEF Restored, HalfMade
    <3>2. PICK k \in DesiredForPod : Want(k) = AddedMemif(a)
      BY WantsAdded
    <3>3. CASE k \in missing
      BY <1>4, <3>2, <3>3
    <3>4. CASE k \notin missing
      <4>1. PICK v \in vpp : v.socket = AddedMemif(a).socket
        BY <1>3, <3>2, <3>4
      <4>2. AddedMemif(a).socket = Socket(a) /\ Socket(a)[2] = a
        <5>1. AddedMemif(a).socket = Socket(a)
          BY DEF AddedMemif
        <5>2. nets[a[2]].host.sock = ""
          BY DEF Restorable
        <5> QED BY <5>1, <5>2 DEF Socket
      <4>3. v \in {AddedMemif(a), HalfMade(AddedMemif(a), "sync")}
        BY <4>1, <4>2 DEF VInv, OwnSocket
      <4> QED BY <1>4, <4>1, <4>3
    <3> QED BY <3>3, <3>4
  <2>2. \A m \in vpp' : m \in vpp \/ \E k \in DesiredForPod : m \in {Want(k), HalfMade(Want(k), "sync")}
    BY <1>2, <1>4
  <2> QED BY <1>1, <1>4, <2>1, <2>2, SyncPuts
<1>5. CASE half /\ synced' = FALSE
  <2>1. PICK k \in created : \E left \in {{}, {HalfMade(Want(k), "sync")}} :
          vpp' = vpp \union {Want(j) : j \in {i \in created : i < k}} \union left
    BY <1>5
  <2>2. \A m \in vpp' : m \in vpp \/ \E j \in DesiredForPod : m \in {Want(j), HalfMade(Want(j), "sync")}
    BY <1>2, <2>1
  <2>3. vpp \subseteq vpp'
    BY <2>1
  <2>4. \A a \in Att : Restored(a)'
    BY <1>5 DEF Restored
  <2> HIDE DEF half
  <2> QED BY <1>1, <1>5, <2>2, <2>3, <2>4, SyncPuts
<1> QED BY <1>1, <1>4, <1>5

\* DEL takes everything from its attachment's own socket.
LEMMA DelClears ==
  ASSUME AInv, VInv, NEW a \in Att, Del(a), Restorable(a)
  PROVE  \A m \in vpp' : m.socket[2] # a
<1>1. nets[a[2]].host.ifType = "memif" /\ vpp' = {m \in vpp : m.socket # Socket(a)}
  BY DEF Del, Restorable
<1>2. AddedMemif(a) \in Memif /\ AddedMemif(a).socket = Socket(a)
  <2>1. AddedMemif(a) \in Memif
    BY <1>1, AddedFacts DEF VInv
  <2> QED BY <2>1 DEF AddedMemif
<1>3. /\ HalfMade(AddedMemif(a), "add").socket = Socket(a)
      /\ HalfMade(AddedMemif(a), "sync").socket = Socket(a)
  BY <1>2, HalfFacts
<1>4. OwnSocket(a)
  BY DEF VInv
<1>5. ASSUME NEW m \in vpp, m.socket[2] = a PROVE m.socket = Socket(a)
  <2>1. m \in {AddedMemif(a), HalfMade(AddedMemif(a), "sync"), HalfMade(AddedMemif(a), "add")}
    BY <1>4, <1>5 DEF OwnSocket
  <2> QED BY <1>2, <1>3, <2>1
<1> QED BY <1>1, <1>5

\* Every step keeps it.
LEMMA NextVInv ==
  ASSUME AInv, DInv, VInv, Next
  PROVE  VInv'
<1> USE DEF Goto
<1>0. (\A a \in Att : a \in AllAtt) /\ synced \in BOOLEAN
  BY AttType DEF AInv, VInv
<1>1. ASSUME NEW a \in Att, GetPod(a) PROVE VInv'
  <2>1. /\ nets' = nets /\ volume' = volume /\ vpp' = vpp /\ synced' = synced /\ api' = api
        /\ again \subseteq again' /\ pc' = [pc EXCEPT ![a] = "host"]
        /\ \/ pc[a] = "none"
           \/ pc[a] = "deleted" /\ a \in again'
    BY <1>1 DEF GetPod
  <2>2. \A b \in Att : /\ pc[b] \notin {"none", "host"} => pc'[b] \notin {"none", "host"} \/ b \in again'
                       /\ pc[b] = "addFailed" => pc'[b] = "addFailed"
                       /\ pc'[b] = "added" => pc[b] = "added"
    BY <1>0, <2>1 DEF AInv
  <2>3. \A b \in Att : Made(b) => Made(b)'
    BY <2>1, <2>2, MadeStays
  <2> QED BY <1>0, <2>1, <2>2, <2>3, VppStays
<1>2. ASSUME NEW a \in Att, AddOnHost(a) PROVE VInv'
  BY <1>2, AddOnHostKeeps
<1>3. ASSUME NEW a \in Att, WritePodAnnotation(a) PROVE VInv'
  <2>1. /\ nets' = nets /\ volume' = volume /\ vpp' = vpp /\ synced' = FALSE /\ again' = again
        /\ pc[a] = "update" /\ \E label \in {"added", "addFailed"} : pc' = [pc EXCEPT ![a] = label]
    BY <1>3 DEF WritePodAnnotation, Conflict
  <2>2. \A b \in Att : /\ pc[b] \notin {"none", "host"} => pc'[b] \notin {"none", "host"}
                       /\ pc[b] = "addFailed" => pc'[b] = "addFailed"
    BY <1>0, <2>1 DEF AInv
  <2>3. \A b \in Att : Made(b) => Made(b)'
    BY <2>1, <2>2, MadeStays
  <2> QED BY <2>1, <2>2, <2>3, VppStays
<1>4. ASSUME NEW a \in Att, Del(a) PROVE VInv'
  <2>1. /\ nets' = nets /\ volume' = volume /\ vpp' \subseteq vpp /\ synced' = FALSE /\ again' = again
        /\ pc' = [pc EXCEPT ![a] = "deleted"]
    BY <1>4 DEF Del
  <2>2. \A b \in Att : /\ pc[b] \notin {"none", "host"} => pc'[b] \notin {"none", "host"}
                       /\ pc[b] = "addFailed" => pc'[b] = "addFailed" \/ b = a
    BY <1>0, <2>1 DEF AInv
  <2>3. \A b \in Att : Made(b) => Made(b)'
    BY <2>1, <2>2, MadeStays
  <2>4. Restorable(a) => \A m \in vpp' : m.socket[2] # a
    BY <1>4, DelClears
  <2> QED BY <2>1, <2>2, <2>3, <2>4, VppStays
<1>5. CASE OtherWrite \/ PodDeleted
  <2>1. /\ nets' = nets /\ volume' = volume /\ vpp' = vpp /\ synced' = synced /\ pc' = pc
        /\ again' = again
        /\ api' = [api EXCEPT !.rv = @ + 1] \/ api' = [api EXCEPT !.live = FALSE]
    BY <1>5 DEF OtherWrite, PodDeleted
  <2>2. api'.live => api.live
    BY <2>1 DEF AInv, Pod
  <2>3. \A b \in Att : Made(b) => Made(b)'
    BY <2>1, MadeStays
  <2> QED BY <1>0, <2>1, <2>2, <2>3, VppStays
<1>6. CASE VppRestarts \/ SyncSkips
  <2>1. /\ nets' = nets /\ volume' = volume /\ vpp' \subseteq vpp /\ synced' = FALSE /\ pc' = pc
        /\ again' = again
    BY <1>6 DEF VppRestarts, SyncSkips
  <2>2. \A b \in Att : Made(b) => Made(b)'
    BY <2>1, MadeStays
  <2> QED BY <2>1, <2>2, VppStays
<1>7. CASE Sync
  BY <1>7, SyncKeeps
<1> QED BY <1>1, <1>2, <1>3, <1>4, <1>5, <1>6, <1>7 DEF Next

LEMMA VInvHolds == Spec => []VInv
<1>1. Init => VInv
  <2> SUFFICES ASSUME Init PROVE VInv
    OBVIOUS
  <2>1. vpp = {} /\ volume \in BOOLEAN /\ synced = FALSE
    BY DEF Init
  <2> QED BY <2>1 DEF VInv, OwnSocket, Restored
<1>2. AInv /\ DInv /\ VInv /\ [Next]_vars => VInv'
  <2> SUFFICES ASSUME AInv, DInv, VInv, [Next]_vars PROVE VInv'
    OBVIOUS
  <2>1. CASE Next
    BY <2>1, NextVInv
  <2>2. CASE UNCHANGED vars
    <3>1. /\ nets' = nets /\ volume' = volume /\ vpp' = vpp /\ synced' = synced /\ api' = api
          /\ pc' = pc /\ again' = again
      BY <2>2 DEF vars
    <3>2. synced \in BOOLEAN
      BY DEF VInv
    <3>3. \A b \in Att : Made(b) => Made(b)'
      BY <3>1, MadeStays
    <3> QED BY <3>1, <3>2, <3>3, VppStays
  <2> QED BY <2>1, <2>2
<1> QED BY <1>1, <1>2, CopiesStayGood, DInvHolds, PTL DEF Spec

\* The daemon puts nothing into VPP that no ADD of the pod put there, with the same
\* socket, mode and role, in its bridge domain or half made, where the networks can be
\* told apart.
THEOREM OnlyRestores == Spec => []DaemonOnlyRestores
<1>1. VInv => DaemonOnlyRestores
  BY DEF VInv, AllTold, MadeByAdd, DaemonOnlyRestores
<1> QED BY <1>1, VInvHolds, PTL

\* After a Sync that reported no error and did not skip the pod, every interface whose
\* ADD returned success and that the daemon can tell from the others is in VPP as that
\* ADD made it, or as an earlier CreateMaster left it half made.
THEOREM SyncedAsAdded == Spec => []SyncedIsAsAdded
<1>1. VInv => SyncedIsAsAdded
  BY DEF VInv, Restored, Restorable, SyncedIsAsAdded
<1> QED BY <1>1, VInvHolds, PTL

\* The bound of the model on foreign writes holds, and only attachments are added again.
Bounded == others \in 0..MaxOther /\ again \subseteq AllAtt

LEMMA BoundedHolds == Spec => []Bounded
<1>1. MaxOther \in Nat
  BY AnnotationAssumption
<1>2. Init => Bounded
  <2> SUFFICES ASSUME Init PROVE Bounded
    OBVIOUS
  <2>1. others = 0 /\ again = {}
    BY DEF Init
  <2> QED BY <1>1, <2>1 DEF Bounded
<1>3. AInv /\ Bounded /\ [Next]_vars => Bounded'
  <2> SUFFICES ASSUME AInv, Bounded, [Next]_vars PROVE Bounded'
    OBVIOUS
  <2>1. \/ others' = others
        \/ others < MaxOther /\ others' = others + 1
    BY DEF Next, GetPod, AddOnHost, WritePodAnnotation, Del, OtherWrite, PodDeleted, VppRestarts,
           Sync, SyncSkips, vars
  <2>2. again' = again \/ \E a \in Att : again' = again \union {a}
    BY DEF Next, GetPod, AddOnHost, WritePodAnnotation, Del, OtherWrite, PodDeleted, VppRestarts,
           Sync, SyncSkips, vars
  <2>3. others \in 0..MaxOther
    BY DEF Bounded
  <2>4. others' \in 0..MaxOther
    BY <1>1, <2>1, <2>3
  <2>5. again' \subseteq AllAtt
    <3>1. \A a \in Att : a \in AllAtt
      BY AttType DEF AInv
    <3> QED BY <2>2, <3>1 DEF Bounded
  <2> QED BY <2>4, <2>5 DEF Bounded
<1> QED BY <1>2, <1>3, CopiesStayGood, PTL DEF Spec

\* Every variable has its type, and no ADD holds a version that the API server has not
\* reached.
THEOREM AnnotationTypeCorrect == Spec => []AnnotationTypeOK
<1>1. AInv /\ VInv /\ Bounded => AnnotationTypeOK
  <2> SUFFICES ASSUME AInv, VInv, Bounded PROVE AnnotationTypeOK
    OBVIOUS
  <2>1. \A a \in Att : pc[a] = "update" => copy[a].rv <= api.rv
    BY AttType DEF AInv, CopyOK
  <2> QED BY <2>1 DEF AnnotationTypeOK, AInv, VInv, Bounded, Label
<1> QED BY <1>1, CopiesStayGood, VInvHolds, BoundedHolds, PTL

=============================================================================
