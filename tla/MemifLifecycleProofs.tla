------------------------ MODULE MemifLifecycleProofs ------------------------
(***************************************************************************)
(* The lifecycle keeps its promise, for any number of attachments.         *)
(***************************************************************************)
EXTENDS MemifLifecycle, TLAPS

(***************************************************************************)
(* What an attachment's stage says of its memif and its file: the promise, *)
(* extended to the stages on the way to "added" and to "deleted".          *)
(***************************************************************************)
StageInv(a) ==
  /\ fresh[a] /\ st[a] \in {"created", "configured", "added"} =>
       mem[a] # "absent" /\ (a \in Listen => a \in file)
  /\ fresh[a] /\ st[a] \in {"configured", "added"} => mem[a] = "wired"
  /\ ~blind /\ st[a] \in {"removed", "cleaned", "deleted"} => mem[a] = "absent"
  /\ ~blind /\ st[a] \in {"cleaned", "deleted"} => a \notin file

LifeInv == LifeTypeOK /\ \A a \in Att : StageInv(a)

\* A step for one attachment leaves the stage, memif and file of others alone.
Apart(a) ==
  \A b \in Att \ {a} : /\ st'[b] = st[b]
                       /\ mem'[b] = mem[b]
                       /\ b \in file' <=> b \in file
                       /\ fresh'[b] = fresh[b]

LEMMA CniType ==
  ASSUME LifeTypeOK, NEW a \in Att, Cni(a)
  PROVE  LifeTypeOK' /\ Apart(a) /\ (blind => blind')
<1>1. CASE AddBegin(a)
  <2>1. blind' \in BOOLEAN /\ (blind => blind')
    <3>1. CASE blind' = TRUE
      BY <3>1
    <3>2. CASE UNCHANGED blind
      BY <3>2 DEF LifeTypeOK
    <3> QED
      BY <1>1, <3>1, <3>2 DEF AddBegin
  <2>2. st' \in [Att -> Stage] /\ fresh' \in [Att -> BOOLEAN] /\ Apart(a)
    BY <1>1 DEF AddBegin, LifeTypeOK, Apart, To, Stage, Adding
  <2> QED
    BY <1>1, <2>1, <2>2 DEF AddBegin, LifeTypeOK
<1>2. CASE AddCreate(a)
  BY <1>2, LifecycleAssumption DEF AddCreate, LifeTypeOK, Apart, To, Mem, Stage,
    Adding
<1>3. CASE AddWire(a)
  BY <1>3 DEF AddWire, LifeTypeOK, Apart, To, Mem, Stage, Adding
<1>4. CASE AddConfigured(a) \/ AddDone(a) \/ AddFail(a) \/ DelMiss(a) \/ DelDone(a)
  BY <1>4 DEF AddConfigured, AddDone, AddFail, DelMiss, DelDone, LifeTypeOK,
    Apart, To, Stage, Adding, Deleting
<1>5. CASE DelBegin(a)
  <2>1. blind' \in BOOLEAN /\ (blind => blind')
    <3>1. CASE blind' = TRUE
      BY <3>1
    <3>2. CASE UNCHANGED blind
      BY <3>2 DEF LifeTypeOK
    <3> QED
      BY <1>5, <3>1, <3>2 DEF DelBegin
  <2>2. st' \in [Att -> Stage] /\ fresh' \in [Att -> BOOLEAN] /\ Apart(a)
    BY <1>5 DEF DelBegin, LifeTypeOK, Apart, To, Stage, Deleting
  <2> QED
    BY <1>5, <2>1, <2>2 DEF DelBegin, LifeTypeOK
<1>6. CASE DelUnwire(a) \/ DelRemove(a)
  BY <1>6 DEF DelUnwire, DelRemove, LifeTypeOK, Apart, To, Mem, Stage, Deleting
<1>7. CASE DelClean(a) \/ DelFail(a)
  BY <1>7 DEF DelClean, DelFail, LifeTypeOK, Apart, To, Stage, Deleting
<1> QED
  BY <1>1, <1>2, <1>3, <1>4, <1>5, <1>6, <1>7 DEF Cni

LEMMA CniStage ==
  ASSUME LifeInv, NEW a \in Att, Cni(a)
  PROVE  StageInv(a)'
<1> USE DEF LifeInv, StageInv, LifeTypeOK, To, Mem
<1>1. CASE AddBegin(a) \/ AddFail(a)
  BY <1>1 DEF AddBegin, AddFail
<1>2. CASE AddCreate(a)
  BY <1>2 DEF AddCreate
<1>3. CASE AddWire(a)
  BY <1>3 DEF AddWire
<1>4. CASE AddConfigured(a) \/ AddDone(a)
  BY <1>4 DEF AddConfigured, AddDone
<1>5. CASE DelBegin(a) \/ DelFail(a)
  BY <1>5 DEF DelBegin, DelFail
<1>6. CASE DelUnwire(a) \/ DelRemove(a) \/ DelMiss(a)
  BY <1>6 DEF DelUnwire, DelRemove, DelMiss
<1>7. CASE DelClean(a) \/ DelDone(a)
  BY <1>7 DEF DelClean, DelDone
<1> QED
  BY <1>1, <1>2, <1>3, <1>4, <1>5, <1>6, <1>7 DEF Cni

LEMMA LifeStep ==
  ASSUME LifeInv, [LifeNext]_lifeVars
  PROVE  LifeInv'
<1>1. CASE \E a \in Att : Cni(a)
  <2>1. PICK a \in Att : Cni(a)
    BY <1>1
  <2>2. LifeTypeOK' /\ Apart(a) /\ (blind => blind') /\ StageInv(a)'
    BY <2>1, CniType, CniStage DEF LifeInv
  <2>3. ASSUME NEW b \in Att, b # a PROVE StageInv(b)'
    <3>1. StageInv(b)
      BY DEF LifeInv
    <3>2. st'[b] = st[b] /\ mem'[b] = mem[b] /\ fresh'[b] = fresh[b] /\ (b \in file' <=> b \in file)
      BY <2>2, <2>3 DEF Apart
    <3> QED
      BY <2>2, <3>1, <3>2 DEF StageInv
  <2> QED
    BY <2>2, <2>3 DEF LifeInv
<1>2. CASE Crash
  BY <1>2 DEF Crash, LifeInv, LifeTypeOK, StageInv
<1>3. CASE Restart \/ UNCHANGED lifeVars
  BY <1>3 DEF Restart, lifeVars, LifeInv, LifeTypeOK, StageInv
<1> QED
  BY <1>1, <1>2, <1>3 DEF LifeNext

(***************************************************************************)
(* What CNI ADD and DEL promise follows from the order of their steps      *)
(* alone: success of ADD means a wired memif that listens, as long as VPP  *)
(* lives, and success of DEL means that neither memif nor file is left.    *)
(***************************************************************************)
THEOREM PromiseKept == LifeSpec => []LifePromise
<1>1. LifeInit => LifeInv
  BY LifecycleAssumption DEF LifeInit, LifeInv, LifeTypeOK, StageInv, Stage
<1>2. LifeInv /\ [LifeNext]_lifeVars => LifeInv'
  BY LifeStep
<1>3. LifeInv => LifePromise
  BY DEF LifeInv, StageInv, LifePromise
<1> QED
  BY <1>1, <1>2, <1>3, PTL DEF LifeSpec
=============================================================================
