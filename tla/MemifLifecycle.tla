--------------------------- MODULE MemifLifecycle ---------------------------
(***************************************************************************)
(* What CNI ADD and CNI DEL promise about the memif of an attachment,      *)
(* without the requests that bring it about: a memif is absent, bare       *)
(* (created) or wired (up and in its network), its socket file is there or *)
(* not, and only the invocation for an attachment changes them, in this    *)
(* order:                                                                  *)
(*                                                                         *)
(*   none -> adding -> created -> configured -> added                      *)
(*        -> deleting -> removed -> cleaned -> deleted                     *)
(*                                                                         *)
(* with addFailed and delFailed as the ways out, and back from deleted to  *)
(* adding.  CniVpp implements this module (the instance Lifecycle there),  *)
(* and RestoreDaemon puts the daemon beside it.                            *)
(***************************************************************************)
EXTENDS Integers, FiniteSets

CONSTANTS
  Att,     \* attachments
  Listen   \* those whose host end listens, so that VPP makes the socket file

ASSUME LifecycleAssumption == Listen \subseteq Att

VARIABLES
  vppUp,   \* VPP runs
  st,      \* where CNI is with an attachment
  mem,     \* its memif in VPP
  file,    \* the attachments whose socket file exists
  fresh,   \* VPP has not crashed since the invocation began
  blind    \* some invocation did not get the pod, and worked elsewhere

lifeVars == <<vppUp, st, mem, file, fresh, blind>>

Adding   == {"adding", "created", "configured"}
Deleting == {"deleting", "removed", "cleaned"}
Stage    == {"none", "added", "addFailed", "deleted", "delFailed"}
              \union Adding \union Deleting

LifeTypeOK ==
  /\ vppUp \in BOOLEAN
  /\ st \in [Att -> Stage]
  /\ mem \in [Att -> {"absent", "bare", "wired"}]
  /\ file \subseteq Att
  /\ fresh \in [Att -> BOOLEAN]
  /\ blind \in BOOLEAN

LifeInit ==
  /\ vppUp = TRUE
  /\ st = [a \in Att |-> "none"]
  /\ mem = [a \in Att |-> "absent"]
  /\ file = {}
  /\ fresh = [a \in Att |-> FALSE]
  /\ blind = FALSE

To(a, stage) == st' = [st EXCEPT ![a] = stage]

Mem(a, m) == mem' = [mem EXCEPT ![a] = m]

-----------------------------------------------------------------------------
AddBegin(a) ==
  /\ st[a] \in {"none", "deleted"}
  /\ (vppUp /\ To(a, "adding")) \/ To(a, "addFailed")
  /\ fresh' = [fresh EXCEPT ![a] = vppUp]
  /\ UNCHANGED blind \/ blind' = TRUE
  /\ UNCHANGED <<vppUp, mem, file>>

AddCreate(a) ==
  /\ st[a] = "adding" /\ fresh[a] /\ (mem[a] = "absent" \/ blind)
  /\ To(a, "created") \/ To(a, "addFailed")
  /\ Mem(a, IF mem[a] = "absent" THEN "bare" ELSE mem[a])
  /\ file' = IF a \in Listen THEN file \union {a} ELSE file
  /\ UNCHANGED <<vppUp, fresh, blind>>

AddWire(a) ==
  /\ st[a] = "created" /\ fresh[a] /\ mem[a] = "bare"
  /\ To(a, "created") \/ To(a, "configured") \/ To(a, "addFailed")
  /\ Mem(a, "wired")
  /\ UNCHANGED <<vppUp, file, fresh, blind>>

AddConfigured(a) ==
  /\ st[a] = "created" /\ (mem[a] = "wired" \/ ~fresh[a])
  /\ To(a, "configured")
  /\ UNCHANGED <<vppUp, mem, file, fresh, blind>>

AddDone(a) ==
  /\ st[a] = "configured"
  /\ To(a, "added")
  /\ UNCHANGED <<vppUp, mem, file, fresh, blind>>

AddFail(a) ==
  /\ st[a] \in Adding \union {"none"}
  /\ To(a, "addFailed")
  /\ UNCHANGED <<vppUp, mem, file, fresh, blind>>

-----------------------------------------------------------------------------
DelBegin(a) ==
  /\ st[a] \in {"added", "addFailed", "deleted", "delFailed"}
  /\ (vppUp /\ To(a, "deleting")) \/ To(a, "delFailed")
  /\ fresh' = [fresh EXCEPT ![a] = vppUp]
  /\ UNCHANGED blind \/ blind' = TRUE
  /\ UNCHANGED <<vppUp, mem, file>>

DelUnwire(a) ==
  /\ st[a] = "deleting" /\ fresh[a] /\ mem[a] = "wired"
  /\ Mem(a, "bare")
  /\ UNCHANGED <<vppUp, st, file, fresh, blind>>

\* The memif is deleted, or it was found to be gone.
DelRemove(a) ==
  /\ st[a] = "deleting" /\ fresh[a]
  /\ To(a, "removed") \/ To(a, "deleting")
  /\ Mem(a, "absent")
  /\ UNCHANGED <<vppUp, file, fresh, blind>>

\* Looking for it on another path, DEL does not find it.
DelMiss(a) ==
  /\ st[a] = "deleting" /\ fresh[a] /\ blind
  /\ To(a, "removed")
  /\ UNCHANGED <<vppUp, mem, file, fresh, blind>>

DelClean(a) ==
  /\ st[a] = "removed"
  /\ To(a, "cleaned")
  /\ \/ file' = file \ {a}
     \/ blind /\ UNCHANGED file
  /\ UNCHANGED <<vppUp, mem, fresh, blind>>

DelDone(a) ==
  /\ st[a] = "cleaned"
  /\ To(a, "deleted")
  /\ UNCHANGED <<vppUp, mem, file, fresh, blind>>

\* A deletion that failed still removes the socket file, one that was killed
\* does not.
DelFail(a) ==
  /\ st[a] \in Deleting
  /\ To(a, "delFailed")
  /\ file' \in {file, file \ {a}}
  /\ UNCHANGED <<vppUp, mem, fresh, blind>>

-----------------------------------------------------------------------------
Crash ==
  /\ vppUp
  /\ vppUp' = FALSE
  /\ mem' = [a \in Att |-> "absent"]
  /\ fresh' = [a \in Att |-> FALSE]
  /\ UNCHANGED <<st, file, blind>>

Restart ==
  /\ ~vppUp
  /\ vppUp' = TRUE
  /\ UNCHANGED <<st, mem, file, fresh, blind>>

Cni(a) ==
  \/ AddBegin(a) \/ AddCreate(a) \/ AddWire(a) \/ AddConfigured(a)
  \/ AddDone(a) \/ AddFail(a)
  \/ DelBegin(a) \/ DelUnwire(a) \/ DelRemove(a) \/ DelMiss(a)
  \/ DelClean(a) \/ DelDone(a) \/ DelFail(a)

LifeNext == (\E a \in Att : Cni(a)) \/ Crash \/ Restart

LifeSpec == LifeInit /\ [][LifeNext]_lifeVars

(***************************************************************************)
(* The promise: while VPP lives, a successful ADD leaves a wired memif and *)
(* the file its peer connects to; a successful DEL leaves neither, unless  *)
(* an invocation was blind.                                                *)
(***************************************************************************)
LifePromise ==
  \A a \in Att :
    /\ st[a] = "added" /\ fresh[a] =>
         mem[a] = "wired" /\ (a \in Listen => a \in file)
    /\ st[a] = "deleted" /\ ~blind => mem[a] = "absent" /\ a \notin file
=============================================================================
