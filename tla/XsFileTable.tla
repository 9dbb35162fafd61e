---------------------------- MODULE XsFileTable -----------------------------
(***************************************************************************)
(* The table of xs_fileinfo.h that maps a path to its entry, and the       *)
(* reader/writer lock around it: lines 210-245 of xs_fileinfo_get with the *)
(* transitions of xs_fileinfo_global_lockstatus.  What get does next with  *)
(* the entry it found is XsFileEntry.                                      *)
(*                                                                         *)
(* The lock is two counters.  A reader waits for gxs_statwrite = 0 and     *)
(* then counts itself in gxs_statread, in two steps; a reader that has to  *)
(* create the entry becomes the writer by swapping gxs_statwrite from 0 to *)
(* 1, taking itself out of gxs_statread and waiting for 0 there.           *)
(***************************************************************************)
EXTENDS Integers, FiniteSets

CONSTANTS
  Threads,    \* the threads that call xs_fileinfo_get
  Paths,      \* the paths asked for
  MaxFail     \* bound: how often calloc fails

ASSUME TableAssumption == IsFiniteSet(Threads) /\ MaxFail \in Nat

NoPath == "no path"
ASSUME NoPathAssumption == NoPath \notin Paths

VARIABLES
  gxs_statwrite, gxs_statread,
  table,      \* the paths gxs_statptr has an entry for
  pc,         \* where each thread is
  path,       \* the path it asks for
  fails,      \* how often calloc has failed
  aborted     \* the assertion of line 231 has failed

vars == <<gxs_statwrite, gxs_statread, table, pc, path, fails, aborted>>

-----------------------------------------------------------------------------
\* xs_fileinfo_init.
Init ==
  /\ gxs_statwrite = 0 /\ gxs_statread = 0
  /\ table = {}
  /\ pc = [t \in Threads |-> "idle"]
  /\ path = [t \in Threads |-> NoPath]
  /\ fails = 0 /\ aborted = FALSE

Goto(t, from, to) == ~aborted /\ pc[t] = from /\ pc' = [pc EXCEPT ![t] = to]

GetCall(t, p) ==
  /\ Goto(t, "idle", "wait")
  /\ path' = [path EXCEPT ![t] = p]
  /\ UNCHANGED <<gxs_statwrite, gxs_statread, table, fails, aborted>>

-----------------------------------------------------------------------------
(***************************************************************************)
(* global_lockstatus(0,1): wait while there is a writer, then count.       *)
(***************************************************************************)
EnterWait(t) ==
  /\ gxs_statwrite = 0
  /\ Goto(t, "wait", "enter")
  /\ UNCHANGED <<gxs_statwrite, gxs_statread, table, path, fails, aborted>>

EnterCount(t) ==
  /\ Goto(t, "enter", "lookup")
  /\ gxs_statread' = gxs_statread + 1
  /\ UNCHANGED <<gxs_statwrite, table, path, fails, aborted>>

\* kh_get.  A lookup that runs into a kh_put finds what it may.
Writing == \E s \in Threads : pc[s] = "put"

LookupHit(t) ==
  /\ path[t] \in table \/ Writing
  /\ Goto(t, "lookup", "leave")
  /\ UNCHANGED <<gxs_statwrite, gxs_statread, table, path, fails, aborted>>

LookupMiss(t) ==
  /\ path[t] \notin table \/ Writing
  /\ Goto(t, "lookup", "upgrade")
  /\ UNCHANGED <<gxs_statwrite, gxs_statread, table, path, fails, aborted>>

-----------------------------------------------------------------------------
(***************************************************************************)
(* global_lockstatus(1,2): from reader to writer.  Line 132 keeps the      *)
(* increment that the swap has replaced.                                   *)
(***************************************************************************)
UpgradeClaim(t) ==
  /\ gxs_statwrite = 0
  /\ Goto(t, "upgrade", "drop")
  /\ gxs_statwrite' = 1
  /\ UNCHANGED <<gxs_statread, table, path, fails, aborted>>

UpgradeDrop(t) ==
  /\ Goto(t, "drop", "drain")
  /\ gxs_statread' = gxs_statread - 1
  /\ UNCHANGED <<gxs_statwrite, table, path, fails, aborted>>

UpgradeDrainBlind(t) ==
  /\ Goto(t, "drain", "put")
  /\ UNCHANGED <<gxs_statwrite, gxs_statread, table, path, fails, aborted>>

UpgradeDrain(t) ==
  /\ gxs_statread = 0
  /\ Goto(t, "drain", "put")
  /\ UNCHANGED <<gxs_statwrite, gxs_statread, table, path, fails, aborted>>

-----------------------------------------------------------------------------
\* calloc, kh_put and the assertion that the path was not there.
Put(t) ==
  /\ Goto(t, "put", "downgrade")
  /\ table' = table \union {path[t]}
  /\ aborted' = (path[t] \in table)
  /\ UNCHANGED <<gxs_statwrite, gxs_statread, path, fails>>

PutFails(t) ==
  /\ fails < MaxFail
  /\ Goto(t, "put", "giveUp")
  /\ fails' = fails + 1
  /\ UNCHANGED <<gxs_statwrite, gxs_statread, table, path, aborted>>

\* global_lockstatus(2,0), and get answers -108.
GiveUp(t) ==
  /\ Goto(t, "giveUp", "idle")
  /\ gxs_statwrite' = gxs_statwrite - 1
  /\ UNCHANGED <<gxs_statread, table, path, fails, aborted>>

\* global_lockstatus(2,1), in two steps.
Downgrade(t) ==
  /\ Goto(t, "downgrade", "recount")
  /\ gxs_statwrite' = gxs_statwrite - 1
  /\ UNCHANGED <<gxs_statread, table, path, fails, aborted>>

Recount(t) ==
  /\ Goto(t, "recount", "leave")
  /\ gxs_statread' = gxs_statread + 1
  /\ UNCHANGED <<gxs_statwrite, table, path, fails, aborted>>

LeaveUncounted(t) ==
  /\ Goto(t, "leave", "idle")
  /\ UNCHANGED <<gxs_statwrite, gxs_statread, table, path, fails, aborted>>

\* global_lockstatus(1,0): the entry is found, the table is let go.
Leave(t) ==
  /\ Goto(t, "leave", "idle")
  /\ gxs_statread' = gxs_statread - 1
  /\ UNCHANGED <<gxs_statwrite, table, path, fails, aborted>>

-----------------------------------------------------------------------------
Step(t) ==
  \/ EnterWait(t) \/ EnterCount(t) \/ LookupHit(t) \/ LookupMiss(t)
  \/ UpgradeClaim(t) \/ UpgradeDrop(t) \/ UpgradeDrain(t)
  \/ Put(t) \/ PutFails(t) \/ GiveUp(t) \/ Downgrade(t) \/ Recount(t) \/ Leave(t)

Next == \E t \in Threads : Step(t) \/ \E p \in Paths : GetCall(t, p)

Spec == Init /\ [][Next]_vars

\* Every thread inside get keeps being scheduled; the spins poll.
Fairness == \A t \in Threads : WF_vars(Step(t))

(***************************************************************************)
(* Behaviours in which no writer comes in between a reader's test of       *)
(* gxs_statwrite (147) and its increment of gxs_statread (150).            *)
(***************************************************************************)
PromptEntry == gxs_statwrite # 0 => \A t \in Threads : pc[t] # "enter"

PromptSpec == Init /\ [][Next /\ PromptEntry']_vars /\ Fairness

-----------------------------------------------------------------------------
(***************************************************************************)
(* Properties.                                                             *)
(***************************************************************************)
CallPC == {"wait", "enter", "lookup", "upgrade", "drop", "drain", "put", "giveUp",
           "downgrade", "recount", "leave"}

\* Where a thread is counted in gxs_statread, and where in gxs_statwrite.
ReadPC == {"lookup", "upgrade", "drop", "leave"}
WritePC == {"drop", "drain", "put", "giveUp", "downgrade"}

Readers == {t \in Threads : pc[t] \in ReadPC}
Writers == {t \in Threads : pc[t] \in WritePC}

TypeOK ==
  /\ gxs_statwrite \in {0, 1}
  /\ gxs_statread \in Nat
  /\ table \subseteq Paths
  /\ pc \in [Threads -> {"idle"} \union CallPC]
  /\ path \in [Threads -> Paths \union {NoPath}]
  /\ \A t \in Threads : pc[t] # "idle" => path[t] \in Paths
  /\ fails \in Nat /\ aborted \in BOOLEAN

(***************************************************************************)
(* The two counters say who holds the lock, however the transitions of     *)
(* global_lockstatus (129-154) interleave; so there is one writer at most. *)
(***************************************************************************)
CountersOK ==
  /\ gxs_statread = Cardinality(Readers)
  /\ gxs_statwrite = Cardinality(Writers)

(***************************************************************************)
(* No thread looks the table up (221) while another one changes it (229).  *)
(***************************************************************************)
NoTableRace == Writing => \A t \in Threads : pc[t] # "lookup"

\* "result should >0 always (e.g. it does not exist)", asserted in line 231.
InsertIsNew == ~aborted

(***************************************************************************)
(* Every call of get is done with the table some time, as long as no two   *)
(* threads are about to create an entry: the second one to leave the       *)
(* readers (133) would have to wait for the first one to stop writing, and *)
(* the first one waits for the second to stop reading (134), for ever.     *)
(***************************************************************************)
OneCreator == Cardinality({t \in Threads : pc[t] \in {"upgrade", "drop", "drain", "put"}}) <= 1

GetReturns == []OneCreator => \A t \in Threads : pc[t] # "idle" ~> pc[t] = "idle"

-----------------------------------------------------------------------------
(***************************************************************************)
(* The inductive invariant of PromptSpec.  A writer that has seen          *)
(* gxs_statread at 0 has the table for itself: nobody looks it up or is    *)
(* about to create an entry, so a path found missing is missing until its  *)
(* entry is put.  (A thread that is done with the table may still count.)  *)
(***************************************************************************)
Exclusive ==
  \A s \in Threads : pc[s] \in {"put", "giveUp", "downgrade"} =>
    \A t \in Threads : pc[t] \notin {"enter", "lookup", "upgrade"}

StillMissing ==
  \A t \in Threads : pc[t] \in {"upgrade", "drop", "drain", "put"} => path[t] \notin table

IInv == TypeOK /\ CountersOK /\ PromptEntry /\ Exclusive /\ StillMissing /\ InsertIsNew
=============================================================================
