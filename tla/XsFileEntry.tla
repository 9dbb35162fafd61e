---------------------------- MODULE XsFileEntry -----------------------------
(***************************************************************************)
(* One entry of the file cache of xs_fileinfo.h: how xs_fileinfo_get       *)
(* (247-288) keeps it up to date, how its users pin it with                *)
(* xs_fileinfo_lock and xs_fileinfo_unlock while they send its data, and   *)
(* how xs_fileinfo_unloaddata drops the data.  XsFileTable is the part of  *)
(* get that finds the entry.                                               *)
(*                                                                         *)
(* A modification time stands for the content of the file; 0 is that of a  *)
(* file that does not exist (xs_stat clears the record, stat_ret = -1).    *)
(* A mapping made by mmap is a number, 0 is the null pointer.  Its length  *)
(* is 1; munmap with length 0 fails and leaves the mapping in place.       *)
(***************************************************************************)
EXTENDS Integers, Sequences, FiniteSets

CONSTANTS
  Servers,     \* the threads that serve the file
  Starter,     \* the main thread, which loads and unloads it before they start
  Loads,       \* the "load_data" arguments of get
  DeltaSecs,   \* deltasecs, the age at which an entry is checked again
  MaxTime,     \* bound: the clock
  MaxVersion   \* bound: how often the file changes

ASSUME EntryAssumption ==
  /\ IsFiniteSet(Servers) /\ Starter \notin Servers
  /\ Loads \subseteq BOOLEAN
  /\ DeltaSecs \in Nat /\ MaxTime \in Nat /\ MaxVersion \in Nat

Threads == Servers \union {Starter}

VARIABLES
  now,          \* the clock
  disk,         \* the modification time of the file, as stat would say
  version,      \* the last modification time there was
  status, readcount, check_time, modification_time, data, msize,   \* the entry
  maps,         \* history: the version each mmap has mapped
  mapped,       \* the mappings in place
  sizeless,     \* history: the mappings an entry was left with, but not their length
  pc,           \* where each thread is
  ct,           \* local of get: the time it was called
  load,         \* argument of get
  tfi,          \* local of get: the new content of the entry
  olddata,      \* local of get
  locallock,    \* local of unloaddata
  ptr           \* the mapping a thread is sending from

file == <<now, disk, version>>
entry == <<status, readcount, check_time, modification_time, data, msize>>
memory == <<maps, mapped, sizeless>>
locals == <<ct, load, tfi, olddata, locallock, ptr>>
vars == <<now, disk, version, status, readcount, check_time, modification_time, data,
          msize, maps, mapped, sizeless, pc, ct, load, tfi, olddata, locallock, ptr>>

\* What xs_stat leaves in a structure it has cleared.
Blank == [status |-> 0, modification_time |-> 0, data |-> 0, msize |-> 0]

-----------------------------------------------------------------------------
\* The entry as line 228 allocates it: all zero.
Init ==
  /\ now = 0 /\ disk \in {0, 1} /\ version = 1
  /\ status = 0 /\ readcount = 0 /\ check_time = 0 /\ modification_time = 0 /\ data = 0
  /\ msize = 0 /\ maps = <<>> /\ mapped = {} /\ sizeless = {}
  /\ pc = [t \in Threads |-> "idle"]
  /\ ct = [t \in Threads |-> 0]
  /\ load = [t \in Threads |-> FALSE]
  /\ tfi = [t \in Threads |-> Blank]
  /\ olddata = [t \in Threads |-> 0]
  /\ locallock = [t \in Threads |-> 0]
  /\ ptr = [t \in Threads |-> 0]

Goto(t, from, to) == pc[t] = from /\ pc' = [pc EXCEPT ![t] = to]

\* The world: time passes, the file is written or removed.
Tick ==
  /\ now < MaxTime
  /\ now' = now + 1
  /\ UNCHANGED <<disk, version, entry, memory, pc, locals>>

ChangeFile ==
  /\ version < MaxVersion
  /\ version' = version + 1
  /\ disk' \in {0, version + 1}
  /\ UNCHANGED <<now, entry, memory, pc, locals>>

-----------------------------------------------------------------------------
(***************************************************************************)
(* xs_fileinfo_get: is the entry due for a check?                          *)
(***************************************************************************)
Due(t) == ct[t] - check_time > DeltaSecs

GetCall(t, l) ==
  /\ t \in Servers => pc[Starter] = "ended"
  /\ Goto(t, "idle", "time")
  /\ ct' = [ct EXCEPT ![t] = now]
  /\ load' = [load EXCEPT ![t] = l]
  /\ UNCHANGED <<file, entry, memory, tfi, olddata, locallock, ptr>>

CheckTime(t) ==
  /\ Goto(t, "time", IF Due(t) THEN "status" ELSE "take")
  /\ UNCHANGED <<file, entry, memory, locals>>

CheckStatus(t) ==
  /\ Goto(t, "status", IF status = 10 THEN "expire" ELSE "take")
  /\ UNCHANGED <<file, entry, memory, locals>>

SetStatus(s) ==
  status' = s /\ UNCHANGED <<readcount, check_time, modification_time, data, msize>>

\* The spin on the swap from 10 to 3.
Expire(t) ==
  /\ status = 10
  /\ Goto(t, "expire", "recheck")
  /\ SetStatus(3)
  /\ UNCHANGED <<file, memory, locals>>

Recheck(t) ==
  /\ Goto(t, "recheck", IF Due(t) THEN "reset" ELSE "restore")
  /\ UNCHANGED <<file, entry, memory, locals>>

ResetTest(t) ==
  /\ Goto(t, "reset", IF status = 3 THEN "zero" ELSE "take")
  /\ UNCHANGED <<file, entry, memory, locals>>

Reset(t) ==
  /\ Goto(t, "zero", "take")
  /\ SetStatus(0)
  /\ UNCHANGED <<file, memory, locals>>

Restore(t) ==
  /\ Goto(t, "restore", "take")
  /\ SetStatus(10)
  /\ UNCHANGED <<file, memory, locals>>

-----------------------------------------------------------------------------
(***************************************************************************)
(* xs_fileinfo_get: whoever swaps the status from 0 to 1 refreshes the     *)
(* entry, the others wait.                                                 *)
(***************************************************************************)
TakeUnchecked(t) ==
  /\ Goto(t, "take", "stat")
  /\ SetStatus(1)
  /\ UNCHANGED <<file, memory, locals>>

Take(t) ==
  \/ /\ status = 0
     /\ TakeUnchecked(t)
  \/ /\ status # 0
     /\ Goto(t, "take", "await")
     /\ UNCHANGED <<file, entry, memory, locals>>

Await(t) ==
  /\ status >= 10
  /\ Goto(t, "await", "got")
  /\ ct' = [ct EXCEPT ![t] = 0]
  /\ UNCHANGED <<file, entry, memory, load, tfi, olddata, locallock, ptr>>

Stat(t) ==
  /\ Goto(t, "stat", "choose")
  /\ tfi' = [tfi EXCEPT ![t].modification_time = disk, ![t].status = status]
  /\ UNCHANGED <<file, entry, memory, ct, load, olddata, locallock, ptr>>

\* Without load_data, or when the file is as it was, the mapping is kept; tfi
\* has no length for it.
Keep(t) ==
  /\ ~load[t] \/ tfi[t].modification_time = modification_time
  /\ Goto(t, "choose", "drain")
  /\ tfi' = [tfi EXCEPT ![t].data = data]
  /\ sizeless' = sizeless \union ({data} \ {0})
  /\ UNCHANGED <<file, entry, maps, mapped, ct, load, olddata, locallock, ptr>>

\* munmap(data, msize).
Munmap(d, size) == mapped' = IF size = 0 THEN mapped ELSE mapped \ {d}

\* The old mapping goes before anybody has waited for readcount.
UnmapKept(t) ==
  /\ load[t] /\ tfi[t].modification_time # modification_time
  /\ Goto(t, "choose", "map")
  /\ Munmap(data, msize)
  /\ UNCHANGED <<file, entry, maps, sizeless, locals>>

Unmap(t) ==
  /\ load[t] /\ tfi[t].modification_time # modification_time
  /\ Goto(t, "choose", "map")
  /\ Munmap(data, msize)
  /\ data' = 0
  /\ UNCHANGED <<file, status, readcount, check_time, modification_time, msize, maps, sizeless,
                 locals>>

\* loaddata(&tfi, path) maps the file as it now is; or there is none, it is
\* too large or a directory, or mmap fails.
Map(t) ==
  /\ Goto(t, "map", "drain")
  /\ olddata' = [olddata EXCEPT ![t] = data]
  /\ \/ UNCHANGED <<tfi, maps, mapped>>
     \/ /\ tfi[t].modification_time # 0 /\ disk # 0
        /\ tfi' = [tfi EXCEPT ![t].data = Len(maps) + 1, ![t].msize = 1]
        /\ maps' = Append(maps, disk)
        /\ mapped' = mapped \union {Len(maps) + 1}
  /\ UNCHANGED <<file, entry, sizeless, ct, load, locallock, ptr>>

DrainBlind(t) ==
  /\ Goto(t, "drain", "copy")
  /\ UNCHANGED <<file, entry, memory, locals>>

Drain(t) == readcount = 0 /\ DrainBlind(t)

\* The structure assignment: it takes readcount along, which is 0 in tfi.
Copy(t) ==
  /\ Goto(t, "copy", "publish")
  /\ readcount' = 0
  /\ check_time' = ct[t]
  /\ modification_time' = tfi[t].modification_time
  /\ data' = tfi[t].data
  /\ msize' = tfi[t].msize
  /\ status' = tfi[t].status
  /\ UNCHANGED <<file, memory, locals>>

PublishForgotten(t) ==
  /\ Goto(t, "publish", "free")
  /\ UNCHANGED <<file, entry, memory, locals>>

Publish(t) ==
  /\ Goto(t, "publish", "free")
  /\ SetStatus(10)
  /\ UNCHANGED <<file, memory, locals>>

\* The locals of get are dead then: they go back to their initial values.
Free(t) ==
  /\ Goto(t, "free", "got")
  /\ mapped' = mapped \ {olddata[t]}
  /\ tfi' = [tfi EXCEPT ![t] = Blank]
  /\ olddata' = [olddata EXCEPT ![t] = 0]
  /\ ct' = [ct EXCEPT ![t] = 0]
  /\ UNCHANGED <<file, entry, maps, sizeless, load, locallock, ptr>>

\* The caller only wanted to know about the file (a directory listing, a
\* file that does not exist or is not modified).
GotInfo(t) ==
  /\ Goto(t, "got", IF t = Starter THEN "ended" ELSE "idle")
  /\ UNCHANGED <<file, entry, memory, locals>>

-----------------------------------------------------------------------------
(***************************************************************************)
(* xs_fileinfo_lock, reading, xs_fileinfo_unlock, as in                    *)
(* xs_http_fileresponse and xs_conn_write_filedata.                        *)
(***************************************************************************)
Settled == readcount # 0 \/ status = 10

LockWait(t) ==
  /\ load[t] /\ modification_time # 0
  /\ Settled
  /\ Goto(t, "got", "count")
  /\ UNCHANGED <<file, entry, memory, locals>>

AddReader(n) ==
  readcount' = readcount + n /\ UNCHANGED <<status, check_time, modification_time, data, msize>>

LockCount(t) ==
  /\ Goto(t, "count", "locked")
  /\ AddReader(1)
  /\ UNCHANGED <<file, memory, locals>>

\* Each round of write_filedata's loop loads the pointer and sends from it.
ReadData(t) ==
  /\ Goto(t, "locked", "reading")
  /\ ptr' = [ptr EXCEPT ![t] = data]
  /\ UNCHANGED <<file, entry, memory, ct, load, tfi, olddata, locallock>>

Send(t, next) ==
  /\ Goto(t, "reading", next)
  /\ ptr' = [ptr EXCEPT ![t] = 0]
  /\ UNCHANGED <<file, entry, memory, ct, load, tfi, olddata, locallock>>

ReadMore(t) == Send(t, "locked")

\* Nothing to send (a bad range, a HEAD request), or everything sent.
SkipData(t) ==
  /\ Goto(t, "locked", "unlock")
  /\ UNCHANGED <<file, entry, memory, locals>>

SentAll(t) == Send(t, "unlock")

UnlockWait(t) ==
  /\ Settled
  /\ Goto(t, "unlock", "uncount")
  /\ UNCHANGED <<file, entry, memory, locals>>

UnlockCount(t) ==
  /\ Goto(t, "uncount", IF t = Starter THEN "unload" ELSE "idle")
  /\ AddReader(-1)
  /\ UNCHANGED <<file, memory, locals>>

-----------------------------------------------------------------------------
(***************************************************************************)
(* xs_fileinfo_unloaddata: loaddata with no path.  Its two callers run     *)
(* before the server listens (webxs.c:60, 67).                             *)
(***************************************************************************)
UnloadCall(t) ==
  /\ Goto(t, "unload", "unloadStatus")
  /\ locallock' = [locallock EXCEPT ![t] = status]
  /\ UNCHANGED <<file, entry, memory, ct, load, tfi, olddata, ptr>>

UnloadStatus(t) ==
  /\ Goto(t, "unloadStatus", IF status = 10 THEN "unset" ELSE "unloadTest")
  /\ UNCHANGED <<file, entry, memory, locals>>

\* Line 170 swaps 10 for 0 as long as it finds 10.
UnloadUnset(t) ==
  \/ /\ status = 10
     /\ pc[t] = "unset"
     /\ SetStatus(0)
     /\ UNCHANGED <<file, memory, pc, locals>>
  \/ /\ status # 10
     /\ Goto(t, "unset", "unloadTest")
     /\ locallock' = [locallock EXCEPT ![t] = 0]
     /\ UNCHANGED <<file, entry, memory, ct, load, tfi, olddata, ptr>>

UnloadTest(t) ==
  /\ Goto(t, "unloadTest", IF modification_time = 0 \/ status > 1 THEN "ended" ELSE "unloadClaim")
  /\ UNCHANGED <<file, entry, memory, locals>>

UnloadClaim(t) ==
  /\ status = locallock[t]
  /\ Goto(t, "unloadClaim", "unloadDrop")
  /\ SetStatus(2)
  /\ UNCHANGED <<file, memory, locals>>

UnloadDrop(t) ==
  /\ Goto(t, "unloadDrop", "unloadDone")
  /\ Munmap(data, msize)
  /\ data' = 0
  /\ UNCHANGED <<file, status, readcount, check_time, modification_time, msize, maps, sizeless,
                 locals>>

UnloadDone(t) ==
  /\ Goto(t, "unloadDone", "ended")
  /\ SetStatus(locallock[t])
  /\ UNCHANGED <<file, memory, locals>>

-----------------------------------------------------------------------------
Get(t) ==
  \/ CheckTime(t) \/ CheckStatus(t) \/ Expire(t) \/ Recheck(t) \/ ResetTest(t) \/ Reset(t)
  \/ Restore(t) \/ Take(t) \/ Await(t) \/ Stat(t) \/ Keep(t) \/ Unmap(t) \/ Map(t)
  \/ Drain(t) \/ Copy(t) \/ Publish(t) \/ Free(t)

Use(t) ==
  \/ GotInfo(t) \/ LockWait(t) \/ LockCount(t) \/ ReadData(t) \/ SkipData(t) \/ SentAll(t)
  \/ UnlockWait(t) \/ UnlockCount(t)

Unload(t) ==
  \/ UnloadCall(t) \/ UnloadStatus(t) \/ UnloadUnset(t) \/ UnloadTest(t) \/ UnloadClaim(t)
  \/ UnloadDrop(t) \/ UnloadDone(t)

Next ==
  \/ Tick \/ ChangeFile
  \/ \E t \in Threads :
       Get(t) \/ Use(t) \/ ReadMore(t) \/ Unload(t) \/ \E l \in Loads : GetCall(t, l)

Spec == Init /\ [][Next]_vars

\* Threads inside get, lock, unlock or unloaddata keep being scheduled, and a
\* transfer comes to an end.
Fairness ==
  \A t \in Threads :
    /\ WF_vars(Get(t) \/ Use(t) \/ Unload(t))
    /\ SF_vars(SentAll(t))

(***************************************************************************)
(* Behaviours in which no refresh comes to its structure assignment (283)  *)
(* while a reader is between lock's test (157) and its increment (158).    *)
(***************************************************************************)
PromptLock ==
  (\E s \in Threads : pc[s] = "copy") => \A t \in Threads : pc[t] # "count"

PromptSpec == Init /\ [][Next /\ PromptLock']_vars /\ Fairness

-----------------------------------------------------------------------------
(***************************************************************************)
(* Properties.                                                             *)
(***************************************************************************)
CheckPC == {"recheck", "reset", "zero", "restore"}
RefreshPC == {"stat", "choose", "map", "drain", "copy", "publish"}
HoldPC == {"locked", "reading", "unlock", "uncount"}
OtherPC == {"idle", "time", "status", "expire", "take", "await", "free", "got", "count",
            "unload", "unloadStatus", "unset", "unloadTest", "unloadClaim", "unloadDrop",
            "unloadDone", "ended"}

TypeOK ==
  /\ now \in 0 .. MaxTime /\ version \in Nat /\ disk \in {0, version}
  /\ status \in {0, 1, 2, 3, 10}
  /\ readcount \in Int /\ check_time \in 0 .. MaxTime
  /\ modification_time \in 0 .. version
  /\ data \in 0 .. Len(maps) /\ msize \in {0, 1} /\ sizeless \subseteq 1 .. Len(maps)
  /\ maps \in Seq(1 .. version) /\ mapped \subseteq 1 .. Len(maps)
  /\ pc \in [Threads -> CheckPC \union RefreshPC \union HoldPC \union OtherPC]
  /\ ct \in [Threads -> 0 .. MaxTime] /\ load \in [Threads -> BOOLEAN]
  /\ tfi \in [Threads -> [status : {0, 1, 2}, modification_time : 0 .. version,
                           data : 0 .. Len(maps), msize : {0, 1}]]
  /\ olddata \in [Threads -> 0 .. Len(maps)] /\ ptr \in [Threads -> 0 .. Len(maps)]
  /\ locallock \in [Threads -> {0, 1, 2, 3, 10}]

(***************************************************************************)
(* The status is a lock: one thread at a time checks the age of the entry  *)
(* (3) or refreshes it (1), and nobody else changes it meanwhile.  Every   *)
(* variable has its type.                                                  *)
(***************************************************************************)
StatusIsLock ==
  /\ TypeOK
  /\ Cardinality({t \in Threads : pc[t] \in CheckPC}) = (IF status = 3 THEN 1 ELSE 0)
  /\ Cardinality({t \in Threads : pc[t] \in RefreshPC}) = (IF status = 1 THEN 1 ELSE 0)

(***************************************************************************)
(* The mappings the entry or a refresh under way refers to exist, so none  *)
(* is unmapped twice or left behind in the entry when it is gone; and no   *)
(* other mapping exists, so none is leaked, but for those whose length a   *)
(* refresh has dropped (281: tfi.msize is 0, and 277 cannot unmap it).     *)
(***************************************************************************)
Fresh(t) == IF pc[t] \in {"drain", "copy"} THEN tfi[t].data ELSE 0
Owned == ({data} \union {Fresh(t) : t \in Threads}) \ {0}

MappingsOwned == Owned \subseteq mapped /\ mapped \subseteq Owned \union sizeless

(***************************************************************************)
(* readcount is the number of threads that hold the entry, so a refresh    *)
(* waits for all of them (282).                                            *)
(***************************************************************************)
ReadersCounted == readcount = Cardinality({t \in Threads : pc[t] \in HoldPC})

(***************************************************************************)
(* The data a thread sends under the lock it took for that ("lock it",     *)
(* xs_server.h:392) stays mapped.                                          *)
(***************************************************************************)
LockedDataMapped == \A t \in Threads : pc[t] = "reading" /\ ptr[t] # 0 => ptr[t] \in mapped

(***************************************************************************)
(* While a thread holds the entry, its modification time (the Etag, which  *)
(* stands for the size as well) and its check time do not change under it. *)
(* The data may: LockedDataMapped.                                         *)
(***************************************************************************)
HeldEntryFixed ==
  [][(\E t \in Threads : pc[t] \in HoldPC /\ pc'[t] \in HoldPC)
       => UNCHANGED <<modification_time, check_time>>]_vars

(***************************************************************************)
(* The inductive invariant.  StatusIsLock and MappingsOwned hold under any *)
(* schedule and follow from LockInv; ReadersCounted and HeldEntryFixed     *)
(* need PromptLock, and follow from IInv.                                  *)
(***************************************************************************)
UnloadPC == {"unload", "unloadStatus", "unset", "unloadTest", "unloadClaim", "unloadDrop",
             "unloadDone"}

\* The servers start when the main thread has loaded and unloaded the file.
StarterFirst ==
  /\ pc[Starter] # "ended" => \A s \in Servers : pc[s] = "idle"
  /\ \A s \in Servers : pc[s] \notin UnloadPC \union {"ended"}

\* The new content of the entry, as the refresh under way has it so far.
RefreshOK ==
  \A t \in Threads :
    /\ pc[t] \in {"choose", "map", "drain", "copy"} => tfi[t].status = 1
    /\ pc[t] \notin {"drain", "copy", "publish", "free"} => tfi[t].data = 0 /\ tfi[t].msize = 0
    /\ pc[t] = "map" => data = 0
    /\ pc[t] \in {"drain", "copy"} =>
         /\ data \in {0, tfi[t].data}
         /\ tfi[t].data # 0 /\ tfi[t].msize = 0 => tfi[t].data \in sizeless
    /\ olddata[t] = 0

\* A mapping without its length, and what unloaddata gives back.
SizeKnown == data # 0 /\ msize = 0 => data \in sizeless
UnloadOK == pc[Starter] \in UnloadPC \ {"unload"} => locallock[Starter] \notin {1, 3}

LockInv ==
  StatusIsLock /\ StarterFirst /\ RefreshOK /\ SizeKnown /\ UnloadOK /\ MappingsOwned

\* Who is about to replace the entry has waited for those who hold it.
Drained == (\E s \in Threads : pc[s] = "copy") => \A t \in Threads : pc[t] \notin HoldPC

IInv == LockInv /\ PromptLock /\ ReadersCounted /\ Drained

\* Every get ends (the spins 250, 282 and "wait for it", 286), every unlock too.
GetReturns == \A t \in Threads : pc[t] \notin {"idle", "ended"} ~> pc[t] \in {"idle", "ended"}
=============================================================================
