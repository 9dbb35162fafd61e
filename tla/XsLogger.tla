------------------------------ MODULE XsLogger ------------------------------
(***************************************************************************)
(* The log of xs_logger.h: threads append lines to one growing buffer, a   *)
(* flush hands the whole buffer to the writer thread and goes on with a    *)
(* recycled one, the flush thread flushes about once a second, and the     *)
(* handlers of xs_startup.h flush before the process ends.                 *)
(*                                                                         *)
(* A push to q asks for a thread while none of q's threads has begun, and  *)
(* does not count those it asked for (xs_queue.h:244-246): q may get more  *)
(* than one writer.  A flush holds the mutex, so q has one pusher and qdel *)
(* one popper at a time; several writers make several poppers of q and     *)
(* pushers of qdel, and both queues are the FIFOs that XsQueue shows them  *)
(* to be without a lap.  That a sleeping writer wakes up is the business   *)
(* of XsWorkers.  A line is its number in the order in which room was      *)
(* reserved for it, and takes one unit of space; buffers live in numbered  *)
(* chunks of memory.  Allocation does not fail, and the file is always     *)
(* opened.                                                                 *)
(***************************************************************************)
EXTENDS Integers, Sequences, FiniteSets

CONSTANTS
  Appenders,    \* the threads that log
  Exiters,      \* those in which a handler logs its line, flushes and exits
  FlushCount,   \* how many lines make an append flush first (1000000 bytes)
  MaxLines,     \* bound: no more lines are logged
  Spare,        \* bound: the threads q may get besides its first.  While none has
                \* begun, q keeps a buffer for each: space - 1 are enough
  Scenarios     \* how many buffers wait in q, and in qdel (1023), who logs how many
                \* lines, and whether the log is destroyed

ASSUME LogAssumption ==
  /\ IsFiniteSet(Appenders) /\ Exiters \subseteq Appenders
  /\ FlushCount \in Nat /\ MaxLines \in Nat /\ IsFiniteSet(Spare)
  /\ Scenarios \subseteq [space : Nat \ {0}, appenders : SUBSET Appenders,
                         lines : 0 .. MaxLines, destroyed : BOOLEAN]

Flusher == "flusher"
Writer == "writer"
Owner == "owner"
Nobody == "nobody"
ASSUME ThreadAssumption ==
  /\ {Flusher, Writer, Owner, Nobody} \intersect (Appenders \union Spare) = {}
  /\ Appenders \intersect Spare = {}

\* The threads that call the log, and those q's pushes may create: Writer first.
Callers == Appenders \union {Flusher, Owner}
Writers == {Writer} \union Spare
Threads == Callers \union Writers

VARIABLES
  mutex,      \* the holder of log->mutex
  running,    \* log->running
  memlock,    \* lines reserved and not yet copied
  buffered,   \* log->buffered: chunk, count, space
  scene,      \* the scenario
  q, qdel,    \* the queues of buffers
  chunks,     \* what is in each chunk ever allocated
  live,       \* the chunks not freed
  file,       \* the lines in the log file
  pc, back,   \* where each thread is, and where its flush returns to
  slot,       \* where an appender copies its line to, and the line
  ldata,      \* the buffer a flush, or a writer, holds
  seen,       \* local of the flush thread: count
  lines,      \* history: lines reserved so far
  handed,     \* history: lines pushed to q so far
  stopped,    \* qIsRunning = 0
  exited      \* the process has ended

memory == <<chunks, live>>
queues == <<q, qdel, scene>>
vars == <<mutex, running, memlock, buffered, scene, q, qdel, chunks, live, file, pc, back,
          slot, ldata, seen, lines, handed, stopped, exited>>

None == [chunk |-> 0, count |-> 0, space |-> 0]
Blank == 0
NoSlot == [chunk |-> 0, index |-> 0, line |-> Blank]
QSpace == scene.space

-----------------------------------------------------------------------------
\* xs_log_create.
Init ==
  /\ mutex = Nobody /\ running = 1 /\ memlock = 0
  /\ buffered = None
  /\ scene \in Scenarios /\ q = <<>> /\ qdel = <<>>
  /\ chunks = <<>> /\ live = {} /\ file = <<>>
  /\ pc = [t \in Threads |->
             IF t = Flusher THEN "look" ELSE IF t \in Writers THEN "none" ELSE "idle"]
  /\ back = [t \in Callers |-> "idle"]
  /\ slot = [t \in Appenders |-> NoSlot]
  /\ ldata = [t \in Threads |-> None]
  /\ seen = 0 /\ lines = 0 /\ handed = 0
  /\ stopped = FALSE /\ exited = FALSE

Goto(t, from, to) == ~exited /\ pc[t] = from /\ pc' = [pc EXCEPT ![t] = to]

-----------------------------------------------------------------------------
(***************************************************************************)
(* xs_log_append.                                                          *)
(***************************************************************************)
AppendCall(t) ==
  /\ t \in scene.appenders /\ lines < scene.lines
  /\ running # 0
  /\ Goto(t, "idle", "lock")
  /\ UNCHANGED <<mutex, running, memlock, buffered, queues, memory, file, back, slot, ldata,
                 seen, lines, handed, stopped, exited>>

\* A large buffer: unlock, flush, lock again.
AppendFlush(t) ==
  /\ mutex = Nobody
  /\ buffered.count > FlushCount
  /\ Goto(t, "lock", "flush")
  /\ back' = [back EXCEPT ![t] = "relock"]
  /\ UNCHANGED <<mutex, running, memlock, buffered, queues, memory, file, slot, ldata,
                 seen, lines, handed, stopped, exited>>

CanReserve(t) ==
  /\ mutex = Nobody
  /\ \/ buffered.count <= FlushCount /\ Goto(t, "lock", "copy")
     \/ Goto(t, "relock", "copy")

\* The rest of the critical section, where nobody else looks in.
Reserve(t, buf) ==
  /\ slot' = [slot EXCEPT ![t] = [chunk |-> buf.chunk, index |-> buf.count + 1, line |-> lines + 1]]
  /\ buffered' = [buf EXCEPT !.count = @ + 1]
  /\ memlock' = memlock + 1
  /\ lines' = lines + 1
  /\ UNCHANGED <<mutex, running, queues, file, back, ldata, seen, handed, stopped, exited>>

AppendFits(t) ==
  /\ CanReserve(t)
  /\ buffered.count < buffered.space
  /\ Reserve(t, buffered)
  /\ UNCHANGED memory

\* realloc: a larger chunk with the same content; the old one is gone.
Larger == [buffered EXCEPT !.chunk = Len(chunks) + 1,
                           !.space = IF 2 * @ > @ + 1 THEN 2 * @ ELSE @ + 1]

AppendGrows(t) ==
  /\ CanReserve(t)
  /\ buffered.count >= buffered.space
  /\ Reserve(t, Larger)
  /\ chunks' = Append(chunks, [i \in 1 .. Larger.space |->
                                 IF i <= buffered.space THEN chunks[buffered.chunk][i] ELSE Blank])
  /\ live' = (live \ {buffered.chunk}) \union {Larger.chunk}

\* memcpy, outside the lock.
AppendCopy(t) ==
  /\ Goto(t, "copy", "copied")
  /\ chunks' = [chunks EXCEPT ![slot[t].chunk][slot[t].index] = slot[t].line]
  /\ UNCHANGED <<mutex, running, memlock, buffered, queues, live, file, back, slot, ldata,
                 seen, lines, handed, stopped, exited>>

AppendCopied(t) ==
  /\ Goto(t, "copied", IF t \in Exiters THEN "flush" ELSE "idle")
  /\ memlock' = memlock - 1
  /\ back' = [back EXCEPT ![t] = IF t \in Exiters THEN "exit" ELSE @]
  /\ slot' = [slot EXCEPT ![t] = NoSlot]
  /\ UNCHANGED <<mutex, running, buffered, queues, memory, file, ldata, seen, lines, handed,
                 stopped, exited>>

\* The handler has flushed and ends the process: abort, or return from atexit.
Exit(t) ==
  /\ Goto(t, "exit", "gone")
  /\ exited' = TRUE
  /\ UNCHANGED <<mutex, running, memlock, buffered, queues, memory, file, back, slot, ldata,
                 seen, lines, handed, stopped>>

-----------------------------------------------------------------------------
(***************************************************************************)
(* xs_log_flush, called with needLock = 1 by appenders, flush thread and   *)
(* owner.                                                                  *)
(***************************************************************************)
Return(t, from) == Goto(t, from, back[t]) /\ back' = [back EXCEPT ![t] = "idle"]

FlushTest(t) ==
  /\ \/ running = 0 /\ Return(t, "flush")
     \/ running # 0 /\ Goto(t, "flush", "flushLock") /\ UNCHANGED back
  /\ UNCHANGED <<mutex, running, memlock, buffered, queues, memory, file, slot, ldata,
                 seen, lines, handed, stopped, exited>>

FlushLock(t) ==
  /\ mutex = Nobody
  /\ Goto(t, "flushLock", "spin")
  /\ mutex' = t
  /\ UNCHANGED <<running, memlock, buffered, queues, memory, file, back, slot, ldata, seen,
                 lines, handed, stopped, exited>>

\* Take the buffer whether or not appenders are still copying into it.
TakeBuffer(t) ==
  /\ Goto(t, "spin", IF buffered.count # 0 THEN "push" ELSE "unlock")
  /\ ldata' = [ldata EXCEPT ![t] = buffered]
  /\ UNCHANGED <<mutex, running, memlock, buffered, queues, memory, file, back, slot, seen,
                 lines, handed, stopped, exited>>

FlushSpin(t) == memlock = 0 /\ TakeBuffer(t)

\* The writers counted by qActive, and those of them in xs_log_process.
Begun == {w \in Writers : pc[w] \in {"idle", "write", "save"}}
Working == {w \in Writers : pc[w] \in {"write", "save"}}

\* qCreated stays 0: the test of xs_queue.h:244 is that of qActive = 0.
NeedThread == Begun = {}

New(w) == pc[w] = "none" /\ (w = Writer \/ pc[Writer] # "none")

\* The blocking push waits for room, and may create a thread.
FlushPush(t) ==
  /\ Len(q) < QSpace
  /\ ~exited /\ pc[t] = "push"
  /\ \/ ~NeedThread /\ pc' = [pc EXCEPT ![t] = "recycle"]
     \/ NeedThread /\ \E w \in Writers :
          New(w) /\ pc' = [pc EXCEPT ![t] = "recycle", ![w] = "start"]
  /\ q' = Append(q, ldata[t])
  /\ handed' = handed + ldata[t].count
  /\ UNCHANGED <<mutex, running, memlock, buffered, scene, qdel, memory, file, back, slot,
                 ldata, seen, lines, stopped, exited>>

RecycleKept(t) ==
  /\ Goto(t, "recycle", "unlock")
  /\ buffered' = [buffered EXCEPT !.count = 0]
  /\ UNCHANGED <<mutex, running, memlock, queues, memory, file, back, slot, ldata, seen, lines,
                 handed, stopped, exited>>

\* Go on with a buffer the writer is done with, or with none.
FlushRecycle(t) ==
  /\ Goto(t, "recycle", "unlock")
  /\ IF qdel = <<>>
       THEN buffered' = None /\ UNCHANGED qdel
       ELSE buffered' = [Head(qdel) EXCEPT !.count = 0] /\ qdel' = Tail(qdel)
  /\ UNCHANGED <<mutex, running, memlock, scene, q, memory, file, back, slot, ldata, seen,
                 lines, handed, stopped, exited>>

UnlockForgotten(t) ==
  /\ Return(t, "unlock")
  /\ ldata' = [ldata EXCEPT ![t] = None]
  /\ UNCHANGED <<mutex, running, memlock, buffered, queues, memory, file, slot, seen, lines,
                 handed, stopped, exited>>

FlushUnlock(t) ==
  /\ Return(t, "unlock")
  /\ mutex' = Nobody
  /\ ldata' = [ldata EXCEPT ![t] = None]
  /\ UNCHANGED <<running, memlock, buffered, queues, memory, file, slot, seen, lines,
                 handed, stopped, exited>>

-----------------------------------------------------------------------------
(***************************************************************************)
(* xs_log_flush_threadproc.                                                *)
(***************************************************************************)
Look ==
  /\ Goto(Flusher, "look", "sleep")
  /\ seen' = buffered.count
  /\ UNCHANGED <<mutex, running, memlock, buffered, queues, memory, file, back, slot, ldata,
                 lines, handed, stopped, exited>>

\* Line 198: something was appended during the last second.
WakeFlush ==
  /\ buffered.count # seen /\ running # 0
  /\ Goto(Flusher, "sleep", "flush")
  /\ seen' = 0
  /\ back' = [back EXCEPT ![Flusher] = "again"]
  /\ UNCHANGED <<mutex, running, memlock, buffered, queues, memory, file, slot, ldata,
                 lines, handed, stopped, exited>>

WakeIdle ==
  /\ buffered.count = seen \/ running = 0
  /\ Goto(Flusher, "sleep", "again")
  /\ seen' = 0
  /\ UNCHANGED <<mutex, running, memlock, buffered, queues, memory, file, back, slot, ldata,
                 lines, handed, stopped, exited>>

Again ==
  /\ Goto(Flusher, "again", IF running # 0 THEN "look" ELSE "gone")
  /\ UNCHANGED <<mutex, running, memlock, buffered, queues, memory, file, back, slot, ldata,
                 seen, lines, handed, stopped, exited>>

-----------------------------------------------------------------------------
(***************************************************************************)
(* A writer: a worker of q (xs_queue_exec), and xs_log_process.            *)
(***************************************************************************)
WriterBegin(w) ==
  /\ Goto(w, "start", "idle")
  /\ UNCHANGED <<mutex, running, memlock, buffered, queues, memory, file, back, slot, ldata,
                 seen, lines, handed, stopped, exited>>

WriterTake(w) ==
  /\ ~stopped /\ q # <<>>
  /\ Goto(w, "idle", "write")
  /\ ldata' = [ldata EXCEPT ![w] = Head(q)]
  /\ q' = Tail(q)
  /\ UNCHANGED <<mutex, running, memlock, buffered, scene, qdel, memory, file, back, slot,
                 seen, lines, handed, stopped, exited>>

WriteShort(w) ==
  /\ Goto(w, "write", "save")
  /\ file' = file \o SubSeq(chunks[ldata[w].chunk], 1, ldata[w].count - 1)
  /\ UNCHANGED <<mutex, running, memlock, buffered, queues, memory, back, slot, ldata, seen,
                 lines, handed, stopped, exited>>

\* One write to a file opened with O_APPEND.
WriterWrite(w) ==
  /\ Goto(w, "write", "save")
  /\ file' = file \o SubSeq(chunks[ldata[w].chunk], 1, ldata[w].count)
  /\ UNCHANGED <<mutex, running, memlock, buffered, queues, memory, back, slot, ldata, seen,
                 lines, handed, stopped, exited>>

\* Hand the buffer back while the log runs; free it when qdel is full.
WriterSave(w) ==
  /\ Goto(w, "save", "idle")
  /\ IF running = 0 THEN UNCHANGED <<qdel, live>>
     ELSE IF Len(qdel) < QSpace THEN qdel' = Append(qdel, ldata[w]) /\ UNCHANGED live
     ELSE live' = live \ {ldata[w].chunk} /\ UNCHANGED qdel
  /\ ldata' = [ldata EXCEPT ![w] = None]
  /\ UNCHANGED <<mutex, running, memlock, buffered, scene, q, chunks, file, back, slot, seen,
                 lines, handed, stopped, exited>>

WriterStop(w) ==
  /\ stopped
  /\ Goto(w, "idle", "gone")
  /\ UNCHANGED <<mutex, running, memlock, buffered, queues, memory, file, back, slot, ldata,
                 seen, lines, handed, stopped, exited>>

-----------------------------------------------------------------------------
(***************************************************************************)
(* xs_log_destroy.                                                         *)
(***************************************************************************)
DestroyCall ==
  /\ scene.destroyed
  /\ Goto(Owner, "idle", "flush")
  /\ back' = [back EXCEPT ![Owner] = "swap"]
  /\ UNCHANGED <<mutex, running, memlock, buffered, queues, memory, file, slot, ldata, seen,
                 lines, handed, stopped, exited>>

DestroySwap ==
  /\ Goto(Owner, "swap", "join")
  /\ running' = 0
  /\ UNCHANGED <<mutex, memlock, buffered, queues, memory, file, back, slot, ldata, seen,
                 lines, handed, stopped, exited>>

\* Join the flush thread, pass through the mutex, stop q.
DestroyJoin ==
  /\ pc[Flusher] = "gone" /\ mutex = Nobody
  /\ Goto(Owner, "join", "stopq")
  /\ stopped' = TRUE
  /\ UNCHANGED <<mutex, running, memlock, buffered, queues, memory, file, back, slot, ldata,
                 seen, lines, handed, exited>>

\* qActive is 0: what is in the queues and in the buffer is forgotten.  A
\* thread that has not begun is not waited for.
DestroyFree ==
  /\ Begun = {}
  /\ Goto(Owner, "stopq", "gone")
  /\ buffered' = None /\ q' = <<>> /\ qdel' = <<>>
  /\ mutex' = Nobody /\ memlock' = 0
  /\ UNCHANGED <<running, scene, memory, file, back, slot, ldata, seen, lines, handed, stopped,
                 exited>>

-----------------------------------------------------------------------------
AppendStep(t) ==
  \/ AppendFlush(t) \/ AppendFits(t) \/ AppendGrows(t) \/ AppendCopy(t) \/ AppendCopied(t)
  \/ Exit(t)

Flush(t) ==
  \/ FlushTest(t) \/ FlushLock(t) \/ FlushSpin(t) \/ FlushPush(t) \/ FlushRecycle(t)
  \/ FlushUnlock(t)

FlushThread == Look \/ WakeFlush \/ WakeIdle \/ Again
Process(w) ==
  WriterBegin(w) \/ WriterTake(w) \/ WriterWrite(w) \/ WriterSave(w) \/ WriterStop(w)
Destroy == DestroySwap \/ DestroyJoin \/ DestroyFree

Next ==
  \/ \E t \in Appenders : AppendCall(t) \/ AppendStep(t)
  \/ \E t \in Callers : Flush(t)
  \/ \E w \in Writers : Process(w)
  \/ FlushThread \/ DestroyCall \/ Destroy

Spec == Init /\ [][Next]_vars

\* Every thread that can go on does so in the end.  No thread takes the mutex
\* for ever: every flush follows an append.
Fairness ==
  /\ \A t \in Appenders : WF_vars(AppendStep(t) \/ Flush(t))
  /\ WF_vars(FlushThread \/ Flush(Flusher))
  /\ \A w \in Writers : WF_vars(Process(w))
  /\ WF_vars(Destroy \/ Flush(Owner))

(***************************************************************************)
(* Behaviours in which the buffer is not reallocated while a line is being *)
(* copied into it (223), and in which the log outlives those who use it.   *)
(***************************************************************************)
Growing == Len(chunks') > Len(chunks) /\ buffered.chunk # 0
Copying == memlock # 0 \/ \E t \in Appenders : pc[t] # "idle"

PromptStep == (Growing => memlock = 0) /\ (DestroySwap => ~Copying)

PromptSpec == Init /\ [][Next /\ PromptStep]_vars /\ Fairness

(***************************************************************************)
(* And those in which a thread begins before the next buffer is handed     *)
(* over: q then has no more than one writer.                               *)
(***************************************************************************)
BegunStep == (\E t \in Callers : FlushPush(t)) => \A w \in Writers : pc[w] # "start"

OrderedSpec == Init /\ [][Next /\ PromptStep /\ BegunStep]_vars /\ Fairness

-----------------------------------------------------------------------------
(***************************************************************************)
(* Properties.                                                             *)
(***************************************************************************)
PC == {"idle", "lock", "relock", "copy", "copied", "exit", "gone", "flush", "flushLock", "spin",
       "push", "recycle", "unlock", "look", "sleep", "again", "none", "start", "write", "save",
       "swap", "join", "stopq"}

Buffers == [chunk : 0 .. Len(chunks), count : Nat, space : Nat]

TypeOK ==
  /\ mutex \in Callers \union {Nobody}
  /\ running \in {0, 1} /\ memlock \in Nat
  /\ buffered \in Buffers /\ q \in Seq(Buffers) /\ qdel \in Seq(Buffers)
  /\ chunks \in Seq(Seq(Nat)) /\ live \subseteq 1 .. Len(chunks) /\ file \in Seq(Nat)
  /\ lines \in Nat /\ handed \in Nat /\ seen \in Nat
  /\ pc \in [Threads -> PC]
  /\ back \in [Callers -> {"idle", "relock", "exit", "again", "swap"}]
  /\ slot \in [Appenders -> [chunk : Nat, index : Nat, line : Nat]]
  /\ ldata \in [Threads -> Buffers]
  /\ stopped \in BOOLEAN /\ exited \in BOOLEAN

(***************************************************************************)
(* As long as q has had one writer, the file has the lines in the order in *)
(* which they were logged, whole and without a gap, whatever buffers they  *)
(* went through.  Two writers may write the buffers they take in either    *)
(* order.                                                                  *)
(***************************************************************************)
OneWriter == \A w \in Spare : pc[w] = "none"
FileInOrder == Len(file) <= lines /\ \A i \in 1 .. Len(file) : file[i] = i
LinesInOrder == OneWriter => FileInOrder

(***************************************************************************)
(* Every chunk is in one place at a time: the buffer, q, the hands of one  *)
(* writer or of a flush, or qdel; and none of them is lost or freed twice  *)
(* while the log runs (121-124, 164-171).  Every variable has its type.    *)
(***************************************************************************)
HandedOver == \E t \in Callers : pc[t] = "recycle"
WriterChunks == {ldata[w].chunk : w \in Working}
BufferChunks == IF buffered.chunk # 0 /\ ~HandedOver THEN {buffered.chunk} ELSE {}
QueueChunks(s) == {s[i].chunk : i \in DOMAIN s}
Apart == \A v, w \in Working : ldata[v].chunk = ldata[w].chunk => v = w
EachOnce(s) == \A i, j \in DOMAIN s : s[i].chunk = s[j].chunk => i = j

OneOwner ==
  /\ EachOnce(q) /\ EachOnce(qdel) /\ Apart
  /\ QueueChunks(q) \intersect QueueChunks(qdel) = {}
  /\ WriterChunks \intersect (QueueChunks(q) \union QueueChunks(qdel)) = {}
  /\ BufferChunks \intersect (WriterChunks \union QueueChunks(q) \union QueueChunks(qdel)) = {}
  /\ live = BufferChunks \union WriterChunks \union QueueChunks(q) \union QueueChunks(qdel)

ChunksOwned == TypeOK /\ (running = 1 => OneOwner)

(***************************************************************************)
(* The inductive invariant behind ChunksOwned, and, with one writer,       *)
(* behind LinesInOrder.                                                    *)
(***************************************************************************)
LockPC == {"spin", "push", "recycle", "unlock"}
CopyPC == {"copy", "copied"}
WriterPC == {"none", "start", "idle", "write", "save", "gone"}

\* The mutex, memlock, and the order in which destroy stops everybody.
ControlOK ==
  /\ \A t \in Callers : pc[t] \in LockPC <=> mutex = t
  /\ memlock = Cardinality({t \in Appenders : pc[t] \in CopyPC})
  /\ \A t \in Callers : pc[t] \in {"push", "recycle"} => memlock = 0
  /\ \A w \in Writers : pc[w] \in WriterPC /\ (pc[w] = "gone" => stopped)
  /\ running = 0 => \A t \in Appenders : pc[t] = "idle"
  /\ pc[Owner] \in {"join", "stopq", "gone"} => running = 0
  /\ pc[Owner] \in {"stopq", "gone"} => pc[Flusher] = "gone" /\ mutex = Nobody
  /\ stopped <=> pc[Owner] \in {"stopq", "gone"}
  /\ pc[Owner] = "gone" => Working = {}

\* A buffer is nothing yet, or has a chunk of the size it says.
Sound(b) ==
  IF b.chunk = 0 THEN b = None ELSE b.count <= b.space /\ Len(chunks[b.chunk]) = b.space

BuffersOK ==
  /\ Sound(buffered)
  /\ \A i \in DOMAIN q : Sound(q[i]) /\ q[i].chunk # 0
  /\ \A i \in DOMAIN qdel : Sound(qdel[i]) /\ qdel[i].chunk # 0
  /\ \A w \in Working : Sound(ldata[w]) /\ ldata[w].chunk # 0
  /\ \A t \in Callers : pc[t] = "push" => ldata[t] = buffered /\ buffered.chunk # 0

\* A buffer that holds the lines after line n.
Holds(b, n) == \A j \in 1 .. b.count : chunks[b.chunk][j] = n + j

\* How many lines the file has when the only writer has written what it is at.
Written == Len(file) + (IF pc[Writer] = "write" THEN ldata[Writer].count ELSE 0)

\* before[i]: how many lines come before those of the i-th buffer in q.
Counted(before) ==
  /\ before \in [1 .. Len(q) + 1 -> Nat]
  /\ before[1] = Written /\ before[Len(q) + 1] = handed
  /\ \A i \in 1 .. Len(q) : before[i + 1] = before[i] + q[i].count /\ Holds(q[i], before[i])

\* The lines not handed over are in the buffer, but for those being copied.
BufferedOK ==
  LET here == IF HandedOver THEN 0 ELSE buffered.count IN
    /\ lines = handed + here
    /\ \A j \in 1 .. here :
         \/ chunks[buffered.chunk][j] = handed + j
         \/ \E t \in Appenders : pc[t] = "copy" /\ slot[t].index = j
    /\ \A t \in Appenders : pc[t] = "copy" =>
         slot[t].chunk = buffered.chunk /\ slot[t].index \in 1 .. here
           /\ slot[t].line = handed + slot[t].index

\* The order while q has had one writer: its buffers follow on what it has written.
OrderOK ==
  /\ FileInOrder
  /\ Len(file) <= handed
  /\ pc[Writer] = "write" => Holds(ldata[Writer], Len(file))
  /\ pc[Owner] # "gone" => \E before \in [1 .. Len(q) + 1 -> 0 .. handed] : Counted(before)

LinesOK ==
  /\ handed <= lines
  /\ pc[Owner] # "gone" => BufferedOK
  /\ OneWriter => OrderOK

LogInv == ChunksOwned /\ ControlOK /\ BuffersOK /\ LinesOK

\* A log that is appended to, flushed or destroyed lets its callers go.
CallsReturn == \A t \in Callers : pc[t] \in {"lock", "flush", "join", "stopq"} ~>
                                  (pc[t] \in {"idle", "copy", "again", "gone"} \/ exited)

\* What a flush has handed over (168) gets into the file.
HandedIsWritten ==
  \A n \in 1 .. MaxLines : handed >= n ~> (Len(file) >= n \/ running = 0 \/ exited)
=============================================================================
