--------------------------- MODULE XsLoggerProofs -----------------------------
(***************************************************************************)
(* What the log guarantees, for any finite set of appending threads, any   *)
(* number of lines, any threshold and any room in the queues, and however  *)
(* many threads q gets; and, as long as it has had one, the order of the   *)
(* lines.                                                                  *)
(*                                                                         *)
(* Most steps touch neither a buffer nor a line (Quiet): for them the      *)
(* ownership of chunks and the order of lines stay as they are, and only   *)
(* the mutex and memlock need looking at.  The steps that take, fill, hand *)
(* over, write or give back a buffer are taken one by one.  For the order, *)
(* every queued buffer is known to hold the lines that follow those in the *)
(* buffers before it (before), so handing one over appends to that chain   *)
(* and writing one takes its first link.  That is so as long as q has had  *)
(* one thread (OneWriter), the rest with any number of them.               *)
(***************************************************************************)
EXTENDS XsLogger, FiniteSetTheorems, SequenceTheorems, TLAPS

\* The threads of a finite set that are at one of a set of places.
CountIn(threads, place, set) == Cardinality({u \in threads : place[u] \in set})

\* 1 if a place is one of a set of places, 0 if not.
In(place, set) == IF place \in set THEN 1 ELSE 0

\* A number of threads is a natural number.
LEMMA CountIsNat ==
  ASSUME NEW T, IsFiniteSet(T), NEW f, NEW set
  PROVE  CountIn(T, f, set) \in Nat
<1>1. IsFiniteSet({u \in T : f[u] \in set})
  BY FS_Subset
<1>2. QED
  BY <1>1, FS_CardinalityType DEF CountIn

\* A counter is at zero exactly when no thread is at one of its places.
LEMMA CountZero ==
  ASSUME NEW T, IsFiniteSet(T), NEW f, NEW set
  PROVE  CountIn(T, f, set) = 0 <=> \A u \in T : f[u] \notin set
<1> DEFINE there == {u \in T : f[u] \in set}
<1>1. IsFiniteSet(there)
  BY FS_Subset
<1>2. Cardinality(there) = 0 <=> there = {}
  <2> HIDE DEF there
  <2>1. QED
    BY <1>1, FS_EmptySet
<1>3. QED
  BY <1>2 DEF CountIn

\* When one thread moves, a count changes by that thread.
LEMMA CountMoved ==
  ASSUME NEW T, IsFiniteSet(T), NEW t \in T, NEW f, NEW g, NEW set,
         \A u \in T : u # t => g[u] = f[u]
  PROVE  CountIn(T, g, set) = CountIn(T, f, set) + In(g[t], set) - In(f[t], set)
<1> DEFINE before == {u \in T : f[u] \in set}
           after == {u \in T : g[u] \in set}
<1>0. before \in SUBSET T
  OBVIOUS
<1>1. IsFiniteSet(before) /\ Cardinality(before) \in Nat
  BY <1>0, FS_Subset, FS_CardinalityType
<1>2. t \in before <=> f[t] \in set
  OBVIOUS
<1>3. after = IF g[t] \in set THEN before \union {t} ELSE before \ {t}
  OBVIOUS
<1>4. Cardinality(after) = Cardinality(before) + In(g[t], set) - In(f[t], set)
  <2> HIDE DEF before, after
  <2>1. Cardinality(before \union {t}) =
          IF t \in before THEN Cardinality(before) ELSE Cardinality(before) + 1
    BY <1>1, FS_AddElement
  <2>2. Cardinality(before \ {t}) =
          IF t \in before THEN Cardinality(before) - 1 ELSE Cardinality(before)
    BY <1>1, FS_RemoveElement
  <2>3. QED
    BY <1>1, <1>2, <1>3, <2>1, <2>2 DEF In
<1>5. QED
  BY <1>4 DEF CountIn

-----------------------------------------------------------------------------
(***************************************************************************)
(* Threads move.                                                           *)
(***************************************************************************)
Copiers == CountIn(Appenders, pc, CopyPC)

\* The threads are different ones.
LEMMA Kinds ==
  /\ Appenders \subseteq Callers /\ Callers \subseteq Threads /\ Writers \subseteq Threads
  /\ Flusher \in Callers /\ Owner \in Callers /\ Writer \in Writers /\ Spare \subseteq Writers
  /\ \A w \in Writers : w \notin Callers /\ (w = Writer \/ w \in Spare)
  /\ Flusher \notin Appenders /\ Owner \notin Appenders /\ Writer \notin Spare
  /\ Nobody \notin Callers /\ Flusher # Owner
BY ThreadAssumption DEF Callers, Writers, Threads, Flusher, Owner, Writer, Nobody

\* A step of one thread.
LEMMA Moved ==
  ASSUME TypeOK, NEW t \in Threads, NEW from, NEW to \in PC, Goto(t, from, to)
  PROVE  /\ ~exited /\ pc[t] = from /\ pc'[t] = to
         /\ pc' \in [Threads -> PC]
         /\ \A u \in Threads : u # t => pc'[u] = pc[u]
BY DEF TypeOK, Goto

\* A step of one caller; a writer may be created along with it.
CallerMoves(t, from, to) ==
  /\ pc[t] = from /\ pc'[t] = to /\ pc' \in [Threads -> PC]
  /\ \A u \in Callers : u # t => pc'[u] = pc[u]
  /\ \A w \in Writers : pc'[w] = pc[w] \/ (pc[w] = "none" /\ pc'[w] = "start")

\* Most steps create nobody.
LEMMA GotoMoves ==
  ASSUME TypeOK, NEW t \in Callers, NEW from, NEW to \in PC, Goto(t, from, to)
  PROVE  CallerMoves(t, from, to)
BY Moved, Kinds DEF CallerMoves

\* A push may create a writer.
LEMMA PushMoves ==
  ASSUME TypeOK, NEW t \in Callers, FlushPush(t)
  PROVE  CallerMoves(t, "push", "recycle")
<1>1. "recycle" \in PC /\ "start" \in PC /\ pc \in [Threads -> PC] /\ pc[t] = "push"
  BY DEF PC, TypeOK, FlushPush
<1>2. CASE pc' = [pc EXCEPT ![t] = "recycle"]
  BY <1>1, <1>2, Kinds DEF CallerMoves
<1>3. CASE \E w \in Writers : New(w) /\ pc' = [pc EXCEPT ![t] = "recycle", ![w] = "start"]
  <2>1. PICK w \in Writers : New(w) /\ pc' = [pc EXCEPT ![t] = "recycle", ![w] = "start"]
    BY <1>3
  <2>2. w # t /\ w \in Threads /\ t \in Threads /\ pc[w] = "none"
    BY <2>1, Kinds DEF New
  <2>3. /\ pc' \in [Threads -> PC] /\ pc'[t] = "recycle" /\ pc'[w] = "start"
        /\ \A u \in Threads : u \notin {t, w} => pc'[u] = pc[u]
    BY <1>1, <2>1, <2>2
  <2>4. QED
    BY <1>1, <2>2, <2>3, Kinds DEF CallerMoves
<1>4. QED
  BY <1>2, <1>3 DEF FlushPush

\* The number of lines being copied after such a step.
LEMMA CopiersMoved ==
  ASSUME TypeOK, NEW t \in Callers, NEW from, NEW to, CallerMoves(t, from, to)
  PROVE  /\ Copiers \in Nat
         /\ t \in Appenders => Copiers' = Copiers + In(to, CopyPC) - In(from, CopyPC)
         /\ t \notin Appenders => Copiers' = Copiers
<1>1. Copiers \in Nat
  BY LogAssumption, CountIsNat DEF Copiers
<1>2. ASSUME t \in Appenders PROVE Copiers' = Copiers + In(to, CopyPC) - In(from, CopyPC)
  <2>1. CountIn(Appenders, pc', CopyPC) =
          CountIn(Appenders, pc, CopyPC) + In(pc'[t], CopyPC) - In(pc[t], CopyPC)
    <3>1. \A u \in Appenders : u # t => pc'[u] = pc[u]
      BY Kinds DEF CallerMoves
    <3>2. QED
      BY <1>2, <3>1, LogAssumption, CountMoved
  <2>2. QED
    BY <2>1 DEF Copiers, CallerMoves
<1>3. ASSUME t \notin Appenders PROVE Copiers' = Copiers
  <2>1. {u \in Appenders : pc'[u] \in CopyPC} = {u \in Appenders : pc[u] \in CopyPC}
    BY <1>3, Kinds DEF CallerMoves
  <2>2. QED
    BY <2>1 DEF Copiers, CountIn
<1>4. QED
  BY <1>1, <1>2, <1>3

\* Nobody copies exactly when the number of lines being copied is zero.
LEMMA NobodyCopies == Copiers = 0 <=> \A t \in Appenders : pc[t] \notin CopyPC
BY LogAssumption, CountZero DEF Copiers

-----------------------------------------------------------------------------
(***************************************************************************)
(* Types.                                                                  *)
(***************************************************************************)
\* A function with one value replaced.
LEMMA Replaced ==
  ASSUME NEW D, NEW S, NEW f \in [D -> S], NEW i, NEW v, i \in D => v \in S
  PROVE  [f EXCEPT ![i] = v] \in [D -> S]
OBVIOUS

\* The larger chunk.
LEMMA LargerType ==
  ASSUME TypeOK
  PROVE  /\ Larger.chunk = Len(chunks) + 1 /\ Larger.count = buffered.count
         /\ Larger.space \in Nat /\ Larger.space > buffered.space
         /\ Larger = [chunk |-> Larger.chunk, count |-> Larger.count, space |-> Larger.space]
<1> DEFINE n == buffered.space
           m == IF 2 * n > n + 1 THEN 2 * n ELSE n + 1
<1>1. buffered \in [chunk : 0 .. Len(chunks), count : Nat, space : Nat]
  BY DEF TypeOK, Buffers
<1>2. n \in Nat
  BY <1>1
<1>3. m \in Nat /\ m > n
  BY <1>2
<1>4. Larger = [buffered EXCEPT !.chunk = Len(chunks) + 1, !.space = m]
  BY DEF Larger
<1>5. Larger = [chunk |-> Len(chunks) + 1, count |-> buffered.count, space |-> m]
  <2> HIDE DEF m
  <2>1. QED
    BY <1>1, <1>4
<1>6. QED
  <2> HIDE DEF m
  <2>1. QED
    BY <1>3, <1>5

\* More chunks, and what was a buffer still is one.
LEMMA BuffersGrow ==
  ASSUME TypeOK, Len(chunks') >= Len(chunks), Len(chunks') \in Nat
  PROVE  /\ buffered \in Buffers' /\ q \in Seq(Buffers)' /\ qdel \in Seq(Buffers)'
         /\ ldata \in [Threads -> Buffers'] /\ live \subseteq 1 .. Len(chunks')
<1>1. Len(chunks) \in Nat
  BY DEF TypeOK
<1>2. \A b : b \in Buffers => b \in Buffers'
  BY <1>1 DEF Buffers
<1>3. ASSUME NEW s \in Seq(Buffers) PROVE s \in Seq(Buffers)'
  <2>1. Len(s) \in Nat /\ s \in [1 .. Len(s) -> Buffers]
    OBVIOUS
  <2>2. s \in [1 .. Len(s) -> Buffers']
    BY <1>2, <2>1
  <2>3. QED
    BY <2>1, <2>2
<1>4. ldata \in [Threads -> Buffers']
  BY <1>2 DEF TypeOK
<1>5. QED
  BY <1>1, <1>2, <1>3, <1>4 DEF TypeOK

\* None is a buffer, and so is one that has been emptied.
LEMMA NoneType ==
  ASSUME TypeOK
  PROVE  /\ None \in Buffers /\ None.chunk = 0 /\ None.count = 0 /\ None.space = 0
         /\ \A b \in Buffers : [b EXCEPT !.count = 0] \in Buffers
              /\ [b EXCEPT !.count = 0].chunk = b.chunk /\ [b EXCEPT !.count = 0].count = 0
              /\ [b EXCEPT !.count = 0].space = b.space
<1>1. Len(chunks) \in Nat
  BY DEF TypeOK
<1>2. None \in Buffers /\ None.chunk = 0 /\ None.count = 0 /\ None.space = 0
  BY <1>1 DEF Buffers, None
<1>3. \A b \in Buffers : [b EXCEPT !.count = 0] \in Buffers
  BY DEF Buffers
<1>4. QED
  BY <1>2, <1>3 DEF Buffers

\* Somebody copying is counted.
LEMMA CopierCounted ==
  ASSUME ControlOK, NEW t \in Appenders, pc[t] \in CopyPC
  PROVE  memlock = Copiers /\ memlock \in Nat /\ memlock # 0
<1>1. memlock = Copiers
  BY DEF ControlOK, Copiers, CountIn
<1>2. Copiers \in Nat
  BY LogAssumption, CountIsNat DEF Copiers
<1>3. QED
  BY <1>1, <1>2, NobodyCopies

\* Copying a line leaves all sizes.
LEMMA CopiedInto ==
  ASSUME TypeOK, NEW t \in Appenders, AppendCopy(t)
  PROVE  /\ chunks' \in Seq(Seq(Nat)) /\ Len(chunks') = Len(chunks)
         /\ \A c \in 1 .. Len(chunks) : Len(chunks'[c]) = Len(chunks[c])
<1> DEFINE c == slot[t].chunk
           new == [chunks[c] EXCEPT ![slot[t].index] = slot[t].line]
<1>1. chunks' = [chunks EXCEPT ![c] = new]
  BY DEF AppendCopy
<1>2. c \in DOMAIN chunks => new \in Seq(Nat) /\ Len(new) = Len(chunks[c])
  <2>1. slot[t].line \in Nat
    BY DEF TypeOK
  <2>2. c \in DOMAIN chunks => chunks[c] \in Seq(Nat)
    BY DEF TypeOK
  <2>3. ASSUME c \in DOMAIN chunks PROVE new \in Seq(Nat) /\ Len(new) = Len(chunks[c])
    <3>1. chunks[c] \in [1 .. Len(chunks[c]) -> Nat] /\ Len(chunks[c]) \in Nat
      BY <2>2, <2>3
    <3>2. new \in [1 .. Len(chunks[c]) -> Nat]
      BY <2>1, <3>1, Replaced
    <3>3. QED
      BY <3>1, <3>2
  <2>4. QED
    BY <2>3
<1>3. chunks \in [1 .. Len(chunks) -> Seq(Nat)] /\ Len(chunks) \in Nat
  BY DEF TypeOK
<1> HIDE DEF c, new
<1>4. chunks' \in Seq(Seq(Nat)) /\ Len(chunks') = Len(chunks)
  <2>1. c \in DOMAIN chunks => new \in Seq(Nat)
    BY <1>2
  <2>2. chunks' \in [1 .. Len(chunks) -> Seq(Nat)]
    BY <1>1, <1>3, <2>1, Replaced
  <2>3. QED
    BY <1>3, <2>2
<1>5. QED
  BY <1>1, <1>2, <1>3, <1>4

\* A buffer with a chunk names one that has been made.
LEMMA ChunkNamed ==
  ASSUME TypeOK, NEW b \in Buffers
  PROVE  /\ b.chunk \in 0 .. Len(chunks) /\ Len(chunks) \in Nat
         /\ b.chunk # 0 => b.chunk \in 1 .. Len(chunks)
<1>1. Len(chunks) \in Nat
  BY DEF TypeOK
<1>2. b.chunk \in 0 .. Len(chunks)
  BY DEF Buffers
<1>3. QED
  BY <1>1, <1>2

\* realloc makes one more chunk, which starts with what the old one had.
LEMMA ChunkAdded ==
  ASSUME TypeOK, BuffersOK, NEW t \in Appenders, AppendGrows(t)
  PROVE  /\ chunks' \in Seq(Seq(Nat)) /\ Len(chunks') = Len(chunks) + 1
         /\ Larger \in Buffers' /\ Larger.chunk = Len(chunks')
         /\ Len(chunks'[Larger.chunk]) = Larger.space
         /\ \A c \in 1 .. Len(chunks) : chunks'[c] = chunks[c]
         /\ \A i \in 1 .. buffered.space : chunks'[Larger.chunk][i] = chunks[buffered.chunk][i]
<1> DEFINE new == [i \in 1 .. Larger.space |->
                     IF i <= buffered.space THEN chunks[buffered.chunk][i] ELSE Blank]
<1>1. /\ chunks' = Append(chunks, new)
      /\ chunks \in Seq(Seq(Nat)) /\ Len(chunks) \in Nat
      /\ buffered.chunk \in 0 .. Len(chunks) /\ buffered.space \in Nat /\ buffered.count \in Nat
  BY DEF AppendGrows, TypeOK, Buffers
<1>2. \A i \in 1 .. buffered.space : chunks[buffered.chunk][i] \in Nat
  <2>1. CASE buffered.chunk = 0
    BY <2>1, <1>1 DEF BuffersOK, Sound, None
  <2>2. CASE buffered.chunk # 0
    <3>1. buffered.chunk \in 1 .. Len(chunks) /\ Len(chunks[buffered.chunk]) = buffered.space
      BY <1>1, <2>2 DEF BuffersOK, Sound
    <3>2. chunks[buffered.chunk] \in Seq(Nat)
      BY <1>1, <3>1
    <3>3. QED
      BY <3>1, <3>2
  <2>3. QED
    BY <2>1, <2>2
<1>3. new \in Seq(Nat) /\ Len(new) = Larger.space
  <2>1. new \in [1 .. Larger.space -> Nat] /\ Larger.space \in Nat
    BY <1>1, <1>2, LargerType DEF Blank
  <2>2. QED
    BY <2>1
<1>4. \A i \in 1 .. buffered.space : new[i] = chunks[buffered.chunk][i]
  BY <1>1, LargerType
<1> HIDE DEF new
<1>5. chunks' \in Seq(Seq(Nat)) /\ Len(chunks') = Len(chunks) + 1
  BY <1>1, <1>3
<1>6. Larger.chunk = Len(chunks') /\ chunks'[Larger.chunk] = new
  BY <1>1, <1>3, <1>5, LargerType
<1>7. Larger \in Buffers'
  BY <1>1, <1>5, LargerType DEF Buffers
<1>8. \A c \in 1 .. Len(chunks) : chunks'[c] = chunks[c]
  BY <1>1, <1>3
<1>9. /\ Len(chunks'[Larger.chunk]) = Larger.space
      /\ \A i \in 1 .. buffered.space : chunks'[Larger.chunk][i] = chunks[buffered.chunk][i]
  BY <1>3, <1>4, <1>6, Zenon
<1>10. QED
  BY <1>5, <1>6, <1>7, <1>8, <1>9, Zenon

\* A flush goes back to where it was called.
LEMMA Returned ==
  ASSUME TypeOK, NEW t \in Callers, NEW from \in PC, Return(t, from)
  PROVE  /\ pc[t] = from /\ pc'[t] = back[t] /\ back[t] \in {"idle", "relock", "exit", "again", "swap"}
         /\ pc' \in [Threads -> PC]
         /\ back' \in [Callers -> {"idle", "relock", "exit", "again", "swap"}]
<1>1. back[t] \in {"idle", "relock", "exit", "again", "swap"} /\ Goto(t, from, back[t])
  BY DEF TypeOK, Return
<1>2. back[t] \in PC
  BY <1>1 DEF PC
<1>3. back' \in [Callers -> {"idle", "relock", "exit", "again", "swap"}]
  BY DEF TypeOK, Return
<1>4. QED
  BY <1>1, <1>2, <1>3, Moved, Kinds

\* What a writer writes is what its buffer has.
LEMMA WrittenLines ==
  ASSUME TypeOK, BuffersOK, NEW w \in Writers, pc[w] = "write"
  PROVE  LET b == ldata[w] IN
           /\ b.count \in Nat
           /\ SubSeq(chunks[b.chunk], 1, b.count) \in Seq(Nat)
           /\ Len(SubSeq(chunks[b.chunk], 1, b.count)) = b.count
           /\ \A j \in 1 .. b.count : SubSeq(chunks[b.chunk], 1, b.count)[j] = chunks[b.chunk][j]
<1> DEFINE b == ldata[w]
           s == chunks[b.chunk]
<1>1. b \in Buffers
  BY Kinds DEF TypeOK
<1>0. w \in Working
  BY DEF Working
<1>2. b.count \in Nat /\ b.count <= b.space /\ Len(s) = b.space /\ b.chunk \in 1 .. Len(chunks)
  BY <1>0, <1>1 DEF BuffersOK, Sound, Buffers
<1>3. s \in Seq(Nat)
  BY <1>2 DEF TypeOK
<1> HIDE DEF s, b
<1>4. \A j \in 1 .. b.count : s[j] \in Nat
  BY <1>2, <1>3
<1>5. /\ SubSeq(s, 1, b.count) \in Seq(Nat)
      /\ Len(SubSeq(s, 1, b.count)) = IF 1 <= b.count THEN b.count - 1 + 1 ELSE 0
      /\ \A i \in 1 .. b.count - 1 + 1 : SubSeq(s, 1, b.count)[i] = s[1 + i - 1]
  BY <1>2, <1>4, SubSeqProperties
<1>6. /\ Len(SubSeq(s, 1, b.count)) = b.count
      /\ \A j \in 1 .. b.count : SubSeq(s, 1, b.count)[j] = s[j]
  BY <1>2, <1>5
<1>7. QED
  BY <1>2, <1>5, <1>6 DEF s, b

\* Every step keeps the types.
LEMMA TypeStep ==
  ASSUME LogInv, Next
  PROVE  TypeOK'
<1>0. TypeOK /\ ControlOK /\ Len(chunks) \in Nat
  BY DEF LogInv, ChunksOwned, TypeOK
<1> USE <1>0, Kinds
<1>1. ASSUME NEW t \in Appenders, AppendCall(t) PROVE TypeOK'
  <2>1. pc' \in [Threads -> PC]
    BY <1>1, Moved DEF PC, AppendCall
  <2>2. QED
    BY <1>1, <2>1 DEF TypeOK, Buffers, memory, queues, AppendCall
<1>2. ASSUME NEW t \in Appenders, AppendFlush(t) PROVE TypeOK'
  <2>1. pc' \in [Threads -> PC]
    BY <1>2, Moved DEF PC, AppendFlush
  <2>2. QED
    BY <1>2, <2>1 DEF TypeOK, Buffers, memory, queues, AppendFlush
<1>3. ASSUME NEW t \in Appenders, Exit(t) PROVE TypeOK'
  <2>1. pc' \in [Threads -> PC]
    BY <1>3, Moved DEF PC, Exit
  <2>2. QED
    BY <1>3, <2>1 DEF TypeOK, Buffers, memory, queues, Exit
<1>4. ASSUME NEW t \in Callers, FlushTest(t) PROVE TypeOK'
  <2>1. CASE running = 0
    <3>1. Return(t, "flush") /\ "flush" \in PC
      BY <1>4, <2>1 DEF FlushTest, PC
    <3>2. QED
      BY <1>4, <3>1, Returned DEF TypeOK, Buffers, memory, queues, FlushTest
  <2>2. CASE running # 0
    <3>1. pc' \in [Threads -> PC]
      BY <1>4, <2>2, Moved DEF PC, FlushTest
    <3>2. QED
      BY <1>4, <2>2, <3>1 DEF TypeOK, Buffers, memory, queues, FlushTest
  <2>3. QED
    BY <2>1, <2>2
<1>5. ASSUME NEW t \in Callers, FlushLock(t) PROVE TypeOK'
  <2>1. pc' \in [Threads -> PC]
    BY <1>5, Moved DEF PC, FlushLock
  <2>2. QED
    BY <1>5, <2>1 DEF TypeOK, Buffers, memory, queues, FlushLock
<1>6. ASSUME NEW t \in Callers, FlushSpin(t) PROVE TypeOK'
  <2>1. pc' \in [Threads -> PC]
    BY <1>6, Moved DEF PC, FlushSpin, TakeBuffer
  <2>2. QED
    BY <1>6, <2>1 DEF TypeOK, Buffers, memory, queues, FlushSpin, TakeBuffer
<1>7. ASSUME NEW t \in Callers, FlushUnlock(t) PROVE TypeOK'
  <2>1. Return(t, "unlock") /\ "unlock" \in PC
    BY <1>7 DEF FlushUnlock, PC
  <2>2. QED
    BY <1>7, <2>1, Returned, NoneType DEF TypeOK, Buffers, memory, queues, FlushUnlock
<1>8. ASSUME Look PROVE TypeOK'
  <2>1. pc' \in [Threads -> PC]
    BY <1>8, Moved DEF PC, Look
  <2>2. QED
    BY <1>8, <2>1 DEF TypeOK, Buffers, memory, queues, Look
<1>9. ASSUME WakeFlush PROVE TypeOK'
  <2>1. pc' \in [Threads -> PC]
    BY <1>9, Moved DEF PC, WakeFlush
  <2>2. QED
    BY <1>9, <2>1 DEF TypeOK, Buffers, memory, queues, WakeFlush
<1>10. ASSUME WakeIdle PROVE TypeOK'
  <2>1. pc' \in [Threads -> PC]
    BY <1>10, Moved DEF PC, WakeIdle
  <2>2. QED
    BY <1>10, <2>1 DEF TypeOK, Buffers, memory, queues, WakeIdle
<1>11. ASSUME Again PROVE TypeOK'
  <2>1. pc' \in [Threads -> PC]
    BY <1>11, Moved DEF PC, Again
  <2>2. QED
    BY <1>11, <2>1 DEF TypeOK, Buffers, memory, queues, Again
<1>12. ASSUME NEW w \in Writers, WriterStop(w) PROVE TypeOK'
  <2>1. pc' \in [Threads -> PC]
    BY <1>12, Moved DEF PC, WriterStop
  <2>2. QED
    BY <1>12, <2>1 DEF TypeOK, Buffers, memory, queues, WriterStop
<1>13. ASSUME DestroyCall PROVE TypeOK'
  <2>1. pc' \in [Threads -> PC]
    BY <1>13, Moved DEF PC, DestroyCall
  <2>2. QED
    BY <1>13, <2>1 DEF TypeOK, Buffers, memory, queues, DestroyCall
<1>14. ASSUME DestroySwap PROVE TypeOK'
  <2>1. pc' \in [Threads -> PC]
    BY <1>14, Moved DEF PC, DestroySwap
  <2>2. QED
    BY <1>14, <2>1 DEF TypeOK, Buffers, memory, queues, DestroySwap
<1>15. ASSUME DestroyJoin PROVE TypeOK'
  <2>1. pc' \in [Threads -> PC]
    BY <1>15, Moved DEF PC, DestroyJoin
  <2>2. QED
    BY <1>15, <2>1 DEF TypeOK, Buffers, memory, queues, DestroyJoin
<1>16. ASSUME NEW t \in Appenders, AppendCopied(t) PROVE TypeOK'
  <2>1. pc' \in [Threads -> PC]
    BY <1>16, Moved DEF PC, AppendCopied
  <2>2. memlock' \in Nat
    <3>1. pc[t] \in CopyPC
      BY <1>16 DEF AppendCopied, Goto, CopyPC
    <3>2. QED
      BY <1>16, <3>1, CopierCounted DEF AppendCopied
  <2>3. slot' \in [Appenders -> [chunk : Nat, index : Nat, line : Nat]]
    BY <1>16 DEF AppendCopied, TypeOK, NoSlot, Blank
  <2>4. QED
    BY <1>16, <2>1, <2>2, <2>3 DEF TypeOK, Buffers, memory, queues, AppendCopied
<1>17. ASSUME NEW t \in Appenders, AppendCopy(t) PROVE TypeOK'
  <2>1. pc' \in [Threads -> PC]
    BY <1>17, Moved DEF PC, AppendCopy
  <2>2. chunks' \in Seq(Seq(Nat)) /\ Len(chunks') = Len(chunks)
    BY <1>17, CopiedInto DEF AppendCopy, TypeOK
  <2>3. QED
    BY <1>17, <2>1, <2>2 DEF TypeOK, Buffers, queues, AppendCopy
<1>18. ASSUME NEW t \in Appenders, AppendFits(t) PROVE TypeOK'
  <2>1. pc' \in [Threads -> PC]
    BY <1>18, Moved DEF PC, CanReserve, AppendFits
  <2>0. Buffers' = Buffers /\ chunks' = chunks /\ live' = live
    BY <1>18 DEF AppendFits, memory, Buffers
  <2>2. PICK buf \in Buffers' : Reserve(t, buf)
    BY <1>18, <2>0 DEF AppendFits, TypeOK
  <2>9. buf.chunk \in 0 .. Len(chunks') /\ buf.count \in Nat
    BY <2>2 DEF Buffers
  <2>7. memlock' \in Nat /\ lines' \in Nat /\ lines + 1 \in Nat
    BY <2>2 DEF Reserve, TypeOK
  <2>3. buffered' \in Buffers'
    BY <2>2 DEF Buffers, Reserve
  <2>4. slot' \in [Appenders -> [chunk : Nat, index : Nat, line : Nat]]
    <3>1. buf.chunk \in Nat /\ buf.count + 1 \in Nat /\ lines + 1 \in Nat
      BY <2>0, <2>9, <2>7
    <3>2. QED
      BY <2>2, <3>1 DEF Reserve, TypeOK
  <2>5. QED
    BY <2>0, <2>1, <2>2, <2>3, <2>4, <2>7 DEF TypeOK, queues, Reserve
<1>19. ASSUME NEW t \in Appenders, AppendGrows(t) PROVE TypeOK'
  <2>0. /\ chunks' \in Seq(Seq(Nat)) /\ Len(chunks') = Len(chunks) + 1
        /\ Larger \in Buffers' /\ Larger.chunk = Len(chunks')
    BY <1>19, ChunkAdded DEF LogInv
  <2>1. pc' \in [Threads -> PC]
    BY <1>19, Moved DEF PC, CanReserve, AppendGrows
  <2>2. PICK buf \in Buffers' : Reserve(t, buf)
    BY <1>19, <2>0 DEF AppendGrows
  <2>9. buf.chunk \in 0 .. Len(chunks') /\ buf.count \in Nat
    BY <2>2 DEF Buffers
  <2>7. memlock' \in Nat /\ lines' \in Nat /\ lines + 1 \in Nat
    BY <2>2 DEF Reserve, TypeOK
  <2>3. buffered' \in Buffers'
    BY <2>2 DEF Buffers, Reserve
  <2>4. slot' \in [Appenders -> [chunk : Nat, index : Nat, line : Nat]]
    <3>1. buf.chunk \in Nat /\ buf.count + 1 \in Nat /\ lines + 1 \in Nat
      BY <2>0, <2>9, <2>7
    <3>2. QED
      BY <2>2, <3>1 DEF Reserve, TypeOK
  <2>5. /\ q \in Seq(Buffers)' /\ qdel \in Seq(Buffers)' /\ ldata \in [Threads -> Buffers']
        /\ live \subseteq 1 .. Len(chunks')
    BY <2>0, BuffersGrow
  <2>6. live' \subseteq 1 .. Len(chunks')
    <3>1. live' = (live \ {buffered.chunk}) \union {Len(chunks')}
      BY <1>19, <2>0 DEF AppendGrows
    <3>2. Len(chunks') \in 1 .. Len(chunks')
      BY <2>0
    <3>3. QED
      BY <2>5, <3>1, <3>2
  <2>8. QED
    BY <1>19, <2>0, <2>1, <2>2, <2>3, <2>4, <2>5, <2>6, <2>7 DEF TypeOK, queues, Reserve
<1>20. ASSUME NEW t \in Callers, FlushPush(t) PROVE TypeOK'
  <2>1. pc' \in [Threads -> PC]
    BY <1>20, PushMoves DEF CallerMoves
  <2>2. ldata[t] \in Buffers /\ ldata[t].count \in Nat
    BY DEF TypeOK, Buffers
  <2>3. q' \in Seq(Buffers) /\ handed' \in Nat
    BY <1>20, <2>2 DEF FlushPush, TypeOK
  <2>4. QED
    BY <1>20, <2>1, <2>3 DEF TypeOK, Buffers, memory, FlushPush
<1>21. ASSUME NEW t \in Callers, FlushRecycle(t) PROVE TypeOK'
  <2>1. pc' \in [Threads -> PC]
    BY <1>21, Moved DEF PC, FlushRecycle
  <2>2. buffered' \in Buffers /\ qdel' \in Seq(Buffers)
    <3>1. CASE qdel = <<>>
      BY <1>21, <3>1, NoneType DEF FlushRecycle, TypeOK
    <3>2. CASE qdel # <<>>
      <4>1. Head(qdel) \in Buffers /\ Tail(qdel) \in Seq(Buffers)
        BY <3>2 DEF TypeOK
      <4>2. QED
        BY <1>21, <3>2, <4>1, NoneType DEF FlushRecycle
    <3>3. QED
      BY <3>1, <3>2
  <2>3. QED
    BY <1>21, <2>1, <2>2 DEF TypeOK, Buffers, memory, FlushRecycle
<1>22. ASSUME NEW w \in Writers, WriterTake(w) PROVE TypeOK'
  <2>1. pc' \in [Threads -> PC]
    BY <1>22, Moved DEF PC, WriterTake
  <2>2. Head(q) \in Buffers /\ Tail(q) \in Seq(Buffers)
    BY <1>22 DEF WriterTake, TypeOK
  <2>3. QED
    BY <1>22, <2>1, <2>2 DEF TypeOK, Buffers, memory, WriterTake
<1>23. ASSUME NEW w \in Writers, WriterWrite(w) PROVE TypeOK'
  <2>1. pc' \in [Threads -> PC]
    BY <1>23, Moved DEF PC, WriterWrite
  <2>2. file' \in Seq(Nat)
    <3>1. SubSeq(chunks[ldata[w].chunk], 1, ldata[w].count) \in Seq(Nat)
      BY <1>23, WrittenLines DEF LogInv, WriterWrite, Goto
    <3>2. QED
      BY <1>23, <3>1, ConcatProperties DEF WriterWrite, TypeOK
  <2>3. QED
    BY <1>23, <2>1, <2>2 DEF TypeOK, Buffers, memory, queues, WriterWrite
<1>24. ASSUME NEW w \in Writers, WriterSave(w) PROVE TypeOK'
  <2>1. pc' \in [Threads -> PC]
    BY <1>24, Moved DEF PC, WriterSave
  <2>2. ldata[w] \in Buffers /\ None \in Buffers
    BY NoneType DEF TypeOK
  <2>3. qdel' \in Seq(Buffers) /\ live' \subseteq 1 .. Len(chunks)
    <3>1. CASE running = 0
      BY <1>24, <3>1 DEF WriterSave, TypeOK
    <3>2. CASE running # 0 /\ Len(qdel) < QSpace
      <4>1. qdel' = Append(qdel, ldata[w]) /\ live' = live
        BY <1>24, <3>2 DEF WriterSave
      <4>2. QED
        BY <2>2, <4>1 DEF TypeOK
    <3>3. CASE running # 0 /\ ~(Len(qdel) < QSpace)
      BY <1>24, <3>3 DEF WriterSave, TypeOK
    <3>4. QED
      BY <3>1, <3>2, <3>3
  <2>4. QED
    BY <1>24, <2>1, <2>2, <2>3 DEF TypeOK, Buffers, WriterSave
<1>25. ASSUME DestroyFree PROVE TypeOK'
  <2>1. pc' \in [Threads -> PC]
    BY <1>25, Moved DEF PC, DestroyFree
  <2>2. QED
    <3>1. Buffers' = Buffers
      BY <1>25 DEF Buffers, memory, DestroyFree
    <3>2. None \in Buffers' /\ <<>> \in Seq(Buffers')
      BY <3>1, NoneType
    <3>3. QED
      BY <1>25, <2>1, <3>1, <3>2 DEF TypeOK, memory, DestroyFree
<1>26. ASSUME NEW w \in Writers, WriterBegin(w) PROVE TypeOK'
  <2>1. pc' \in [Threads -> PC]
    BY <1>26, Moved DEF PC, WriterBegin
  <2>2. QED
    BY <1>26, <2>1 DEF TypeOK, Buffers, memory, queues, WriterBegin
<1>27. QED
  BY <1>1, <1>2, <1>3, <1>4, <1>5, <1>6, <1>7, <1>8, <1>9, <1>10, <1>11, <1>12, <1>13, <1>14, <1>15, <1>16, <1>17, <1>18, <1>19, <1>20, <1>21, <1>22, <1>23, <1>24, <1>25, <1>26
     DEF Next, AppendStep, Flush, FlushThread, Process, Destroy
-----------------------------------------------------------------------------
(***************************************************************************)
(* The mutex, memlock, and the order in which destroy stops everybody.     *)
(***************************************************************************)
\* A step of a caller that enters or leaves the critical section, or the copy,
\* and says so in mutex and memlock.
Tells(t, from, to) ==
  /\ from \notin {"stopq", "gone"} /\ running' = running /\ stopped' = stopped
  /\ t \in Appenders => running # 0
  /\ t = Owner => to \notin {"join", "stopq", "gone"}
  /\ to \in LockPC => from \in LockPC \/ mutex = Nobody
  /\ mutex' = (IF to \in LockPC THEN t ELSE IF from \in LockPC THEN Nobody ELSE mutex)
  /\ memlock' = memlock + (IF t \in Appenders THEN In(to, CopyPC) - In(from, CopyPC) ELSE 0)
  /\ memlock' = memlock \/ memlock # 0 \/ mutex = Nobody
  /\ to \in {"push", "recycle"} => memlock' = 0

\* Such a step keeps what is said of the mutex and of memlock.
LEMMA ControlKept ==
  ASSUME TypeOK, ControlOK, NEW t \in Callers, NEW from, NEW to, CallerMoves(t, from, to),
         Tells(t, from, to)
  PROVE  ControlOK'
<1> USE DEF Tells
<1>1. /\ pc[t] = from /\ pc'[t] = to
      /\ \A u \in Callers : u # t => pc'[u] = pc[u]
      /\ \A w \in Writers : pc'[w] = pc[w] \/ (pc[w] = "none" /\ pc'[w] = "start")
      /\ Copiers' = memlock'
  <2>1. memlock = Copiers /\ memlock \in Nat
    BY DEF ControlOK, Copiers, CountIn, TypeOK
  <2>2. QED
    BY <2>1, CopiersMoved DEF CallerMoves
<1>2. \A u \in Callers : pc'[u] \in LockPC <=> mutex' = u
  <2> TAKE u \in Callers
  <2>1. CASE u = t
    BY <1>1, <2>1, Kinds DEF ControlOK
  <2>2. CASE u # t
    <3>1. pc'[u] = pc[u] /\ (pc[u] \in LockPC <=> mutex = u) /\ (from \in LockPC <=> mutex = t)
      BY <1>1, <2>2, Kinds DEF ControlOK
    <3>2. QED
      BY <2>2, <3>1, Kinds
  <2>3. QED
    BY <2>1, <2>2
<1>3. memlock' = Cardinality({u \in Appenders : pc'[u] \in CopyPC})
  BY <1>1 DEF Copiers, CountIn
<1>4. \A u \in Callers : pc'[u] \in {"push", "recycle"} => memlock' = 0
  <2> SUFFICES ASSUME NEW u \in Callers, pc'[u] \in {"push", "recycle"}
               PROVE  memlock' = 0
    OBVIOUS
  <2>1. CASE u = t
    BY <1>1, <2>1
  <2>2. CASE u # t
    <3>1. pc[u] \in {"push", "recycle"}
      BY <1>1, <2>2, Kinds
    <3>2. memlock = 0 /\ mutex = u
      BY <3>1 DEF ControlOK, LockPC
    <3>3. QED
      BY <3>2, Kinds
  <2>3. QED
    BY <2>1, <2>2
<1>5. \A w \in Writers : pc'[w] \in WriterPC /\ (pc'[w] = "gone" => stopped')
  BY <1>1 DEF ControlOK, WriterPC
<1>6. running' = 0 => \A u \in Appenders : pc'[u] = "idle"
  BY <1>1, Kinds DEF ControlOK
<1>7. pc'[Owner] \in {"join", "stopq", "gone"} => running' = 0
  BY <1>1, Kinds DEF ControlOK
<1>8. pc'[Owner] \in {"stopq", "gone"} => pc'[Flusher] = "gone" /\ mutex' = Nobody
  <2> SUFFICES ASSUME pc'[Owner] \in {"stopq", "gone"}
               PROVE  pc'[Flusher] = "gone" /\ mutex' = Nobody
    OBVIOUS
  <2>1. pc[Owner] \in {"stopq", "gone"} /\ t # Owner
    BY <1>1, Kinds
  <2>2. pc[Flusher] = "gone" /\ mutex = Nobody /\ running = 0
    BY <2>1 DEF ControlOK
  <2>3. QED
    BY <1>1, <2>1, <2>2, Kinds DEF Callers
<1>9. stopped' <=> pc'[Owner] \in {"stopq", "gone"}
  BY <1>1, Kinds DEF ControlOK
<1>10. pc'[Owner] = "gone" => Working' = {}
  <2>1. Working' = Working
    BY <1>1 DEF Working
  <2>2. QED
    BY <1>1, <2>1, Kinds DEF ControlOK
<1>11. QED
  BY <1>2, <1>3, <1>4, <1>5, <1>6, <1>7, <1>8, <1>9, <1>10 DEF ControlOK

\* A step of a writer.
LEMMA WriterControl ==
  ASSUME TypeOK, ControlOK, NEW w \in Writers, NEW from, NEW to \in WriterPC, Goto(w, from, to),
         to = "gone" => stopped, to = "write" => ~stopped, to = "save" => from = "write",
         UNCHANGED <<mutex, memlock, running, stopped>>
  PROVE  ControlOK'
<1>1. /\ pc[w] = from /\ pc'[w] = to
      /\ \A u \in Threads : u # w => pc'[u] = pc[u]
      /\ \A u \in Callers : pc'[u] = pc[u]
  <2>1. to \in PC
    BY DEF PC, WriterPC
  <2>2. QED
    BY <2>1, Moved, Kinds
<1>2. {u \in Appenders : pc'[u] \in CopyPC} = {u \in Appenders : pc[u] \in CopyPC}
  BY <1>1, Kinds
<1>3. memlock' = Cardinality({u \in Appenders : pc'[u] \in CopyPC})
  BY <1>2 DEF ControlOK
<1>4. \A v \in Writers : pc'[v] \in WriterPC /\ (pc'[v] = "gone" => stopped')
  BY <1>1, Kinds DEF ControlOK
<1>5. pc'[Owner] = "gone" => Working' = {}
  <2> SUFFICES ASSUME pc'[Owner] = "gone" PROVE Working' = {}
    OBVIOUS
  <2>1. stopped /\ Working = {}
    BY <1>1, Kinds DEF ControlOK
  <2>2. \A v \in Writers : pc[v] \notin {"write", "save"}
    BY <2>1 DEF Working
  <2>3. pc'[w] \notin {"write", "save"}
    BY <1>1, <2>1, <2>2
  <2>4. QED
    BY <1>1, <2>1, <2>2, <2>3, Kinds DEF Working
<1>6. /\ \A u \in Callers : pc'[u] \in LockPC <=> mutex' = u
      /\ \A u \in Callers : pc'[u] \in {"push", "recycle"} => memlock' = 0
      /\ running' = 0 => \A u \in Appenders : pc'[u] = "idle"
      /\ pc'[Owner] \in {"join", "stopq", "gone"} => running' = 0
      /\ pc'[Owner] \in {"stopq", "gone"} => pc'[Flusher] = "gone" /\ mutex' = Nobody
      /\ stopped' <=> pc'[Owner] \in {"stopq", "gone"}
  BY <1>1, Kinds DEF ControlOK
<1>7. QED
  BY <1>3, <1>4, <1>5, <1>6 DEF ControlOK

\* Every step keeps the mutex, memlock and the order.
LEMMA ControlStep ==
  ASSUME LogInv, Next, PromptStep
  PROVE  ControlOK'
<1>0. /\ TypeOK /\ ControlOK /\ memlock \in Nat
      /\ \A t \in Appenders : pc[t] # "idle" => running # 0
  BY DEF LogInv, ChunksOwned, TypeOK, ControlOK
<1> USE <1>0, Kinds
<1>1. ASSUME NEW t \in Appenders, AppendCall(t) PROVE ControlOK'
  <2>1. Goto(t, "idle", "lock") /\ "lock" \in PC /\ "idle" \in PC
    BY <1>1 DEF AppendCall, PC
  <2>2. Tells(t, "idle", "lock")
    BY <1>1, <2>1 DEF AppendCall, LockPC, CopyPC, In, Goto, Tells, TypeOK
  <2>3. QED
    BY <2>1, <2>2, GotoMoves, ControlKept
<1>2. ASSUME NEW t \in Appenders, AppendFlush(t) PROVE ControlOK'
  <2>1. Goto(t, "lock", "flush") /\ "flush" \in PC /\ "lock" \in PC
    BY <1>2 DEF AppendFlush, PC
  <2>2. Tells(t, "lock", "flush")
    BY <1>2, <2>1 DEF AppendFlush, LockPC, CopyPC, In, Goto, Tells, TypeOK
  <2>3. QED
    BY <2>1, <2>2, GotoMoves, ControlKept
<1>3. ASSUME NEW t \in Appenders, AppendCopy(t) PROVE ControlOK'
  <2>1. Goto(t, "copy", "copied") /\ "copied" \in PC /\ "copy" \in PC
    BY <1>3 DEF AppendCopy, PC
  <2>2. Tells(t, "copy", "copied")
    BY <1>3, <2>1 DEF AppendCopy, LockPC, CopyPC, In, Goto, Tells, TypeOK
  <2>3. QED
    BY <2>1, <2>2, GotoMoves, ControlKept
<1>4. ASSUME NEW t \in Appenders, Exit(t) PROVE ControlOK'
  <2>1. Goto(t, "exit", "gone") /\ "gone" \in PC /\ "exit" \in PC
    BY <1>4 DEF Exit, PC
  <2>2. Tells(t, "exit", "gone")
    BY <1>4, <2>1 DEF Exit, LockPC, CopyPC, In, Goto, Tells, TypeOK
  <2>3. QED
    BY <2>1, <2>2, GotoMoves, ControlKept
<1>5. ASSUME NEW t \in Appenders, AppendFits(t) PROVE ControlOK'
  <2>1. PICK from \in {"lock", "relock"} : Goto(t, from, "copy")
    BY <1>5 DEF AppendFits, CanReserve
  <2>2. mutex = Nobody /\ memlock' = memlock + 1 /\ UNCHANGED <<mutex, running, stopped>>
    BY <1>5 DEF AppendFits, CanReserve, Reserve
  <2>3. Tells(t, from, "copy")
    BY <2>1, <2>2 DEF LockPC, CopyPC, In, PC, Goto, Tells, TypeOK
  <2>4. QED
    BY <2>1, <2>3, GotoMoves, ControlKept DEF PC
<1>6. ASSUME NEW t \in Appenders, AppendGrows(t) PROVE ControlOK'
  <2>1. PICK from \in {"lock", "relock"} : Goto(t, from, "copy")
    BY <1>6 DEF AppendGrows, CanReserve
  <2>2. mutex = Nobody /\ memlock' = memlock + 1 /\ UNCHANGED <<mutex, running, stopped>>
    BY <1>6 DEF AppendGrows, CanReserve, Reserve
  <2>3. Tells(t, from, "copy")
    BY <2>1, <2>2 DEF LockPC, CopyPC, In, PC, Goto, Tells, TypeOK
  <2>4. QED
    BY <2>1, <2>3, GotoMoves, ControlKept DEF PC
<1>7. ASSUME NEW t \in Appenders, AppendCopied(t) PROVE ControlOK'
  <2>1. PICK to \in {"flush", "idle"} : Goto(t, "copied", to)
    BY <1>7 DEF AppendCopied
  <2>2. memlock' = memlock - 1 /\ UNCHANGED <<mutex, running, stopped>> /\ memlock # 0
    BY <1>7, CopierCounted DEF AppendCopied, Goto, CopyPC
  <2>3. Tells(t, "copied", to)
    BY <2>1, <2>2 DEF LockPC, CopyPC, In, PC, Goto, Tells, TypeOK
  <2>4. QED
    BY <2>1, <2>3, GotoMoves, ControlKept DEF PC
<1>8. ASSUME NEW t \in Callers, FlushTest(t) PROVE ControlOK'
  <2>1. PICK to \in {"flushLock", "idle", "relock", "exit", "again", "swap"} : Goto(t, "flush", to)
    BY <1>8 DEF FlushTest, Return, TypeOK
  <2>2. Tells(t, "flush", to)
    BY <1>8, <2>1 DEF FlushTest, LockPC, CopyPC, In, PC, Goto, Tells, TypeOK
  <2>3. QED
    BY <2>1, <2>2, GotoMoves, ControlKept DEF PC
<1>9. ASSUME NEW t \in Callers, FlushLock(t) PROVE ControlOK'
  <2>1. Goto(t, "flushLock", "spin") /\ "spin" \in PC /\ "flushLock" \in PC
    BY <1>9 DEF FlushLock, PC
  <2>2. Tells(t, "flushLock", "spin")
    BY <1>9, <2>1 DEF FlushLock, LockPC, CopyPC, In, Goto, Tells, TypeOK
  <2>3. QED
    BY <2>1, <2>2, GotoMoves, ControlKept
<1>10. ASSUME NEW t \in Callers, FlushSpin(t) PROVE ControlOK'
  <2>1. PICK to \in {"push", "unlock"} : Goto(t, "spin", to)
    BY <1>10 DEF FlushSpin, TakeBuffer
  <2>2. memlock = 0 /\ mutex = t /\ UNCHANGED <<mutex, running, memlock, stopped>>
    BY <1>10, <2>1 DEF FlushSpin, TakeBuffer, ControlOK, LockPC, Goto
  <2>3. Tells(t, "spin", to)
    BY <2>1, <2>2 DEF LockPC, CopyPC, In, PC, Goto, Tells, TypeOK
  <2>4. QED
    BY <2>1, <2>3, GotoMoves, ControlKept DEF PC
<1>11. ASSUME NEW t \in Callers, FlushPush(t) PROVE ControlOK'
  <2>1. CallerMoves(t, "push", "recycle") /\ UNCHANGED <<mutex, running, memlock, stopped>>
    BY <1>11, PushMoves DEF FlushPush
  <2>2. memlock = 0 /\ mutex = t
    BY <2>1 DEF CallerMoves, ControlOK, LockPC
  <2>3. Tells(t, "push", "recycle")
    BY <2>1, <2>2 DEF LockPC, CopyPC, In, CallerMoves, Tells, ControlOK
  <2>4. QED
    BY <2>1, <2>3, ControlKept
<1>12. ASSUME NEW t \in Callers, FlushRecycle(t) PROVE ControlOK'
  <2>1. Goto(t, "recycle", "unlock") /\ "unlock" \in PC /\ "recycle" \in PC
    BY <1>12 DEF FlushRecycle, PC
  <2>2. mutex = t
    BY <2>1 DEF ControlOK, LockPC, Goto
  <2>3. Tells(t, "recycle", "unlock")
    BY <1>12, <2>1, <2>2 DEF FlushRecycle, LockPC, CopyPC, In, Goto, Tells, TypeOK
  <2>4. QED
    BY <2>1, <2>3, GotoMoves, ControlKept
<1>13. ASSUME NEW t \in Callers, FlushUnlock(t) PROVE ControlOK'
  <2>1. PICK to \in {"idle", "relock", "exit", "again", "swap"} : Goto(t, "unlock", to)
    BY <1>13 DEF FlushUnlock, Return, TypeOK
  <2>2. Tells(t, "unlock", to)
    BY <1>13, <2>1 DEF FlushUnlock, LockPC, CopyPC, In, PC, Goto, Tells, TypeOK
  <2>3. QED
    BY <2>1, <2>2, GotoMoves, ControlKept DEF PC
<1>14. ASSUME Look PROVE ControlOK'
  <2>1. Goto(Flusher, "look", "sleep") /\ "sleep" \in PC /\ "look" \in PC
    BY <1>14 DEF Look, PC
  <2>2. Tells(Flusher, "look", "sleep")
    BY <1>14, <2>1 DEF Look, LockPC, CopyPC, In, Goto, Tells, TypeOK
  <2>3. QED
    BY <2>1, <2>2, GotoMoves, ControlKept
<1>15. ASSUME WakeFlush PROVE ControlOK'
  <2>1. Goto(Flusher, "sleep", "flush") /\ "flush" \in PC /\ "sleep" \in PC
    BY <1>15 DEF WakeFlush, PC
  <2>2. Tells(Flusher, "sleep", "flush")
    BY <1>15, <2>1 DEF WakeFlush, LockPC, CopyPC, In, Goto, Tells, TypeOK
  <2>3. QED
    BY <2>1, <2>2, GotoMoves, ControlKept
<1>16. ASSUME WakeIdle PROVE ControlOK'
  <2>1. Goto(Flusher, "sleep", "again") /\ "again" \in PC /\ "sleep" \in PC
    BY <1>16 DEF WakeIdle, PC
  <2>2. Tells(Flusher, "sleep", "again")
    BY <1>16, <2>1 DEF WakeIdle, LockPC, CopyPC, In, Goto, Tells, TypeOK
  <2>3. QED
    BY <2>1, <2>2, GotoMoves, ControlKept
<1>17. ASSUME Again PROVE ControlOK'
  <2>1. PICK to \in {"look", "gone"} : Goto(Flusher, "again", to)
    BY <1>17 DEF Again
  <2>2. Tells(Flusher, "again", to)
    BY <1>17, <2>1 DEF Again, LockPC, CopyPC, In, PC, Goto, Tells, TypeOK
  <2>3. QED
    BY <2>1, <2>2, GotoMoves, ControlKept DEF PC
<1>18. ASSUME NEW w \in Writers, WriterTake(w) PROVE ControlOK'
  <2>1. /\ Goto(w, "idle", "write") /\ "write" \in WriterPC
        /\ UNCHANGED <<mutex, memlock, running, stopped>>
    BY <1>18 DEF WriterTake, WriterPC
  <2>2. QED
    BY <1>18, <2>1, WriterControl DEF WriterTake
<1>19. ASSUME NEW w \in Writers, WriterWrite(w) PROVE ControlOK'
  <2>1. /\ Goto(w, "write", "save") /\ "save" \in WriterPC
        /\ UNCHANGED <<mutex, memlock, running, stopped>>
    BY <1>19 DEF WriterWrite, WriterPC
  <2>2. QED
    BY <2>1, WriterControl
<1>20. ASSUME NEW w \in Writers, WriterSave(w) PROVE ControlOK'
  <2>1. /\ Goto(w, "save", "idle") /\ "idle" \in WriterPC
        /\ UNCHANGED <<mutex, memlock, running, stopped>>
    BY <1>20 DEF WriterSave, WriterPC
  <2>2. QED
    BY <2>1, WriterControl
<1>21. ASSUME NEW w \in Writers, WriterStop(w) PROVE ControlOK'
  <2>1. /\ Goto(w, "idle", "gone") /\ "gone" \in WriterPC
        /\ UNCHANGED <<mutex, memlock, running, stopped>>
    BY <1>21 DEF WriterStop, WriterPC
  <2>2. QED
    BY <1>21, <2>1, WriterControl DEF WriterStop
<1>22. ASSUME DestroyCall PROVE ControlOK'
  <2>1. Goto(Owner, "idle", "flush") /\ "flush" \in PC /\ "idle" \in PC
    BY <1>22 DEF DestroyCall, PC
  <2>2. Tells(Owner, "idle", "flush")
    BY <1>22, <2>1 DEF DestroyCall, LockPC, CopyPC, In, Goto, Tells, TypeOK
  <2>3. QED
    BY <2>1, <2>2, GotoMoves, ControlKept
<1>23. ASSUME DestroySwap PROVE ControlOK'
  <2>1. /\ pc[Owner] = "swap" /\ pc'[Owner] = "join"
        /\ \A u \in Threads : u # Owner => pc'[u] = pc[u]
    BY <1>23, Moved DEF DestroySwap, PC
  <2>2. \A u \in Appenders : pc'[u] = pc[u]
    BY <2>1
  <2>3. \A u \in Appenders : pc[u] = "idle"
    BY <1>23 DEF PromptStep, Copying
  <2>4. {u \in Appenders : pc'[u] \in CopyPC} = {u \in Appenders : pc[u] \in CopyPC}
    BY <2>2
  <2>5. \A w \in Writers : pc'[w] = pc[w]
    BY <2>1
  <2>6. QED
    BY <1>23, <2>1, <2>2, <2>3, <2>4, <2>5 DEF ControlOK, DestroySwap, LockPC
<1>24. ASSUME DestroyJoin PROVE ControlOK'
  <2>1. /\ pc[Owner] = "join" /\ pc'[Owner] = "stopq"
        /\ \A u \in Threads : u # Owner => pc'[u] = pc[u]
    BY <1>24, Moved DEF DestroyJoin, PC
  <2>2. \A u \in Appenders : pc'[u] = pc[u]
    BY <2>1
  <2>3. {u \in Appenders : pc'[u] \in CopyPC} = {u \in Appenders : pc[u] \in CopyPC}
    BY <2>2
  <2>4. \A w \in Writers : pc'[w] = pc[w]
    BY <2>1
  <2>5. QED
    BY <1>24, <2>1, <2>2, <2>3, <2>4 DEF ControlOK, DestroyJoin, LockPC
<1>25. ASSUME DestroyFree PROVE ControlOK'
  <2>1. /\ pc[Owner] = "stopq" /\ pc'[Owner] = "gone"
        /\ \A u \in Threads : u # Owner => pc'[u] = pc[u]
    BY <1>25, Moved DEF DestroyFree, PC
  <2>2. \A u \in Appenders : pc'[u] = pc[u]
    BY <2>1
  <2>3. running = 0 /\ mutex = Nobody /\ pc[Flusher] = "gone" /\ \A u \in Appenders : pc[u] = "idle"
    BY <2>1 DEF ControlOK
  <2>4. memlock = 0
    BY <2>3, NobodyCopies DEF ControlOK, Copiers, CountIn, CopyPC
  <2>5. {u \in Appenders : pc'[u] \in CopyPC} = {u \in Appenders : pc[u] \in CopyPC}
    BY <2>2
  <2>6. UNCHANGED <<mutex, memlock, running, stopped>>
    BY <1>25, <2>3, <2>4 DEF DestroyFree
  <2>7. \A w \in Writers : pc'[w] = pc[w]
    BY <2>1
  <2>8. Working' = {}
    BY <1>25, <2>7 DEF DestroyFree, Begun, Working
  <2>9. QED
    BY <2>1, <2>2, <2>3, <2>5, <2>6, <2>7, <2>8 DEF ControlOK, LockPC
<1>26. ASSUME NEW w \in Writers, WriterBegin(w) PROVE ControlOK'
  <2>1. /\ Goto(w, "start", "idle") /\ "idle" \in WriterPC
        /\ UNCHANGED <<mutex, memlock, running, stopped>>
    BY <1>26 DEF WriterBegin, WriterPC
  <2>2. QED
    BY <2>1, WriterControl
<1>27. QED
  BY <1>1, <1>2, <1>3, <1>4, <1>5, <1>6, <1>7, <1>8, <1>9, <1>10, <1>11, <1>12, <1>13, <1>14, <1>15, <1>16, <1>17, <1>18, <1>19, <1>20, <1>21, <1>22, <1>23, <1>24, <1>25, <1>26
     DEF Next, AppendStep, Flush, FlushThread, Process, Destroy

-----------------------------------------------------------------------------
(***************************************************************************)
(* Buffers, chunks and lines: the steps that touch none of them.           *)
(***************************************************************************)
Data == (running = 1 => OneOwner) /\ BuffersOK /\ LinesOK

\* The parts of the invariant.
LEMMA Parts == LogInv <=> TypeOK /\ ControlOK /\ Data
BY DEF LogInv, ChunksOwned, Data

\* What is said of the content of a buffer depends on the chunks alone.
LEMMA SameContent ==
  ASSUME chunks' = chunks
  PROVE  \A b, n : (Sound(b)' <=> Sound(b)) /\ (Holds(b, n)' <=> Holds(b, n))
BY DEF Sound, Holds

\* Steps that touch no buffer, and move nobody to or from a place where one is.
Quiet ==
  /\ UNCHANGED <<buffered, q, qdel, chunks, live, file, lines, handed>>
  /\ running' = 1 => running = 1
  /\ \A t \in Callers : pc'[t] = "recycle" <=> pc[t] = "recycle"
  /\ \A t \in Appenders : (pc'[t] = "copy" <=> pc[t] = "copy")
                           /\ (pc[t] = "copy" => slot'[t] = slot[t])
  /\ \A w \in Writers : ldata'[w] = ldata[w]
  /\ \A w \in Writers :
       (pc'[w] = "write" <=> pc[w] = "write") /\ (pc'[w] = "save" <=> pc[w] = "save")
  /\ OneWriter' => OneWriter
  /\ \A t \in Callers : pc'[t] = "push" =>
       \/ (pc[t] = "push" /\ ldata'[t] = ldata[t])
       \/ (ldata'[t] = buffered /\ buffered.chunk # 0)
  /\ pc[Owner] = "gone" => pc'[Owner] = "gone"

\* Such steps change nothing about the data.
LEMMA DataKept ==
  ASSUME LogInv, Quiet
  PROVE  Data'
<1>0. TypeOK /\ ControlOK /\ Data
  BY Parts
<1>1. HandedOver' <=> HandedOver
  BY DEF Quiet, HandedOver
<1>2. /\ UNCHANGED <<Working, WriterChunks, BufferChunks, Written>>
      /\ \A w \in Working : ldata'[w] = ldata[w]
      /\ Apart => Apart'
      /\ pc'[Writer] = "write" <=> pc[Writer] = "write"
  <2>1. UNCHANGED Working
    BY DEF Quiet, Working
  <2>2. \A w \in Working : ldata'[w] = ldata[w]
    BY DEF Quiet, Working
  <2>3. UNCHANGED WriterChunks /\ (Apart => Apart')
    BY <2>1, <2>2 DEF WriterChunks, Apart
  <2>4. UNCHANGED <<BufferChunks, Written>> /\ (pc'[Writer] = "write" <=> pc[Writer] = "write")
    BY <1>1, Kinds DEF Quiet, BufferChunks, Written
  <2>5. QED
    BY <2>1, <2>2, <2>3, <2>4
<1>3. \A b, n : (Sound(b)' <=> Sound(b)) /\ (Holds(b, n)' <=> Holds(b, n))
  BY SameContent DEF Quiet
<1>4. running' = 1 => OneOwner'
  BY <1>0, <1>2 DEF Quiet, Data, OneOwner, EachOnce, QueueChunks
<1>5. BuffersOK'
  <2>1. \A w \in Working' : Sound(ldata[w])' /\ ldata'[w].chunk # 0
    <3> SUFFICES ASSUME NEW w \in Working PROVE Sound(ldata[w])' /\ ldata'[w].chunk # 0
      BY <1>2
    <3>1. Sound(ldata[w]) /\ ldata[w].chunk # 0 /\ ldata'[w] = ldata[w]
      BY <1>0, <1>2 DEF Data, BuffersOK
    <3>2. QED
      BY <3>1 DEF Quiet, Sound
  <2>2. QED
    BY <1>0, <1>3, <2>1 DEF Quiet, Data, BuffersOK
<1>6. LinesOK'
  <2>1. handed' <= lines'
    BY <1>0 DEF Quiet, Data, LinesOK
  <2>2. ASSUME pc'[Owner] # "gone" PROVE BufferedOK'
    <3>1. BufferedOK
      BY <1>0, <2>2 DEF Quiet, Data, LinesOK
    <3>2. QED
      BY <1>1, <3>1 DEF Quiet, BufferedOK
  <2>3. ASSUME OneWriter' PROVE OrderOK'
    <3>0. OrderOK
      BY <1>0, <2>3 DEF Quiet, Data, LinesOK
    <3>1. FileInOrder' /\ Len(file') <= handed'
      BY <3>0 DEF Quiet, OrderOK, FileInOrder
    <3>2. pc'[Writer] = "write" => Holds(ldata[Writer], Len(file))'
      <4> SUFFICES ASSUME pc'[Writer] = "write" PROVE Holds(ldata[Writer], Len(file))'
        OBVIOUS
      <4>1. Holds(ldata[Writer], Len(file)) /\ ldata'[Writer] = ldata[Writer]
        BY <1>2, <3>0, Kinds DEF Quiet, OrderOK
      <4>2. QED
        BY <4>1 DEF Quiet, Holds
    <3>3. ASSUME pc'[Owner] # "gone"
          PROVE  (\E before \in [1 .. Len(q) + 1 -> 0 .. handed] : Counted(before))'
      <4>1. PICK before \in [1 .. Len(q) + 1 -> 0 .. handed] : Counted(before)
        BY <3>0, <3>3 DEF Quiet, OrderOK
      <4>2. Counted(before)'
        BY <1>2, <1>3, <4>1 DEF Quiet, Counted
      <4>3. QED
        BY <4>1, <4>2 DEF Quiet
    <3>4. QED
      BY <3>1, <3>2, <3>3 DEF OrderOK
  <2>4. QED
    BY <2>1, <2>2, <2>3 DEF LinesOK
<1>7. QED
  BY <1>4, <1>5, <1>6 DEF Data

\* A caller moves, and touches no buffer.
LEMMA QuietMove ==
  ASSUME TypeOK, NEW t \in Callers, NEW from \in PC, NEW to \in PC, Goto(t, from, to),
         from \notin {"recycle", "copy", "gone"}, to \notin {"recycle", "copy"},
         UNCHANGED <<buffered, q, qdel, chunks, live, file, lines, handed>>,
         \A u \in Appenders : u # t => slot'[u] = slot[u],
         running' \in {0, running}, \A u \in Threads : u # t => ldata'[u] = ldata[u],
         to = "push" => ldata'[t] = buffered /\ buffered.chunk # 0
  PROVE  Quiet
<1>1. pc[t] = from /\ pc'[t] = to /\ \A u \in Threads : u # t => pc'[u] = pc[u]
  BY Moved, Kinds
<1>2. \A u \in Callers : u \in Threads /\ u \notin Writers
  BY Kinds
<1>3. /\ \A u \in Callers : pc'[u] = "recycle" <=> pc[u] = "recycle"
      /\ \A u \in Appenders : (pc'[u] = "copy" <=> pc[u] = "copy")
                               /\ (pc[u] = "copy" => slot'[u] = slot[u])
      /\ pc[Owner] = "gone" => pc'[Owner] = "gone"
  BY <1>1, <1>2, Kinds
<1>4. /\ \A w \in Writers : ldata'[w] = ldata[w] /\ pc'[w] = pc[w]
      /\ OneWriter' => OneWriter
  BY <1>1, <1>2, Kinds DEF OneWriter
<1>5. \A u \in Callers : pc'[u] = "push" =>
        \/ (pc[u] = "push" /\ ldata'[u] = ldata[u])
        \/ (ldata'[u] = buffered /\ buffered.chunk # 0)
  BY <1>1, <1>2
<1>6. /\ UNCHANGED <<buffered, q, qdel, chunks, live, file, lines, handed>>
      /\ running' = 1 => running = 1
  OBVIOUS
<1>7. QED
  BY <1>3, <1>4, <1>5, <1>6 DEF Quiet

-----------------------------------------------------------------------------
(***************************************************************************)
(* Queues of buffers.                                                      *)
(***************************************************************************)
\* One more buffer in a queue.
LEMMA QueueAppended ==
  ASSUME NEW S, NEW s \in Seq(S), NEW b
  PROVE  /\ Len(Append(s, b)) = Len(s) + 1 /\ Append(s, b)[Len(s) + 1] = b
         /\ \A i \in 1 .. Len(s) : Append(s, b)[i] = s[i]
         /\ QueueChunks(Append(s, b)) = QueueChunks(s) \union {b.chunk}
         /\ EachOnce(s) /\ b.chunk \notin QueueChunks(s) => EachOnce(Append(s, b))
<1> DEFINE new == Append(s, b)
<1>1. /\ Len(s) \in Nat /\ Len(new) = Len(s) + 1 /\ new[Len(s) + 1] = b
      /\ \A i \in 1 .. Len(s) : new[i] = s[i]
      /\ DOMAIN new = 1 .. Len(s) + 1 /\ DOMAIN s = 1 .. Len(s)
  OBVIOUS
<1> HIDE DEF new
<1>2. QueueChunks(new) = QueueChunks(s) \union {b.chunk}
  <2>1. \A x : x \in QueueChunks(new) <=> \E i \in 1 .. Len(s) + 1 : x = new[i].chunk
    BY <1>1 DEF QueueChunks
  <2>2. \A x : x \in QueueChunks(s) <=> \E i \in 1 .. Len(s) : x = s[i].chunk
    BY <1>1 DEF QueueChunks
  <2>3. \A x : x \in QueueChunks(new) <=> x \in QueueChunks(s) \/ x = b.chunk
    BY <1>1, <2>1, <2>2
  <2>4. QED
    BY <2>3
<1>3. ASSUME EachOnce(s), b.chunk \notin QueueChunks(s) PROVE EachOnce(new)
  <2>1. \A i \in 1 .. Len(s) : s[i].chunk # b.chunk
    BY <1>1, <1>3 DEF QueueChunks
  <2>2. QED
    BY <1>1, <1>3, <2>1 DEF EachOnce
<1>4. QED
  BY <1>1, <1>2, <1>3 DEF new

\* One buffer less in a queue.
LEMMA QueueTaken ==
  ASSUME NEW S, NEW s \in Seq(S), s # <<>>
  PROVE  /\ Len(s) \in Nat \ {0} /\ Len(Tail(s)) = Len(s) - 1 /\ Head(s) = s[1]
         /\ \A i \in 1 .. Len(s) - 1 : Tail(s)[i] = s[i + 1]
         /\ QueueChunks(s) = QueueChunks(Tail(s)) \union {Head(s).chunk}
         /\ EachOnce(s) => EachOnce(Tail(s)) /\ Head(s).chunk \notin QueueChunks(Tail(s))
<1> DEFINE new == Tail(s)
<1>1. /\ Len(s) \in Nat \ {0} /\ Len(new) = Len(s) - 1 /\ Head(s) = s[1]
      /\ \A i \in 1 .. Len(s) - 1 : new[i] = s[i + 1]
      /\ DOMAIN new = 1 .. Len(s) - 1 /\ DOMAIN s = 1 .. Len(s)
  OBVIOUS
<1> HIDE DEF new
<1>2. \A i \in 2 .. Len(s) : i - 1 \in 1 .. Len(s) - 1 /\ new[i - 1] = s[i]
  BY <1>1
<1>3. QueueChunks(s) = QueueChunks(new) \union {Head(s).chunk}
  <2>1. \A x : x \in QueueChunks(s) <=> \E i \in 1 .. Len(s) : x = s[i].chunk
    BY <1>1 DEF QueueChunks
  <2>2. \A x : x \in QueueChunks(new) <=> \E i \in 1 .. Len(s) - 1 : x = new[i].chunk
    BY <1>1 DEF QueueChunks
  <2>3. \A x \in QueueChunks(s) : x \in QueueChunks(new) \/ x = Head(s).chunk
    <3> TAKE x \in QueueChunks(s)
    <3>1. PICK i \in 1 .. Len(s) : x = s[i].chunk
      BY <2>1
    <3>2. CASE i = 1
      BY <1>1, <3>1, <3>2
    <3>3. CASE i # 1
      BY <1>2, <2>2, <3>1, <3>3
    <3>4. QED
      BY <3>2, <3>3
  <2>4. \A x \in QueueChunks(new) : x \in QueueChunks(s)
    BY <1>1, <2>1, <2>2
  <2>5. Head(s).chunk \in QueueChunks(s)
    BY <1>1, <2>1
  <2>6. QED
    BY <2>3, <2>4, <2>5
<1>4. ASSUME EachOnce(s) PROVE EachOnce(new) /\ Head(s).chunk \notin QueueChunks(new)
  <2>1. \A i, j \in 1 .. Len(s) : s[i].chunk = s[j].chunk => i = j
    BY <1>1, <1>4 DEF EachOnce
  <2>2. EachOnce(new)
    <3> SUFFICES ASSUME NEW i \in 1 .. Len(s) - 1, NEW j \in 1 .. Len(s) - 1,
                        new[i].chunk = new[j].chunk
                 PROVE  i = j
      BY <1>1 DEF EachOnce
    <3>1. i + 1 \in 1 .. Len(s) /\ j + 1 \in 1 .. Len(s) /\ s[i + 1].chunk = s[j + 1].chunk
      BY <1>1
    <3>2. i + 1 = j + 1
      BY <2>1, <3>1
    <3>3. QED
      BY <3>2
  <2>3. Head(s).chunk \notin QueueChunks(new)
    <3> SUFFICES ASSUME NEW i \in 1 .. Len(s) - 1, s[1].chunk = new[i].chunk
                 PROVE  FALSE
      BY <1>1 DEF QueueChunks
    <3>1. i + 1 \in 1 .. Len(s) /\ 1 \in 1 .. Len(s) /\ s[1].chunk = s[i + 1].chunk /\ i + 1 # 1
      BY <1>1
    <3>2. QED
      BY <2>1, <3>1
  <2>4. QED
    BY <2>2, <2>3
<1>5. QED
  BY <1>1, <1>3, <1>4 DEF new

-----------------------------------------------------------------------------
(***************************************************************************)
(* The steps that touch a buffer.                                          *)
(***************************************************************************)
\* A step of a caller moves no writer but from "none" to "start".
WritersKept ==
  /\ UNCHANGED <<Working, WriterChunks, Written>>
  /\ Apart => Apart'
  /\ OneWriter' => OneWriter
  /\ pc'[Writer] = "write" <=> pc[Writer] = "write"

LEMMA WritersRest ==
  ASSUME TypeOK, NEW t \in Callers, NEW from, NEW to, CallerMoves(t, from, to),
         ldata' = ldata, file' = file
  PROVE  WritersKept
<1>1. \A w \in Writers : pc'[w] = pc[w] \/ (pc[w] = "none" /\ pc'[w] = "start")
  BY DEF CallerMoves
<1>2. UNCHANGED Working
  BY <1>1 DEF Working
<1>3. UNCHANGED WriterChunks /\ (Apart => Apart')
  BY <1>2 DEF WriterChunks, Apart
<1>4. pc'[Writer] = "write" <=> pc[Writer] = "write"
  BY <1>1, Kinds
<1>5. UNCHANGED Written
  BY <1>4 DEF Written
<1>6. OneWriter' => OneWriter
  BY <1>1, Kinds DEF OneWriter
<1>7. QED
  BY <1>2, <1>3, <1>4, <1>5, <1>6 DEF WritersKept

\* Such a step leaves what the writers hold as sound as it was.
LEMMA HeldSound ==
  ASSUME TypeOK, BuffersOK, WritersKept, ldata' = ldata,
         \A c \in 1 .. Len(chunks) : Len(chunks'[c]) = Len(chunks[c])
  PROVE  \A w \in Working' : Sound(ldata[w])' /\ ldata'[w].chunk # 0
<1> SUFFICES ASSUME NEW w \in Working PROVE Sound(ldata[w])' /\ ldata'[w].chunk # 0
  BY DEF WritersKept
<1>1. Sound(ldata[w]) /\ ldata[w].chunk # 0 /\ ldata[w] \in Buffers
  BY Kinds DEF BuffersOK, Working, TypeOK
<1>2. ldata[w].chunk \in 1 .. Len(chunks)
  BY <1>1, ChunkNamed
<1>3. QED
  BY <1>1, <1>2 DEF Sound

\* The chunks that are in the queues, and with the writers.
LEMMA ChunksElsewhere ==
  ASSUME TypeOK, BuffersOK
  PROVE  /\ QueueChunks(q) \subseteq 1 .. Len(chunks) /\ QueueChunks(qdel) \subseteq 1 .. Len(chunks)
         /\ WriterChunks \subseteq 1 .. Len(chunks) /\ BufferChunks \subseteq 1 .. Len(chunks)
         /\ Len(chunks) \in Nat
<1>1. Len(chunks) \in Nat
  BY DEF TypeOK
<1>2. ASSUME NEW s \in Seq(Buffers), \A i \in DOMAIN s : s[i].chunk # 0
      PROVE  QueueChunks(s) \subseteq 1 .. Len(chunks)
  <2>1. \A i \in DOMAIN s : s[i] \in Buffers
    OBVIOUS
  <2>2. \A i \in DOMAIN s : s[i].chunk \in 1 .. Len(chunks)
    BY <1>1, <1>2, <2>1 DEF Buffers
  <2>3. QED
    BY <2>2 DEF QueueChunks
<1>3. QueueChunks(q) \subseteq 1 .. Len(chunks) /\ QueueChunks(qdel) \subseteq 1 .. Len(chunks)
  BY <1>2 DEF TypeOK, BuffersOK
<1>4. WriterChunks \subseteq 1 .. Len(chunks)
  <2>1. \A w \in Working : ldata[w] \in Buffers /\ ldata[w].chunk # 0
    BY Kinds DEF TypeOK, BuffersOK, Working
  <2>2. QED
    BY <1>1, <2>1 DEF WriterChunks, Buffers
<1>5. BufferChunks \subseteq 1 .. Len(chunks)
  BY <1>1 DEF BufferChunks, TypeOK, Buffers
<1>6. QED
  BY <1>1, <1>3, <1>4, <1>5

\* Reserving room for a line, in the buffer or in its larger copy.
LEMMA ReserveData ==
  ASSUME LogInv, NEW t \in Appenders, CanReserve(t), NEW buf, Reserve(t, buf),
         buf \in [chunk : Nat, count : Nat, space : Nat], buf.chunk # 0,
         buf.count = buffered.count, buf.count < buf.space, Len(chunks'[buf.chunk]) = buf.space,
         \A c \in 1 .. Len(chunks) : chunks'[c] = chunks[c],
         \A j \in 1 .. buffered.count : chunks'[buf.chunk][j] = chunks[buffered.chunk][j],
         buf.chunk = buffered.chunk \/ \A u \in Appenders : pc[u] # "copy",
         buf.chunk \in BufferChunks \/ buf.chunk \notin 1 .. Len(chunks),
         live' = (live \ BufferChunks) \union {buf.chunk}
  PROVE  Data'
<1>0. TypeOK /\ ControlOK /\ Data /\ BuffersOK /\ LinesOK
  BY Parts DEF Data
<1>1. PICK from \in {"lock", "relock"} : Goto(t, from, "copy")
  BY DEF CanReserve
<1>2. t \in Callers /\ from \in PC /\ "copy" \in PC
  BY Kinds DEF PC
<1>3. pc[t] = from /\ pc'[t] = "copy" /\ \A u \in Threads : u # t => pc'[u] = pc[u]
  BY <1>0, <1>1, <1>2, Moved, Kinds
<1>4. \A u \in Callers : pc[u] \notin LockPC /\ pc'[u] \notin LockPC
  <2>1. \A u \in Callers : pc[u] \notin LockPC
    BY <1>0, Kinds DEF CanReserve, ControlOK
  <2>2. QED
    BY <1>3, <2>1, Kinds DEF LockPC
<1>5. ~HandedOver /\ ~HandedOver'
  BY <1>4 DEF HandedOver, LockPC
<1>6. running = 1 /\ running' = 1
  BY <1>0, <1>1, <1>3 DEF ControlOK, TypeOK, Reserve
<1>7. /\ buffered' = [chunk |-> buf.chunk, count |-> buf.count + 1, space |-> buf.space]
      /\ lines' = lines + 1 /\ UNCHANGED <<q, qdel, file, ldata, handed>>
      /\ slot'[t] = [chunk |-> buf.chunk, index |-> buf.count + 1, line |-> lines + 1]
      /\ \A u \in Appenders : u # t => slot'[u] = slot[u]
  BY <1>0 DEF Reserve, queues, TypeOK
<1>8. WritersKept
  BY <1>0, <1>1, <1>2, <1>7, GotoMoves, WritersRest
<1>9. /\ QueueChunks(q) \subseteq 1 .. Len(chunks) /\ QueueChunks(qdel) \subseteq 1 .. Len(chunks)
      /\ WriterChunks \subseteq 1 .. Len(chunks)
  BY <1>0, ChunksElsewhere
<1>10. BufferChunks' = {buf.chunk}
  BY <1>5, <1>7 DEF BufferChunks
<1>11. OneOwner'
  <2>1. OneOwner
    BY <1>0, <1>6 DEF Data
  <2>2. buf.chunk \notin WriterChunks \union QueueChunks(q) \union QueueChunks(qdel)
    BY <1>9, <2>1 DEF OneOwner
  <2>3. /\ EachOnce(q)' /\ EachOnce(qdel)'
        /\ QueueChunks(q)' = QueueChunks(q) /\ QueueChunks(qdel)' = QueueChunks(qdel)
    BY <1>7, <2>1 DEF OneOwner, EachOnce, QueueChunks
  <2>4. live' = BufferChunks' \union WriterChunks' \union QueueChunks(q)' \union QueueChunks(qdel)'
    BY <1>8, <1>10, <2>1, <2>3 DEF OneOwner, WritersKept
  <2>5. QED
    BY <1>8, <1>10, <2>1, <2>2, <2>3, <2>4 DEF OneOwner, WritersKept
<1>13. \A b \in Buffers : \A n : b.chunk # 0 =>
         (Sound(b)' <=> Sound(b)) /\ (Holds(b, n)' <=> Holds(b, n))
  <2> TAKE b \in Buffers
  <2> TAKE n
  <2> HAVE b.chunk # 0
  <2>1. b.chunk \in 1 .. Len(chunks)
    BY <1>0, ChunkNamed
  <2>2. chunks'[b.chunk] = chunks[b.chunk]
    BY <2>1
  <2>3. QED
    BY <2>2 DEF Sound, Holds
<1>12. ldata[Writer] \in Buffers /\ \A i \in 1 .. Len(q) : q[i] \in Buffers
  BY <1>0, Kinds DEF TypeOK
<1>14. \A i \in DOMAIN qdel : qdel[i] \in Buffers
  BY <1>0 DEF TypeOK
<1>15. BuffersOK'
  <2>1. Sound(buffered)'
    BY <1>7 DEF Sound
  <2>2. DOMAIN q = 1 .. Len(q)
    BY <1>0 DEF TypeOK
  <2>3. \A i \in DOMAIN q : Sound(q[i])' /\ q[i].chunk # 0
    BY <1>0, <1>7, <1>13, <1>12, <2>2 DEF BuffersOK
  <2>4. \A i \in DOMAIN qdel : Sound(qdel[i])' /\ qdel[i].chunk # 0
    BY <1>0, <1>7, <1>13, <1>14 DEF BuffersOK
  <2>5. \A w \in Working' : Sound(ldata[w])' /\ ldata'[w].chunk # 0
    BY <1>0, <1>7, <1>8, HeldSound
  <2>6. \A u \in Callers : pc'[u] # "push"
    BY <1>4 DEF LockPC
  <2>7. QED
    BY <1>7, <2>1, <2>3, <2>4, <2>5, <2>6 DEF BuffersOK
<1>16. LinesOK'
  <2>1. handed' <= lines'
    BY <1>0, <1>7 DEF LinesOK, TypeOK
  <2>3. pc[Owner] # "gone"
    BY <1>0, <1>6 DEF ControlOK
  <2>4. BufferedOK'
    <3>1. BufferedOK
      BY <1>0, <2>3 DEF LinesOK
    <3>2. lines' = handed' + buffered'.count
      <4>1. lines \in Nat /\ handed \in Nat /\ buffered.count \in Nat
        BY <1>0, Zenon DEF TypeOK, Buffers
      <4>2. lines = handed + buffered.count
        BY <1>5, <3>1 DEF BufferedOK
      <4>3. QED
        BY <1>7, <4>1, <4>2
    <3>3. ASSUME NEW j \in 1 .. buffered'.count
          PROVE  \/ chunks'[buffered'.chunk][j] = handed' + j
                 \/ \E u \in Appenders : pc'[u] = "copy" /\ slot'[u].index = j
      <4>1. CASE j = buf.count + 1
        BY <1>3, <1>7, <4>1
      <4>2. CASE j # buf.count + 1
        <5>1. j \in 1 .. buffered.count
          BY <1>7, <4>2
        <5>2. CASE chunks[buffered.chunk][j] = handed + j
          BY <1>7, <5>1, <5>2
        <5>3. CASE \E u \in Appenders : pc[u] = "copy" /\ slot[u].index = j
          <6>1. PICK u \in Appenders : pc[u] = "copy" /\ slot[u].index = j
            BY <5>3
          <6>2. u # t /\ u \in Threads
            BY <1>3, <6>1, Kinds
          <6>3. QED
            BY <1>3, <1>7, <6>1, <6>2
        <5>4. QED
          BY <1>5, <3>1, <5>1, <5>2, <5>3 DEF BufferedOK
      <4>3. QED
        BY <4>1, <4>2
    <3>4. ASSUME NEW u \in Appenders, pc'[u] = "copy"
          PROVE  /\ slot'[u].chunk = buffered'.chunk /\ slot'[u].index \in 1 .. buffered'.count
                 /\ slot'[u].line = handed' + slot'[u].index
      <4>0. buf.count \in Nat /\ handed \in Nat
        BY <1>0, Zenon DEF TypeOK
      <4>1. lines = handed + buf.count
        BY <1>5, <3>1 DEF BufferedOK
      <4>2. CASE u = t
        <5>1. /\ slot'[u].chunk = buf.chunk /\ slot'[u].index = buf.count + 1
              /\ slot'[u].line = lines + 1
          <6>1. slot'[u] = [chunk |-> buf.chunk, index |-> buf.count + 1, line |-> lines + 1]
            BY <1>7, <4>2, Zenon
          <6>2. QED
            BY <6>1
        <5>2. buffered'.chunk = buf.chunk /\ buffered'.count = buf.count + 1
          BY <1>7
        <5>3. handed' = handed
          BY <1>7
        <5>4. QED
          BY <4>0, <4>1, <5>1, <5>2, <5>3
      <4>3. CASE u # t
        <5>1. pc[u] = "copy" /\ slot'[u] = slot[u] /\ buf.chunk = buffered.chunk
          BY <1>3, <1>7, <3>4, <4>3, Kinds
        <5>2. /\ slot[u].chunk = buffered.chunk /\ slot[u].index \in 1 .. buffered.count
              /\ slot[u].line = handed + slot[u].index
          BY <1>5, <3>1, <5>1 DEF BufferedOK
        <5>3. QED
          BY <1>7, <4>0, <4>1, <5>1, <5>2
      <4>4. QED
        BY <4>2, <4>3
    <3>5. QED
      BY <1>5, <3>2, <3>3, <3>4 DEF BufferedOK
  <2>5. ASSUME OneWriter' PROVE OrderOK'
    <3>0. OrderOK
      BY <1>0, <1>8, <2>5 DEF LinesOK, WritersKept
    <3>1. FileInOrder' /\ Len(file') <= handed'
      BY <1>0, <1>7, <3>0 DEF OrderOK, FileInOrder, TypeOK
    <3>2. pc'[Writer] = "write" => Holds(ldata[Writer], Len(file))'
      <4> SUFFICES ASSUME pc'[Writer] = "write" PROVE Holds(ldata[Writer], Len(file))'
        OBVIOUS
      <4>1. Holds(ldata[Writer], Len(file)) /\ ldata[Writer].chunk # 0
        BY <1>0, <1>8, <3>0, Kinds DEF OrderOK, BuffersOK, WritersKept, Working
      <4>2. ldata'[Writer] = ldata[Writer] /\ file' = file
        BY <1>7
      <4>3. chunks'[ldata[Writer].chunk] = chunks[ldata[Writer].chunk]
        <5>1. ldata[Writer].chunk \in 1 .. Len(chunks)
          BY <1>0, <1>12, <4>1, ChunkNamed
        <5>2. QED
          BY <5>1
      <4>4. \A j \in 1 .. ldata[Writer].count : chunks'[ldata[Writer].chunk][j] = Len(file) + j
        BY <4>1, <4>3 DEF Holds
      <4>5. QED
        BY <4>2, <4>4, Zenon DEF Holds
    <3>3. (\E before \in [1 .. Len(q) + 1 -> 0 .. handed] : Counted(before))'
      <4>1. PICK before \in [1 .. Len(q) + 1 -> 0 .. handed] : Counted(before)
        BY <2>3, <3>0 DEF OrderOK
      <4>2. \A i \in 1 .. Len(q) : q[i].chunk # 0
        BY <1>0 DEF BuffersOK, TypeOK
      <4>3. Counted(before)'
        BY <1>7, <1>8, <1>13, <1>12, <4>1, <4>2 DEF Counted, WritersKept
      <4>4. QED
        BY <1>7, <4>1, <4>3
    <3>4. QED
      BY <3>1, <3>2, <3>3 DEF OrderOK
  <2>6. QED
    BY <2>1, <2>4, <2>5 DEF LinesOK
<1>17. QED
  BY <1>11, <1>15, <1>16 DEF Data

\* Nobody is at a place where the buffer is handed over while room is reserved.
LEMMA NotHandedOver ==
  ASSUME TypeOK, ControlOK, mutex = Nobody
  PROVE  ~HandedOver /\ \A u \in Callers : pc[u] \notin LockPC
BY Kinds DEF ControlOK, HandedOver, LockPC

\* A line fits into the buffer.
LEMMA FitsData ==
  ASSUME LogInv, NEW t \in Appenders, AppendFits(t)
  PROVE  Data'
<1>0. TypeOK /\ ControlOK /\ Data /\ BuffersOK
  BY Parts DEF Data
<1>1. CanReserve(t) /\ Reserve(t, buffered) /\ chunks' = chunks /\ live' = live
  BY DEF AppendFits, memory
<1>2. /\ buffered \in [chunk : Nat, count : Nat, space : Nat] /\ buffered.count < buffered.space
      /\ buffered.chunk \in 0 .. Len(chunks)
  BY <1>0 DEF AppendFits, TypeOK, Buffers
<1>3. buffered.chunk # 0 /\ Len(chunks[buffered.chunk]) = buffered.space
  BY <1>0, <1>2 DEF BuffersOK, Sound, None
<1>4. ~HandedOver
  BY <1>0, <1>1, NotHandedOver DEF CanReserve
<1>5. BufferChunks = {buffered.chunk}
  BY <1>3, <1>4 DEF BufferChunks
<1>6. running = 1
  BY <1>0, <1>1, Kinds DEF ControlOK, TypeOK, CanReserve, Goto
<1>7. live' = (live \ BufferChunks) \union {buffered.chunk}
  BY <1>0, <1>1, <1>5, <1>6 DEF Data, OneOwner
<1>8. QED
  BY <1>1, <1>2, <1>3, <1>5, <1>7, ReserveData

\* A line makes the buffer grow, while nobody copies into it.
LEMMA GrowsData ==
  ASSUME LogInv, NEW t \in Appenders, AppendGrows(t), PromptStep
  PROVE  Data'
<1>0. TypeOK /\ ControlOK /\ Data /\ BuffersOK /\ LinesOK
  BY Parts DEF Data
<1>1. /\ CanReserve(t) /\ Reserve(t, Larger)
      /\ live' = (live \ {buffered.chunk}) \union {Larger.chunk}
  BY DEF AppendGrows
<1>2. /\ Len(chunks) \in Nat /\ buffered.chunk \in 0 .. Len(chunks)
      /\ buffered.count \in Nat /\ buffered.space \in Nat
  BY <1>0 DEF TypeOK, Buffers
<1>3. /\ Larger \in [chunk : Nat, count : Nat, space : Nat] /\ Larger.chunk # 0
      /\ Larger.chunk = Len(chunks) + 1 /\ Larger.count = buffered.count
      /\ buffered.space < Larger.space
  BY <1>0, <1>2, LargerType
<1>4. buffered.count <= buffered.space
  BY <1>0, <1>2 DEF BuffersOK, Sound, None
<1>5. /\ Len(chunks') = Len(chunks) + 1 /\ Len(chunks'[Larger.chunk]) = Larger.space
      /\ \A c \in 1 .. Len(chunks) : chunks'[c] = chunks[c]
      /\ \A j \in 1 .. buffered.count : chunks'[Larger.chunk][j] = chunks[buffered.chunk][j]
  <2>1. \A i \in 1 .. buffered.space : chunks'[Larger.chunk][i] = chunks[buffered.chunk][i]
    BY <1>0, ChunkAdded
  <2>2. \A j \in 1 .. buffered.count : j \in 1 .. buffered.space
    BY <1>2, <1>4
  <2>3. /\ Len(chunks') = Len(chunks) + 1 /\ Len(chunks'[Larger.chunk]) = Larger.space
        /\ \A c \in 1 .. Len(chunks) : chunks'[c] = chunks[c]
    BY <1>0, ChunkAdded
  <2>4. QED
    BY <2>1, <2>2, <2>3
<1>6. ~HandedOver /\ running = 1 /\ pc[Owner] # "gone"
  <2>1. running = 1
    BY <1>0, <1>1, Kinds DEF ControlOK, TypeOK, CanReserve, Goto
  <2>2. QED
    BY <1>0, <1>1, <2>1, NotHandedOver DEF CanReserve, ControlOK
<1>7. \A u \in Appenders : pc[u] # "copy"
  <2>1. CASE buffered.chunk = 0
    <3>1. BufferedOK /\ buffered.count = 0
      BY <1>0, <1>6, <2>1 DEF LinesOK, BuffersOK, Sound, None
    <3>2. QED
      BY <1>6, <3>1 DEF BufferedOK
  <2>2. CASE buffered.chunk # 0
    <3>1. memlock = 0
      BY <1>2, <1>5, <2>2 DEF PromptStep, Growing
    <3>2. QED
      BY <1>0, <3>1, NobodyCopies DEF ControlOK, Copiers, CountIn, CopyPC
  <2>3. QED
    BY <2>1, <2>2
<1>8. live' = (live \ BufferChunks) \union {Larger.chunk}
  <2>1. CASE buffered.chunk = 0
    <3>1. 0 \notin live
      BY <1>0 DEF TypeOK
    <3>2. QED
      BY <1>1, <2>1, <3>1 DEF BufferChunks
  <2>2. CASE buffered.chunk # 0
    BY <1>1, <1>6, <2>2 DEF BufferChunks
  <2>3. QED
    BY <2>1, <2>2
<1>9. Larger.chunk \notin 1 .. Len(chunks)
  BY <1>2, <1>3
<1>10. Larger.count < Larger.space
  BY <1>2, <1>3, <1>4
<1> HIDE DEF Larger
<1>11. QED
  BY <1>1, <1>3, <1>5, <1>7, <1>8, <1>9, <1>10, ReserveData

\* The line gets to its place, and nothing else changes.
LEMMA CopyData ==
  ASSUME LogInv, NEW t \in Appenders, AppendCopy(t)
  PROVE  Data'
<1>0. TypeOK /\ ControlOK /\ Data /\ BuffersOK /\ LinesOK
  BY Parts DEF Data
<1> DEFINE c == slot[t].chunk
           k == slot[t].index
<1>1. /\ pc[t] = "copy" /\ pc'[t] = "copied" /\ \A u \in Threads : u # t => pc'[u] = pc[u]
      /\ "copy" \in PC /\ "copied" \in PC /\ t \in Callers
  BY <1>0, Moved, Kinds DEF AppendCopy, PC
<1>2. /\ UNCHANGED <<running, buffered, q, qdel, live, file, slot, ldata, lines, handed>>
      /\ chunks' = [chunks EXCEPT ![c][k] = slot[t].line]
  BY DEF AppendCopy, queues
<1>3. WritersKept
  BY <1>0, <1>1, <1>2, GotoMoves, WritersRest DEF AppendCopy
<1>4. running = 1 /\ memlock # 0 /\ pc[Owner] # "gone" /\ OneOwner
  <2>1. running = 1 /\ memlock # 0
    BY <1>0, <1>1, CopierCounted DEF ControlOK, TypeOK, CopyPC
  <2>2. QED
    BY <1>0, <2>1 DEF ControlOK, Data
<1>5. /\ \A u \in Callers : pc[u] \notin {"push", "recycle"} /\ pc'[u] \notin {"push", "recycle"}
      /\ ~HandedOver /\ ~HandedOver'
  <2>1. \A u \in Callers : pc[u] \notin {"push", "recycle"}
    BY <1>0, <1>4 DEF ControlOK
  <2>2. \A u \in Callers : pc'[u] \notin {"push", "recycle"}
    BY <1>1, <2>1, Kinds
  <2>3. QED
    BY <2>1, <2>2 DEF HandedOver
<1>6. BufferedOK
  BY <1>0, <1>4 DEF LinesOK
<1>7. c = buffered.chunk /\ k \in 1 .. buffered.count /\ slot[t].line = handed + k
  BY <1>1, <1>5, <1>6 DEF BufferedOK
<1>8. /\ buffered.count \in Nat /\ buffered.count <= buffered.space /\ c \in 1 .. Len(chunks)
      /\ Len(chunks[c]) = buffered.space
  <2>1. buffered.count \in Nat /\ buffered.space \in Nat /\ buffered.chunk \in 0 .. Len(chunks)
    BY <1>0 DEF TypeOK, Buffers
  <2>2. QED
    BY <1>0, <1>7, <2>1 DEF BuffersOK, Sound, None
<1>9. /\ chunks'[c][k] = handed + k
      /\ \A j \in 1 .. buffered.count : j # k => chunks'[c][j] = chunks[c][j]
      /\ \A d \in 1 .. Len(chunks) : d # c => chunks'[d] = chunks[d]
  <2>1. chunks \in Seq(Seq(Nat)) /\ chunks[c] \in Seq(Nat) /\ k \in 1 .. Len(chunks[c])
    <3> HIDE DEF c, k
    <3>1. chunks \in Seq(Seq(Nat))
      BY <1>0, Zenon DEF TypeOK
    <3>2. chunks[c] \in Seq(Nat)
      BY <1>8, <3>1
    <3>3. QED
      BY <1>7, <1>8, <3>1, <3>2
  <2>2. chunks' = [chunks EXCEPT ![c] = [chunks[c] EXCEPT ![k] = handed + k]]
    BY <1>2, <1>7, Zenon
  <2> HIDE DEF c, k
  <2>3. chunks'[c] = [chunks[c] EXCEPT ![k] = handed + k]
    BY <1>8, <2>1, <2>2
  <2>4. chunks'[c][k] = handed + k
    BY <2>1, <2>3
  <2>5. \A j \in 1 .. buffered.count : j # k => chunks'[c][j] = chunks[c][j]
    BY <1>8, <2>1, <2>3
  <2>6. \A d \in 1 .. Len(chunks) : d # c => chunks'[d] = chunks[d]
    BY <2>1, <2>2
  <2>7. QED
    BY <2>4, <2>5, <2>6, Zenon
<1>10. /\ Len(chunks') = Len(chunks)
       /\ \A d \in 1 .. Len(chunks) : Len(chunks'[d]) = Len(chunks[d])
  BY <1>0, CopiedInto
<1>11. BufferChunks = {c} /\ BufferChunks' = {c}
  BY <1>2, <1>5, <1>7, <1>8 DEF BufferChunks
<1> HIDE DEF c, k
<1>12. OneOwner'
  BY <1>2, <1>3, <1>4, <1>11 DEF OneOwner, EachOnce, QueueChunks, WritersKept
<1>13. \A b \in Buffers : Sound(b)' <=> Sound(b)
  <2> TAKE b \in Buffers
  <2>1. b.chunk \in 0 .. Len(chunks) /\ Len(chunks) \in Nat
    BY <1>0 DEF Buffers, TypeOK
  <2>2. b.chunk # 0 => Len(chunks'[b.chunk]) = Len(chunks[b.chunk])
    BY <1>10, <2>1
  <2>3. QED
    BY <2>2 DEF Sound
<1>14. /\ ldata[Writer] \in Buffers /\ buffered \in Buffers
       /\ \A i \in DOMAIN q : q[i] \in Buffers
       /\ \A i \in DOMAIN qdel : qdel[i] \in Buffers
  BY <1>0, Kinds DEF TypeOK
<1>15. BuffersOK'
  <2>1. Sound(buffered) /\ \A i \in DOMAIN q : Sound(q[i]) /\ q[i].chunk # 0
    BY <1>0 DEF BuffersOK
  <2>2. \A i \in DOMAIN qdel : Sound(qdel[i]) /\ qdel[i].chunk # 0
    BY <1>0 DEF BuffersOK
  <2>3. Sound(buffered)' /\ \A i \in DOMAIN q : Sound(q[i])' /\ q[i].chunk # 0
    BY <1>2, <1>13, <1>14, <2>1
  <2>4. \A i \in DOMAIN qdel : Sound(qdel[i])' /\ qdel[i].chunk # 0
    BY <1>2, <1>13, <1>14, <2>2
  <2>5. \A w \in Working' : Sound(ldata[w])' /\ ldata'[w].chunk # 0
    BY <1>0, <1>2, <1>3, <1>10, HeldSound
  <2>6. QED
    BY <1>2, <1>5, <2>3, <2>4, <2>5 DEF BuffersOK
<1>16. \A b \in Buffers : \A n : b.chunk \notin {0, c} => (Holds(b, n)' <=> Holds(b, n))
  <2> TAKE b \in Buffers
  <2> TAKE n
  <2> HAVE b.chunk \notin {0, c}
  <2>0. b.chunk \in 1 .. Len(chunks)
    BY <1>0, ChunkNamed
  <2>1. chunks'[b.chunk] = chunks[b.chunk]
    BY <1>9, <2>0
  <2>2. QED
    BY <2>1 DEF Holds
<1>17. LinesOK'
  <2>1. handed' <= lines'
    BY <1>0, <1>2 DEF LinesOK
  <2>2. BufferedOK'
    <3>1. lines' = handed' + buffered'.count
      BY <1>2, <1>5, <1>6 DEF BufferedOK
    <3>2. ASSUME NEW j \in 1 .. buffered.count
          PROVE  \/ chunks'[buffered.chunk][j] = handed + j
                 \/ \E u \in Appenders : pc'[u] = "copy" /\ slot[u].index = j
      <4>1. CASE j = k
        BY <1>7, <1>9, <4>1
      <4>2. CASE j # k /\ chunks[buffered.chunk][j] = handed + j
        BY <1>7, <1>9, <4>2
      <4>3. CASE j # k /\ \E u \in Appenders : pc[u] = "copy" /\ slot[u].index = j
        <5>1. PICK u \in Appenders : pc[u] = "copy" /\ slot[u].index = j
          BY <4>3
        <5>2. u # t /\ u \in Threads
          BY <4>3, <5>1, Kinds DEF k
        <5>3. QED
          BY <1>1, <5>1, <5>2
      <4>4. QED
        BY <1>5, <1>6, <4>1, <4>2, <4>3 DEF BufferedOK
    <3>3. ASSUME NEW u \in Appenders, pc'[u] = "copy"
          PROVE  /\ slot[u].chunk = buffered.chunk /\ slot[u].index \in 1 .. buffered.count
                 /\ slot[u].line = handed + slot[u].index
      <4>1. pc[u] = "copy"
        BY <1>1, <3>3, Kinds
      <4>2. QED
        BY <1>5, <1>6, <4>1 DEF BufferedOK
    <3>4. QED
      BY <1>2, <1>5, <3>1, <3>2, <3>3 DEF BufferedOK
  <2>3. ASSUME OneWriter' PROVE OrderOK'
    <3>0. OrderOK
      BY <1>0, <1>3, <2>3 DEF LinesOK, WritersKept
    <3>1. FileInOrder' /\ Len(file') <= handed'
      BY <1>2, <3>0 DEF OrderOK, FileInOrder
    <3>2. pc'[Writer] = "write" => Holds(ldata[Writer], Len(file))'
      <4> SUFFICES ASSUME pc'[Writer] = "write" PROVE Holds(ldata[Writer], Len(file))'
        OBVIOUS
      <4>1. Holds(ldata[Writer], Len(file)) /\ Writer \in Working
        BY <1>3, <3>0, Kinds DEF OrderOK, WritersKept, Working
      <4>2. ldata[Writer].chunk \notin {0, c}
        BY <1>0, <1>4, <1>11, <4>1 DEF BuffersOK, OneOwner, WriterChunks
      <4>3. chunks'[ldata[Writer].chunk] = chunks[ldata[Writer].chunk]
        <5>1. ldata[Writer].chunk \in 1 .. Len(chunks)
          BY <1>0, <1>14, <4>2, ChunkNamed
        <5>2. QED
          BY <1>9, <4>2, <5>1
      <4>4. QED
        BY <1>2, <4>1, <4>3 DEF Holds
    <3>3. (\E before \in [1 .. Len(q) + 1 -> 0 .. handed] : Counted(before))'
      <4>1. PICK before \in [1 .. Len(q) + 1 -> 0 .. handed] : Counted(before)
        BY <1>4, <3>0 DEF OrderOK
      <4>2. DOMAIN q = 1 .. Len(q)
        BY <1>0 DEF TypeOK
      <4>3. \A i \in 1 .. Len(q) : q[i] \in Buffers /\ q[i].chunk \notin {0, c}
        BY <1>0, <1>4, <1>11, <1>14, <4>2 DEF BuffersOK, OneOwner, QueueChunks
      <4>4. Counted(before)'
        BY <1>2, <1>3, <1>16, <4>1, <4>3 DEF Counted, WritersKept
      <4>5. QED
        BY <1>2, <4>1, <4>4
    <3>4. QED
      BY <3>1, <3>2, <3>3 DEF OrderOK
  <2>4. QED
    BY <2>1, <2>2, <2>3 DEF LinesOK
<1>18. QED
  BY <1>12, <1>15, <1>17 DEF Data

\* The buffer goes into the queue.
LEMMA PushData ==
  ASSUME LogInv, NEW t \in Callers, FlushPush(t)
  PROVE  Data'
<1>0. TypeOK /\ ControlOK /\ Data /\ BuffersOK /\ LinesOK
  BY Parts DEF Data
<1>1. /\ CallerMoves(t, "push", "recycle")
      /\ pc[t] = "push" /\ pc'[t] = "recycle" /\ \A u \in Callers : u # t => pc'[u] = pc[u]
  BY <1>0, PushMoves DEF CallerMoves
<1>2. /\ UNCHANGED <<running, buffered, qdel, chunks, live, file, slot, ldata, lines>>
      /\ q' = Append(q, ldata[t]) /\ handed' = handed + ldata[t].count
  BY DEF FlushPush, memory
<1>3. WritersKept
  BY <1>0, <1>1, <1>2, WritersRest
<1>4. ldata[t] = buffered /\ buffered.chunk # 0 /\ memlock = 0 /\ mutex = t
  BY <1>0, <1>1 DEF BuffersOK, ControlOK, LockPC
<1>5. /\ ~HandedOver /\ HandedOver'
      /\ \A u \in Callers : pc'[u] # "push"
      /\ \A u \in Appenders : pc[u] # "copy" /\ pc'[u] # "copy"
  <2>1. \A u \in Callers : pc[u] \in LockPC => u = t
    BY <1>0, <1>4 DEF ControlOK
  <2>2. \A u \in Appenders : pc[u] # "copy"
    BY <1>0, <1>4, NobodyCopies DEF ControlOK, Copiers, CountIn, CopyPC
  <2>3. QED
    BY <1>1, <2>1, <2>2, Kinds DEF HandedOver, LockPC
<1>6. /\ q \in Seq(Buffers) /\ Len(q) \in Nat /\ Len(q') = Len(q) + 1 /\ q'[Len(q) + 1] = buffered
      /\ \A i \in 1 .. Len(q) : q'[i] = q[i]
      /\ DOMAIN q' = 1 .. Len(q) + 1
      /\ QueueChunks(q)' = QueueChunks(q) \union {buffered.chunk}
      /\ EachOnce(q) /\ buffered.chunk \notin QueueChunks(q) => EachOnce(q)'
  <2>1. q \in Seq(Buffers)
    BY <1>0 DEF TypeOK
  <2>2. QueueChunks(q)' = QueueChunks(Append(q, buffered)) /\ (EachOnce(q)' <=> EachOnce(Append(q, buffered)))
    BY <1>2, <1>4 DEF QueueChunks, EachOnce
  <2>3. DOMAIN q' = 1 .. Len(q) + 1 /\ Len(q) \in Nat
    BY <1>2, <2>1
  <2>4. QED
    BY <1>2, <1>4, <2>1, <2>2, <2>3, QueueAppended
<1>7. BufferChunks = {buffered.chunk} /\ BufferChunks' = {}
  BY <1>4, <1>5 DEF BufferChunks
<1>8. running' = 1 => OneOwner'
  <2> SUFFICES ASSUME running = 1 PROVE OneOwner'
    BY <1>2
  <2>1. OneOwner
    BY <1>0 DEF Data
  <2>2. EachOnce(qdel)' /\ QueueChunks(qdel)' = QueueChunks(qdel)
    BY <1>2, <2>1 DEF OneOwner, EachOnce, QueueChunks
  <2>3. QED
    BY <1>2, <1>3, <1>6, <1>7, <2>1, <2>2 DEF OneOwner, WritersKept
<1>9. \A b, n : (Sound(b)' <=> Sound(b)) /\ (Holds(b, n)' <=> Holds(b, n))
  BY <1>2, SameContent
<1>10. BuffersOK'
  <2>1. \A i \in DOMAIN q' : Sound(q'[i]) /\ q'[i].chunk # 0
    <3>1. \A i \in 1 .. Len(q) : Sound(q[i]) /\ q[i].chunk # 0
      BY <1>0, <1>6 DEF BuffersOK
    <3>2. Sound(buffered)
      BY <1>0 DEF BuffersOK
    <3>3. \A i \in 1 .. Len(q) + 1 : i = Len(q) + 1 \/ i \in 1 .. Len(q)
      BY <1>6
    <3>4. QED
      BY <1>4, <1>6, <3>1, <3>2, <3>3
  <2>2. \A i \in DOMAIN q' : Sound(q[i])' /\ q'[i].chunk # 0
    BY <2>1, <1>2 DEF Sound
  <2>3. Sound(buffered)' /\ \A i \in DOMAIN qdel' : Sound(qdel[i])' /\ qdel'[i].chunk # 0
    BY <1>0, <1>2 DEF BuffersOK, Sound
  <2>4. \A w \in Working' : Sound(ldata[w])' /\ ldata'[w].chunk # 0
    BY <1>0, <1>2, <1>3, HeldSound
  <2>5. QED
    BY <1>5, <2>2, <2>3, <2>4 DEF BuffersOK
<1>11. LinesOK'
  <2>0. buffered.count \in Nat /\ handed \in Nat
    BY <1>0 DEF TypeOK, Buffers
  <2> SUFFICES ASSUME pc[Owner] # "gone" \/ pc'[Owner] = "gone" PROVE LinesOK'
    BY <1>1, Kinds
  <2>1. pc'[Owner] # "gone" /\ pc[Owner] # "gone"
    BY <1>0, <1>1, <1>4, Kinds DEF ControlOK
  <2>2. BufferedOK
    BY <1>0, <2>1 DEF LinesOK
  <2>3. lines = handed + buffered.count /\ Holds(buffered, handed)
    BY <1>5, <2>2 DEF BufferedOK, Holds
  <2>4. handed' = handed + buffered.count /\ handed' \in Nat
    BY <1>2, <1>4, <2>0
  <2>5. BufferedOK'
    BY <1>2, <1>5, <2>3, <2>4 DEF BufferedOK
  <2>6. handed' <= lines'
    BY <1>2, <2>0, <2>3, <2>4
  <2>7. ASSUME OneWriter' PROVE OrderOK /\ (pc'[Writer] = "write" <=> pc[Writer] = "write")
    BY <1>0, <1>3, <2>7 DEF LinesOK, WritersKept
  <2>8. ASSUME OneWriter'
        PROVE  (\E before \in [1 .. Len(q) + 1 -> 0 .. handed] : Counted(before))'
    <3>1. PICK before \in [1 .. Len(q) + 1 -> 0 .. handed] : Counted(before)
      BY <2>1, <2>7, <2>8 DEF OrderOK
    <3>0. PICK after : after = [i \in 1 .. Len(q) + 2 |-> IF i <= Len(q) + 1 THEN before[i] ELSE handed']
      OBVIOUS
    <3>2. after \in [1 .. Len(q') + 1 -> 0 .. handed'] /\ after \in [1 .. Len(q') + 1 -> Nat]
      BY <1>6, <2>0, <2>4, <3>0, <3>1
    <3>3. /\ after[Len(q') + 1] = handed'
          /\ \A i \in 1 .. Len(q) + 1 : after[i] = before[i]
      BY <1>6, <3>0
    <3>4. before[1] = Written /\ before[Len(q) + 1] = handed
      BY <3>1 DEF Counted
    <3>5. ASSUME NEW i \in 1 .. Len(q')
          PROVE  after[i + 1] = after[i] + q'[i].count /\ Holds(q'[i], after[i])
      <4>1. CASE i = Len(q) + 1
        BY <1>6, <2>3, <2>4, <3>3, <3>4, <4>1
      <4>2. CASE i # Len(q) + 1
        <5>1. i \in 1 .. Len(q) /\ i + 1 \in 1 .. Len(q) + 1 /\ i \in 1 .. Len(q) + 1
          BY <1>6, <4>2
        <5>2. before[i + 1] = before[i] + q[i].count /\ Holds(q[i], before[i])
          BY <3>1, <5>1 DEF Counted
        <5>3. QED
          BY <1>6, <3>3, <5>1, <5>2
      <4>3. QED
        BY <4>1, <4>2
    <3>6. after[1] = Written'
      BY <1>3, <1>6, <3>3, <3>4 DEF WritersKept
    <3>7. \A i \in 1 .. Len(q') : Holds(q[i], after[i])'
      BY <1>2, <3>5 DEF Holds
    <3>8. Counted(after)'
      BY <3>2, <3>3, <3>5, <3>6, <3>7 DEF Counted
    <3>9. QED
      BY <3>2, <3>8
  <2>9. ASSUME OneWriter' PROVE OrderOK'
    <3>1. OrderOK /\ (pc'[Writer] = "write" <=> pc[Writer] = "write")
      BY <2>7, <2>9
    <3>2. Len(file') <= handed'
      <4>1. Len(file) <= handed /\ Len(file) \in Nat
        BY <1>0, <3>1 DEF OrderOK, TypeOK
      <4>2. QED
        BY <1>2, <2>0, <2>4, <4>1
    <3>3. FileInOrder' /\ (pc'[Writer] = "write" => Holds(ldata[Writer], Len(file))')
      BY <1>2, <3>1 DEF OrderOK, FileInOrder, Holds
    <3>4. QED
      BY <2>8, <2>9, <3>2, <3>3 DEF OrderOK
  <2>10. QED
    BY <2>5, <2>6, <2>9 DEF LinesOK
<1>12. QED
  BY <1>8, <1>10, <1>11 DEF Data

\* The flush goes on with a buffer of the other queue, or with none.
LEMMA RecycleData ==
  ASSUME LogInv, NEW t \in Callers, FlushRecycle(t)
  PROVE  Data'
<1>0. TypeOK /\ ControlOK /\ Data /\ BuffersOK /\ LinesOK
  BY Parts DEF Data
<1>1. /\ pc[t] = "recycle" /\ pc'[t] = "unlock" /\ \A u \in Threads : u # t => pc'[u] = pc[u]
      /\ "unlock" \in PC /\ "recycle" \in PC
  BY <1>0, Moved, Kinds DEF FlushRecycle, PC
<1>2. UNCHANGED <<running, q, chunks, live, file, slot, ldata, lines, handed>>
  BY DEF FlushRecycle, memory
<1>3. WritersKept
  BY <1>0, <1>1, <1>2, GotoMoves, WritersRest DEF FlushRecycle
<1>4. memlock = 0 /\ mutex = t
  BY <1>0, <1>1 DEF ControlOK, LockPC
<1>5. /\ HandedOver /\ ~HandedOver'
      /\ \A u \in Callers : pc'[u] # "push"
      /\ \A u \in Appenders : pc'[u] # "copy"
  <2>1. \A u \in Callers : pc[u] \in LockPC => u = t
    BY <1>0, <1>4 DEF ControlOK
  <2>2. \A u \in Appenders : pc[u] # "copy"
    BY <1>0, <1>4, NobodyCopies DEF ControlOK, Copiers, CountIn, CopyPC
  <2>3. QED
    BY <1>1, <2>1, <2>2, Kinds DEF HandedOver, LockPC
<1>6. qdel \in Seq(Buffers) /\ DOMAIN qdel = 1 .. Len(qdel)
  BY <1>0 DEF TypeOK
<1>7. /\ buffered'.count = 0 /\ Sound(buffered)'
      /\ \A i \in DOMAIN qdel' : Sound(qdel[i])' /\ qdel'[i].chunk # 0
      /\ EachOnce(qdel) => EachOnce(qdel)'
      /\ EachOnce(qdel) => BufferChunks' \intersect QueueChunks(qdel)' = {}
      /\ QueueChunks(qdel) = QueueChunks(qdel)' \union BufferChunks'
  <2>1. CASE qdel = <<>>
    <3>1. buffered' = None /\ qdel' = qdel
      BY <2>1 DEF FlushRecycle
    <3>2. BufferChunks' = {}
      BY <3>1 DEF BufferChunks, None
    <3>3. buffered'.count = 0 /\ Sound(buffered)'
      BY <3>1 DEF Sound, None
    <3>4. QED
      BY <1>0, <2>1, <3>1, <3>2, <3>3 DEF BuffersOK, QueueChunks, EachOnce
  <2>2. CASE qdel # <<>>
    <3>1. buffered' = [Head(qdel) EXCEPT !.count = 0] /\ qdel' = Tail(qdel)
      BY <2>2 DEF FlushRecycle
    <3>2. /\ Len(qdel) \in Nat \ {0} /\ Head(qdel) = qdel[1]
          /\ DOMAIN qdel' = 1 .. Len(qdel) - 1
          /\ \A i \in 1 .. Len(qdel) - 1 : qdel'[i] = qdel[i + 1]
          /\ QueueChunks(qdel) = QueueChunks(Tail(qdel)) \union {Head(qdel).chunk}
          /\ EachOnce(qdel) => EachOnce(Tail(qdel))
               /\ Head(qdel).chunk \notin QueueChunks(Tail(qdel))
      BY <1>6, <2>2, <3>1, QueueTaken
    <3>3. \A i \in 1 .. Len(qdel) : Sound(qdel[i]) /\ qdel[i].chunk # 0
      BY <1>0, <1>6 DEF BuffersOK
    <3>4. Head(qdel) \in Buffers /\ Sound(Head(qdel)) /\ Head(qdel).chunk # 0
      BY <1>6, <3>2, <3>3
    <3>5. /\ buffered'.count = 0 /\ buffered'.chunk = Head(qdel).chunk
          /\ buffered'.space = Head(qdel).space /\ Head(qdel).space \in Nat
      BY <3>1, <3>4 DEF Buffers
    <3>6. Sound(buffered)'
      BY <1>2, <3>4, <3>5 DEF Sound
    <3>7. BufferChunks' = {Head(qdel).chunk}
      BY <1>5, <3>4, <3>5 DEF BufferChunks
    <3>8. \A i \in DOMAIN qdel' : Sound(qdel'[i]) /\ qdel'[i].chunk # 0
      BY <3>2, <3>3
    <3>9. \A i \in DOMAIN qdel' : Sound(qdel[i])' /\ qdel'[i].chunk # 0
      BY <1>2, <3>8 DEF Sound
    <3>10. QueueChunks(qdel)' = QueueChunks(Tail(qdel)) /\ (EachOnce(qdel)' <=> EachOnce(Tail(qdel)))
      BY <3>1 DEF QueueChunks, EachOnce
    <3>11. QED
      BY <3>2, <3>5, <3>6, <3>7, <3>9, <3>10
  <2>3. QED
    BY <2>1, <2>2
<1>8. BufferChunks = {}
  BY <1>5 DEF BufferChunks
<1>9. running' = 1 => OneOwner'
  <2> SUFFICES ASSUME running = 1 PROVE OneOwner'
    BY <1>2
  <2>1. OneOwner
    BY <1>0 DEF Data
  <2>2. EachOnce(q)' /\ QueueChunks(q)' = QueueChunks(q)
    BY <1>2, <2>1 DEF OneOwner, EachOnce, QueueChunks
  <2>3. QED
    BY <1>2, <1>3, <1>7, <1>8, <2>1, <2>2 DEF OneOwner, WritersKept
<1>10. BuffersOK'
  <2>1. \A i \in DOMAIN q' : Sound(q[i])' /\ q'[i].chunk # 0
    BY <1>0, <1>2 DEF BuffersOK, Sound
  <2>2. \A w \in Working' : Sound(ldata[w])' /\ ldata'[w].chunk # 0
    BY <1>0, <1>2, <1>3, HeldSound
  <2>3. QED
    BY <1>5, <1>7, <2>1, <2>2 DEF BuffersOK
<1>11. LinesOK'
  <2>1. pc'[Owner] # "gone" /\ pc[Owner] # "gone"
    BY <1>0, <1>1, <1>4, Kinds DEF ControlOK
  <2>2. BufferedOK
    BY <1>0, <2>1 DEF LinesOK
  <2>3. BufferedOK'
    <3>1. lines = handed /\ handed \in Nat
      BY <1>0, <1>5, <2>2 DEF BufferedOK, TypeOK
    <3>2. QED
      BY <1>2, <1>5, <1>7, <3>1 DEF BufferedOK
  <2>4. handed' <= lines'
    BY <1>0, <1>2 DEF LinesOK
  <2>5. ASSUME OneWriter' PROVE OrderOK'
    <3>1. OrderOK /\ (pc'[Writer] = "write" <=> pc[Writer] = "write")
      BY <1>0, <1>3, <2>5 DEF LinesOK, WritersKept
    <3>2. /\ FileInOrder' /\ Len(file') <= handed'
          /\ pc'[Writer] = "write" => Holds(ldata[Writer], Len(file))'
      BY <1>2, <3>1 DEF OrderOK, FileInOrder, Holds
    <3>3. PICK before \in [1 .. Len(q) + 1 -> 0 .. handed] : Counted(before)
      BY <2>1, <3>1 DEF OrderOK
    <3>4. \A b, n : Holds(b, n)' <=> Holds(b, n)
      BY <1>2 DEF Holds
    <3>5. Counted(before)'
      BY <1>2, <1>3, <3>3, <3>4 DEF Counted, WritersKept
    <3>6. QED
      BY <1>2, <3>2, <3>3, <3>5 DEF OrderOK
  <2>6. QED
    BY <2>3, <2>4, <2>5 DEF LinesOK
<1>12. QED
  BY <1>9, <1>10, <1>11 DEF Data

\* A step of a writer is none of the callers', and leaves their buffer alone.
LEMMA CallersRest ==
  ASSUME TypeOK, NEW w \in Writers, NEW from \in PC, NEW to \in PC \ {"none"}, Goto(w, from, to),
         UNCHANGED <<buffered, chunks, slot, lines, handed>>,
         \A t \in Callers : ldata'[t] = ldata[t]
  PROVE  /\ pc[w] = from /\ pc'[w] = to /\ \A t \in Callers : pc'[t] = pc[t]
         /\ \A v \in Writers : v # w => pc'[v] = pc[v]
         /\ OneWriter' => OneWriter /\ w = Writer
         /\ UNCHANGED BufferChunks /\ (BufferedOK => BufferedOK')
         /\ \A t \in Callers : (pc[t] = "push" => ldata[t] = buffered /\ buffered.chunk # 0)
              => (pc'[t] = "push" => ldata'[t] = buffered' /\ buffered'.chunk # 0)
<1>1. /\ pc[w] = from /\ pc'[w] = to /\ \A t \in Callers : pc'[t] = pc[t]
      /\ \A t \in Appenders : pc'[t] = pc[t]
      /\ \A v \in Writers : v # w => pc'[v] = pc[v]
  BY Moved, Kinds
<1>2. HandedOver' <=> HandedOver
  BY <1>1 DEF HandedOver
<1>3. UNCHANGED BufferChunks
  BY <1>2 DEF BufferChunks
<1>4. BufferedOK => BufferedOK'
  BY <1>1, <1>2 DEF BufferedOK
<1>5. OneWriter' => OneWriter /\ w = Writer
  BY <1>1, Kinds DEF OneWriter
<1>6. QED
  BY <1>1, <1>3, <1>4, <1>5

\* A writer takes the next buffer.
LEMMA TakeData ==
  ASSUME LogInv, NEW w \in Writers, WriterTake(w)
  PROVE  Data'
<1>0. TypeOK /\ ControlOK /\ Data /\ BuffersOK /\ LinesOK
  BY Parts DEF Data
<1>1. /\ UNCHANGED <<running, buffered, qdel, chunks, live, file, slot, lines, handed>>
      /\ q' = Tail(q) /\ q # <<>> /\ ldata'[w] = Head(q)
      /\ \A t \in Callers : ldata'[t] = ldata[t]
      /\ \A v \in Writers : v # w => ldata'[v] = ldata[v]
  BY <1>0, Kinds DEF WriterTake, memory, TypeOK
<1>2. /\ pc[w] = "idle" /\ pc'[w] = "write" /\ \A t \in Callers : pc'[t] = pc[t]
      /\ \A v \in Writers : v # w => pc'[v] = pc[v]
      /\ OneWriter' => OneWriter /\ w = Writer
      /\ UNCHANGED BufferChunks /\ (BufferedOK => BufferedOK')
      /\ \A t \in Callers : pc'[t] = "push" => ldata'[t] = buffered' /\ buffered'.chunk # 0
  <2>1. Goto(w, "idle", "write") /\ "idle" \in PC /\ "write" \in PC \ {"none"}
    BY DEF WriterTake, PC
  <2>2. \A t \in Callers : pc[t] = "push" => ldata[t] = buffered /\ buffered.chunk # 0
    BY <1>0 DEF BuffersOK
  <2>3. QED
    BY <1>0, <1>1, <2>1, <2>2, CallersRest
<1>3. /\ q \in Seq(Buffers) /\ Len(q) \in Nat \ {0} /\ DOMAIN q = 1 .. Len(q)
      /\ Len(q') = Len(q) - 1 /\ DOMAIN q' = 1 .. Len(q) - 1 /\ Head(q) = q[1]
      /\ \A i \in 1 .. Len(q) - 1 : q'[i] = q[i + 1]
  BY <1>0, <1>1, QueueTaken DEF TypeOK
<1>4. /\ QueueChunks(q) = QueueChunks(q)' \union {Head(q).chunk}
      /\ EachOnce(q) => EachOnce(q)' /\ Head(q).chunk \notin QueueChunks(q)'
  <2>1. QueueChunks(q)' = QueueChunks(Tail(q)) /\ (EachOnce(q)' <=> EachOnce(Tail(q)))
    BY <1>1 DEF QueueChunks, EachOnce
  <2>2. QED
    BY <1>1, <1>3, <2>1, QueueTaken
<1>5. /\ w \notin Working /\ Working' = Working \union {w}
      /\ \A v \in Working : ldata'[v] = ldata[v]
      /\ WriterChunks' = WriterChunks \union {Head(q).chunk}
  <2>1. w \notin Working /\ Working' = Working \union {w}
    BY <1>2 DEF Working
  <2>2. \A v \in Working : ldata'[v] = ldata[v]
    BY <1>1, <2>1 DEF Working
  <2>3. WriterChunks' = WriterChunks \union {Head(q).chunk}
    BY <1>1, <2>1, <2>2 DEF WriterChunks
  <2>4. QED
    BY <2>1, <2>2, <2>3
<1>6. running' = 1 => OneOwner'
  <2> SUFFICES ASSUME running = 1 PROVE OneOwner'
    BY <1>1
  <2>1. OneOwner
    BY <1>0 DEF Data
  <2>2. EachOnce(qdel)' /\ QueueChunks(qdel)' = QueueChunks(qdel)
    BY <1>1, <2>1 DEF OneOwner, EachOnce, QueueChunks
  <2>3. Apart'
    <3>1. Head(q).chunk \notin WriterChunks
      BY <1>4, <2>1 DEF OneOwner
    <3>2. \A v \in Working : ldata'[v].chunk = ldata[v].chunk /\ ldata[v].chunk # Head(q).chunk
      BY <1>5, <3>1 DEF WriterChunks
    <3>3. \A u, v \in Working : ldata[u].chunk = ldata[v].chunk => u = v
      BY <2>1 DEF OneOwner, Apart
    <3>4. QED
      BY <1>1, <1>5, <3>2, <3>3 DEF Apart
  <2>4. QED
    BY <1>1, <1>2, <1>4, <1>5, <2>1, <2>2, <2>3 DEF OneOwner
<1>7. BuffersOK'
  <2>1. \A i \in 1 .. Len(q) : Sound(q[i]) /\ q[i].chunk # 0
    BY <1>0, <1>3 DEF BuffersOK
  <2>2. Sound(Head(q)) /\ Head(q).chunk # 0
    BY <1>3, <2>1
  <2>3. \A i \in DOMAIN q' : Sound(q'[i]) /\ q'[i].chunk # 0
    BY <1>3, <2>1
  <2>4. \A i \in DOMAIN q' : Sound(q[i])' /\ q'[i].chunk # 0
    BY <1>1, <2>3 DEF Sound
  <2>5. Sound(buffered)' /\ \A i \in DOMAIN qdel' : Sound(qdel[i])' /\ qdel'[i].chunk # 0
    BY <1>0, <1>1 DEF BuffersOK, Sound
  <2>6. \A v \in Working' : Sound(ldata[v])' /\ ldata'[v].chunk # 0
    <3>1. \A v \in Working' : Sound(ldata'[v]) /\ ldata'[v].chunk # 0
      BY <1>0, <1>1, <1>5, <2>2 DEF BuffersOK
    <3>2. QED
      BY <1>1, <3>1 DEF Sound
  <2>7. QED
    BY <1>2, <2>4, <2>5, <2>6 DEF BuffersOK
<1>8. pc[Owner] # "gone" /\ handed' <= lines' /\ BufferedOK'
  <2>1. pc[Owner] # "gone"
    BY <1>0 DEF ControlOK, WriterTake
  <2>2. QED
    BY <1>0, <1>1, <1>2, <2>1 DEF LinesOK
<1>9. ASSUME OneWriter' PROVE OrderOK'
  <2>1. w = Writer /\ OrderOK
    BY <1>0, <1>2, <1>9 DEF LinesOK
  <2>2. PICK before \in [1 .. Len(q) + 1 -> 0 .. handed] : Counted(before)
    BY <1>8, <2>1 DEF OrderOK
  <2>3. /\ before[1] = Len(file) /\ before[Len(q) + 1] = handed
        /\ \A i \in 1 .. Len(q) : before[i + 1] = before[i] + q[i].count /\ Holds(q[i], before[i])
    BY <1>2, <2>1, <2>2 DEF Counted, Written
  <2>4. FileInOrder' /\ Len(file') <= handed'
    BY <1>1, <2>1 DEF OrderOK, FileInOrder
  <2>5. Holds(ldata[Writer], Len(file))'
    <3>1. Holds(q[1], Len(file))
      BY <1>3, <2>3
    <3>2. QED
      BY <1>1, <1>3, <2>1, <3>1 DEF Holds
  <2>6. (\E after \in [1 .. Len(q) + 1 -> 0 .. handed] : Counted(after))'
    <3>1. PICK after : after = [i \in 1 .. Len(q) |-> before[i + 1]]
      OBVIOUS
    <3>2. after \in [1 .. Len(q') + 1 -> 0 .. handed'] /\ after \in [1 .. Len(q') + 1 -> Nat]
      <4>1. \A i \in 1 .. Len(q) : before[i + 1] \in 0 .. handed /\ before[i + 1] \in Nat
        BY <1>3, <2>2
      <4>2. Len(q') + 1 = Len(q)
        BY <1>3
      <4>3. QED
        BY <1>1, <3>1, <4>1, <4>2
    <3>3. after[1] = Written' /\ after[Len(q') + 1] = handed'
      <4>1. before[2] = Len(file) + q[1].count
        BY <1>3, <2>3
      <4>2. after[1] = before[2] /\ after[Len(q') + 1] = before[Len(q) + 1]
        BY <1>3, <3>1
      <4>3. QED
        BY <1>1, <1>2, <1>3, <2>1, <2>3, <4>1, <4>2 DEF Written
    <3>4. ASSUME NEW i \in 1 .. Len(q')
          PROVE  after[i + 1] = after[i] + q'[i].count /\ Holds(q'[i], after[i])
      <4>1. i \in 1 .. Len(q) - 1 /\ i + 1 \in 1 .. Len(q) /\ i \in 1 .. Len(q)
        BY <1>3
      <4>2. after[i] = before[i + 1] /\ after[i + 1] = before[i + 1 + 1] /\ q'[i] = q[i + 1]
        BY <1>3, <3>1, <4>1
      <4>3. QED
        BY <2>3, <4>1, <4>2
    <3>5. \A i \in 1 .. Len(q') : Holds(q[i], after[i])'
      BY <1>1, <3>4 DEF Holds
    <3>6. Counted(after)'
      BY <3>2, <3>3, <3>4, <3>5 DEF Counted
    <3>7. QED
      BY <3>2, <3>6
  <2>7. QED
    BY <2>4, <2>5, <2>6 DEF OrderOK
<1>10. QED
  BY <1>6, <1>7, <1>8, <1>9 DEF Data, LinesOK

\* A writer appends the lines of its buffer to the file.
LEMMA WriteData ==
  ASSUME LogInv, NEW w \in Writers, WriterWrite(w)
  PROVE  Data'
<1>0. TypeOK /\ ControlOK /\ Data /\ BuffersOK /\ LinesOK
  BY Parts DEF Data
<1> DEFINE b == ldata[w]
           s == SubSeq(chunks[b.chunk], 1, b.count)
<1>1. /\ UNCHANGED <<running, buffered, q, qdel, chunks, live, slot, ldata, lines, handed>>
      /\ file' = file \o s
  BY DEF WriterWrite, memory, queues
<1>2. /\ pc[w] = "write" /\ pc'[w] = "save" /\ \A t \in Callers : pc'[t] = pc[t]
      /\ \A v \in Writers : v # w => pc'[v] = pc[v]
      /\ OneWriter' => OneWriter /\ w = Writer
      /\ UNCHANGED BufferChunks /\ (BufferedOK => BufferedOK')
      /\ \A t \in Callers : pc'[t] = "push" => ldata'[t] = buffered' /\ buffered'.chunk # 0
  <2>1. Goto(w, "write", "save") /\ "save" \in PC \ {"none"} /\ "write" \in PC
    BY DEF WriterWrite, PC
  <2>2. \A t \in Callers : pc[t] = "push" => ldata[t] = buffered /\ buffered.chunk # 0
    BY <1>0 DEF BuffersOK
  <2>3. QED
    BY <1>0, <1>1, <2>1, <2>2, CallersRest
<1>3. /\ b.count \in Nat /\ s \in Seq(Nat) /\ Len(s) = b.count
      /\ \A j \in 1 .. b.count : s[j] = chunks[b.chunk][j]
  BY <1>0, <1>2, WrittenLines
<1>4. file \in Seq(Nat) /\ Len(file) \in Nat /\ lines \in Nat /\ handed \in Nat
  BY <1>0 DEF TypeOK
<1>6. pc[Owner] # "gone"
  BY <1>0, <1>2 DEF ControlOK, Working
<1>7. Working' = Working /\ UNCHANGED WriterChunks /\ (Apart => Apart')
  <2>1. Working' = Working
    BY <1>2 DEF Working
  <2>2. QED
    BY <1>1, <2>1 DEF WriterChunks, Apart
<1> HIDE DEF s
<1>8. /\ Len(file') = Len(file) + b.count
      /\ \A i \in 1 .. Len(file) + b.count :
           file'[i] = IF i <= Len(file) THEN file[i] ELSE s[i - Len(file)]
  <2>1. /\ Len(file \o s) = Len(file) + Len(s)
        /\ \A i \in 1 .. Len(file) + Len(s) :
             (file \o s)[i] = IF i <= Len(file) THEN file[i] ELSE s[i - Len(file)]
    BY <1>3, <1>4, ConcatProperties
  <2>2. file' = file \o s /\ Len(s) = b.count
    BY <1>1, <1>3
  <2> HIDE DEF b
  <2>3. QED
    BY <2>1, <2>2
<1>9. \A d, n : (Sound(d)' <=> Sound(d)) /\ (Holds(d, n)' <=> Holds(d, n))
  BY <1>1, SameContent
<1>10. ASSUME OneWriter' PROVE OrderOK'
  <2>1. w = Writer /\ OrderOK /\ handed <= lines
    BY <1>0, <1>2, <1>10 DEF LinesOK
  <2>2. PICK before \in [1 .. Len(q) + 1 -> 0 .. handed] : Counted(before)
    BY <1>6, <2>1 DEF OrderOK
  <2>3. \A j \in 1 .. b.count : s[j] = Len(file) + j
    BY <1>2, <1>3, <2>1 DEF OrderOK, Holds
  <2>4. Written = Len(file) + b.count /\ Written' = Written
    BY <1>2, <1>8, <2>1 DEF Written
  <2>5. Len(file') <= handed' /\ Len(file') <= lines'
    <3>1. 1 \in 1 .. Len(q) + 1
      BY <1>0 DEF TypeOK
    <3>2. Written \in 0 .. handed
      BY <2>2, <3>1 DEF Counted
    <3>3. QED
      BY <1>1, <1>3, <1>4, <1>8, <2>1, <2>4, <3>2
  <2>6. ASSUME NEW i \in 1 .. Len(file') PROVE file'[i] = i
    <3>1. i \in 1 .. Len(file) + b.count
      BY <1>8
    <3>2. CASE i <= Len(file)
      <4>1. i \in 1 .. Len(file) /\ file'[i] = file[i]
        BY <1>4, <1>8, <3>1, <3>2
      <4>2. QED
        BY <2>1, <4>1 DEF OrderOK, FileInOrder
    <3>3. CASE ~(i <= Len(file))
      <4>1. i - Len(file) \in 1 .. b.count /\ file'[i] = s[i - Len(file)]
        BY <1>3, <1>4, <1>8, <3>1, <3>3
      <4>2. s[i - Len(file)] = Len(file) + (i - Len(file))
        BY <2>3, <4>1
      <4>3. QED
        BY <1>3, <1>4, <3>1, <4>1, <4>2
    <3>4. QED
      BY <3>2, <3>3
  <2>7. Counted(before)'
    BY <1>1, <1>9, <2>2, <2>4 DEF Counted
  <2>8. (\E x \in [1 .. Len(q) + 1 -> 0 .. handed] : Counted(x))'
    BY <1>1, <2>2, <2>7
  <2>9. FileInOrder' /\ pc'[Writer] # "write"
    BY <1>2, <2>1, <2>5, <2>6 DEF FileInOrder
  <2>10. QED
    BY <2>5, <2>8, <2>9 DEF OrderOK
<1>11. running' = 1 => OneOwner'
  <2> SUFFICES ASSUME running = 1 PROVE OneOwner'
    BY <1>1
  <2>1. OneOwner
    BY <1>0 DEF Data
  <2>2. /\ EachOnce(q)' /\ EachOnce(qdel)'
        /\ QueueChunks(q)' = QueueChunks(q) /\ QueueChunks(qdel)' = QueueChunks(qdel)
    BY <1>1, <2>1 DEF OneOwner, EachOnce, QueueChunks
  <2>3. QED
    BY <1>1, <1>2, <1>7, <2>1, <2>2 DEF OneOwner
<1>12. BuffersOK'
  BY <1>0, <1>1, <1>2, <1>7, <1>9 DEF BuffersOK
<1>13. LinesOK'
  BY <1>0, <1>1, <1>2, <1>6, <1>10 DEF LinesOK
<1>14. QED
  BY <1>11, <1>12, <1>13 DEF Data

\* A writer gives its buffer back, or frees it.
LEMMA SaveData ==
  ASSUME LogInv, NEW w \in Writers, WriterSave(w)
  PROVE  Data'
<1>0. TypeOK /\ ControlOK /\ Data /\ BuffersOK /\ LinesOK
  BY Parts DEF Data
<1> DEFINE b == ldata[w]
<1>1. /\ UNCHANGED <<running, buffered, q, chunks, file, slot, lines, handed>>
      /\ \A t \in Callers : ldata'[t] = ldata[t]
      /\ \A v \in Writers : v # w => ldata'[v] = ldata[v]
  BY <1>0, Kinds DEF WriterSave, TypeOK
<1>2. /\ pc[w] = "save" /\ pc'[w] = "idle" /\ \A t \in Callers : pc'[t] = pc[t]
      /\ \A v \in Writers : v # w => pc'[v] = pc[v]
      /\ OneWriter' => OneWriter /\ w = Writer
      /\ UNCHANGED BufferChunks /\ (BufferedOK => BufferedOK')
      /\ \A t \in Callers : pc'[t] = "push" => ldata'[t] = buffered' /\ buffered'.chunk # 0
  <2>1. Goto(w, "save", "idle") /\ "save" \in PC /\ "idle" \in PC \ {"none"}
    BY DEF WriterSave, PC
  <2>2. \A t \in Callers : pc[t] = "push" => ldata[t] = buffered /\ buffered.chunk # 0
    BY <1>0 DEF BuffersOK
  <2>3. QED
    BY <1>0, <1>1, <2>1, <2>2, CallersRest
<1>3. /\ w \in Working /\ Working' = Working \ {w}
      /\ \A v \in Working' : v \in Working /\ ldata'[v] = ldata[v]
      /\ b.chunk \in WriterChunks /\ (Apart => Apart' /\ WriterChunks' = WriterChunks \ {b.chunk})
  <2>1. w \in Working /\ Working' = Working \ {w}
    BY <1>2 DEF Working
  <2>2. \A v \in Working' : v \in Working /\ ldata'[v] = ldata[v]
    BY <1>1, <2>1 DEF Working
  <2>3. b.chunk \in WriterChunks
    BY <2>1 DEF WriterChunks
  <2>4. ASSUME Apart PROVE Apart' /\ WriterChunks' = WriterChunks \ {b.chunk}
    <3>1. \A u, v \in Working : ldata[u].chunk = ldata[v].chunk => u = v
      BY <2>4 DEF Apart
    <3>2. Apart'
      BY <2>1, <2>2, <3>1 DEF Apart
    <3>3. WriterChunks' = WriterChunks \ {b.chunk}
      BY <2>1, <2>2, <3>1 DEF WriterChunks
    <3>4. QED
      BY <3>2, <3>3
  <2>5. QED
    BY <2>1, <2>2, <2>3, <2>4
<1>4. Sound(b) /\ b.chunk # 0 /\ qdel \in Seq(Buffers)
  BY <1>0, <1>3 DEF BuffersOK, TypeOK
<1>5. \/ running = 1 /\ qdel' = Append(qdel, b) /\ live' = live
      \/ running = 1 /\ qdel' = qdel /\ live' = live \ {b.chunk}
      \/ running = 0 /\ qdel' = qdel /\ live' = live
  BY <1>0 DEF WriterSave, TypeOK
<1>6. ASSUME qdel' = Append(qdel, b)
      PROVE  /\ QueueChunks(qdel)' = QueueChunks(qdel) \union {b.chunk}
             /\ EachOnce(qdel) /\ b.chunk \notin QueueChunks(qdel) => EachOnce(qdel)'
             /\ \A i \in DOMAIN qdel' : Sound(qdel'[i]) /\ qdel'[i].chunk # 0
  <2>1. /\ Len(qdel) \in Nat /\ DOMAIN qdel = 1 .. Len(qdel) /\ DOMAIN qdel' = 1 .. Len(qdel) + 1
    BY <1>4, <1>6
  <2>2. /\ qdel'[Len(qdel) + 1] = b /\ \A i \in 1 .. Len(qdel) : qdel'[i] = qdel[i]
        /\ QueueChunks(Append(qdel, b)) = QueueChunks(qdel) \union {b.chunk}
        /\ EachOnce(qdel) /\ b.chunk \notin QueueChunks(qdel) => EachOnce(Append(qdel, b))
    BY <1>4, <1>6, QueueAppended
  <2>3. QueueChunks(qdel)' = QueueChunks(Append(qdel, b)) /\ (EachOnce(qdel)' <=> EachOnce(Append(qdel, b)))
    BY <1>6 DEF QueueChunks, EachOnce
  <2>4. \A i \in 1 .. Len(qdel) : Sound(qdel[i]) /\ qdel[i].chunk # 0
    BY <1>0, <2>1 DEF BuffersOK
  <2>5. \A i \in 1 .. Len(qdel) + 1 : i = Len(qdel) + 1 \/ i \in 1 .. Len(qdel)
    BY <2>1
  <2> HIDE DEF b
  <2>6. \A i \in DOMAIN qdel' : Sound(qdel'[i]) /\ qdel'[i].chunk # 0
    BY <1>4, <2>1, <2>2, <2>4, <2>5
  <2>7. QED
    BY <2>2, <2>3, <2>6
<1>7. running' = 1 => OneOwner'
  <2> SUFFICES ASSUME running = 1 PROVE OneOwner'
    BY <1>1
  <2>1. OneOwner
    BY <1>0 DEF Data
  <2>2. EachOnce(q)' /\ QueueChunks(q)' = QueueChunks(q)
    BY <1>1, <2>1 DEF OneOwner, EachOnce, QueueChunks
  <2>3. CASE qdel' = Append(qdel, b) /\ live' = live
    <3>1. /\ QueueChunks(qdel)' = QueueChunks(qdel) \union {b.chunk}
          /\ Apart' /\ WriterChunks' = WriterChunks \ {b.chunk} /\ b.chunk \in WriterChunks
          /\ EachOnce(qdel)'
      BY <1>3, <1>6, <2>1, <2>3 DEF OneOwner
    <3> HIDE DEF b
    <3>2. QED
      BY <1>2, <2>1, <2>2, <2>3, <3>1 DEF OneOwner
  <2>4. CASE qdel' = qdel /\ live' = live \ {b.chunk}
    <3>1. EachOnce(qdel)' /\ QueueChunks(qdel)' = QueueChunks(qdel)
      BY <2>1, <2>4 DEF OneOwner, EachOnce, QueueChunks
    <3>2. Apart' /\ WriterChunks' = WriterChunks \ {b.chunk} /\ b.chunk \in WriterChunks
      BY <1>3, <2>1 DEF OneOwner
    <3> HIDE DEF b
    <3>3. QED
      BY <1>2, <2>1, <2>2, <2>4, <3>1, <3>2 DEF OneOwner
  <2>5. QED
    BY <1>5, <2>3, <2>4
<1>8. \A d, n : (Sound(d)' <=> Sound(d)) /\ (Holds(d, n)' <=> Holds(d, n))
  BY <1>1, SameContent
<1>9. BuffersOK'
  <2>1. \A i \in DOMAIN qdel' : Sound(qdel'[i]) /\ qdel'[i].chunk # 0
    BY <1>0, <1>5, <1>6 DEF BuffersOK
  <2>2. \A i \in DOMAIN qdel' : Sound(qdel[i])' /\ qdel'[i].chunk # 0
    BY <1>1, <2>1 DEF Sound
  <2>3. Sound(buffered)' /\ \A i \in DOMAIN q' : Sound(q[i])' /\ q'[i].chunk # 0
    BY <1>0, <1>1 DEF BuffersOK, Sound
  <2>4. \A v \in Working' : Sound(ldata[v])' /\ ldata'[v].chunk # 0
    <3>1. \A v \in Working' : Sound(ldata'[v]) /\ ldata'[v].chunk # 0
      BY <1>0, <1>3 DEF BuffersOK
    <3>2. QED
      BY <1>1, <3>1 DEF Sound
  <2>5. QED
    BY <1>2, <2>2, <2>3, <2>4 DEF BuffersOK
<1>10. LinesOK'
  <2>1. pc[Owner] # "gone"
    BY <1>0, <1>3 DEF ControlOK
  <2>2. ASSUME OneWriter' PROVE OrderOK'
    <3>1. w = Writer /\ OrderOK
      BY <1>0, <1>2, <2>2 DEF LinesOK
    <3>2. FileInOrder' /\ Len(file') <= handed' /\ pc'[Writer] # "write"
      BY <1>1, <1>2, <3>1 DEF OrderOK, FileInOrder
    <3>3. PICK before \in [1 .. Len(q) + 1 -> 0 .. handed] : Counted(before)
      BY <2>1, <3>1 DEF OrderOK
    <3>4. Written' = Written
      BY <1>1, <1>2, <3>1 DEF Written
    <3>5. Counted(before)'
      BY <1>1, <1>8, <3>3, <3>4 DEF Counted
    <3>6. QED
      BY <1>1, <3>2, <3>3, <3>5 DEF OrderOK
  <2>3. QED
    BY <1>0, <1>1, <1>2, <2>1, <2>2 DEF LinesOK
<1>11. QED
  BY <1>7, <1>9, <1>10 DEF Data

\* At the end there is no buffer left, and the file is as it was.
LEMMA FreeData ==
  ASSUME LogInv, DestroyFree
  PROVE  Data'
<1>0. TypeOK /\ ControlOK /\ Data
  BY Parts
<1>1. /\ UNCHANGED <<running, chunks, file, lines, handed>>
      /\ buffered' = None /\ q' = <<>> /\ qdel' = <<>>
  BY DEF DestroyFree, memory
<1>2. /\ pc[Owner] = "stopq" /\ pc'[Owner] = "gone"
      /\ \A u \in Threads : u # Owner => pc'[u] = pc[u]
      /\ Working' = {} /\ (OneWriter' => OneWriter) /\ pc'[Writer] # "write"
  <2>1. Goto(Owner, "stopq", "gone") /\ "stopq" \in PC /\ "gone" \in PC /\ Begun = {}
    BY DEF DestroyFree, PC
  <2>2. /\ pc[Owner] = "stopq" /\ pc'[Owner] = "gone"
        /\ \A u \in Threads : u # Owner => pc'[u] = pc[u]
    BY <1>0, <2>1, Moved, Kinds
  <2>3. \A w \in Writers : pc'[w] = pc[w] /\ pc[w] \notin {"write", "save"}
    BY <2>1, <2>2, Kinds DEF Begun
  <2>4. QED
    BY <2>2, <2>3, Kinds DEF Working, OneWriter
<1>3. running = 0 /\ mutex = Nobody
  BY <1>0, <1>2 DEF ControlOK
<1>4. \A u \in Callers : pc'[u] # "push"
  BY <1>0, <1>2, <1>3, Kinds, NotHandedOver DEF LockPC
<1>5. BuffersOK'
  BY <1>1, <1>2, <1>4 DEF BuffersOK, Sound, None
<1>6. LinesOK'
  BY <1>0, <1>1, <1>2 DEF Data, LinesOK, OrderOK, FileInOrder
<1>7. QED
  BY <1>1, <1>3, <1>5, <1>6 DEF Data

-----------------------------------------------------------------------------
(***************************************************************************)
(* The invariant.                                                          *)
(***************************************************************************)
\* Every step keeps what is said of buffers, chunks and lines.
LEMMA DataStep ==
  ASSUME LogInv, Next, PromptStep
  PROVE  Data'
<1>0. TypeOK /\ ControlOK
  BY Parts
<1> USE Kinds, <1>0
<1>1. ASSUME NEW t \in Appenders, AppendCall(t) PROVE Data'
  <2>1. PICK to \in {"lock"} : Goto(t, "idle", to)
    BY <1>1 DEF AppendCall
  <2>2. /\ UNCHANGED <<buffered, q, qdel, chunks, live, file, lines, handed, slot>>
        /\ running' \in {0, running} /\ \A u \in Threads : u # t => ldata'[u] = ldata[u]
    BY <1>1 DEF AppendCall, memory, queues, TypeOK
  <2>3. Quiet
    BY <2>1, <2>2, QuietMove DEF PC
  <2>4. QED
    BY <2>3, DataKept
<1>2. ASSUME NEW t \in Appenders, AppendFlush(t) PROVE Data'
  <2>1. PICK to \in {"flush"} : Goto(t, "lock", to)
    BY <1>2 DEF AppendFlush
  <2>2. /\ UNCHANGED <<buffered, q, qdel, chunks, live, file, lines, handed, slot>>
        /\ running' \in {0, running} /\ \A u \in Threads : u # t => ldata'[u] = ldata[u]
    BY <1>2 DEF AppendFlush, memory, queues, TypeOK
  <2>3. Quiet
    BY <2>1, <2>2, QuietMove DEF PC
  <2>4. QED
    BY <2>3, DataKept
<1>3. ASSUME NEW t \in Appenders, AppendCopied(t) PROVE Data'
  <2>1. PICK to \in {"flush", "idle"} : Goto(t, "copied", to)
    BY <1>3 DEF AppendCopied
  <2>2. /\ UNCHANGED <<buffered, q, qdel, chunks, live, file, lines, handed>>
        /\ running' \in {0, running} /\ \A u \in Threads : u # t => ldata'[u] = ldata[u]
        /\ \A u \in Appenders : u # t => slot'[u] = slot[u]
    BY <1>3 DEF AppendCopied, memory, queues, TypeOK
  <2>3. Quiet
    BY <2>1, <2>2, QuietMove DEF PC
  <2>4. QED
    BY <2>3, DataKept
<1>4. ASSUME NEW t \in Appenders, Exit(t) PROVE Data'
  <2>1. PICK to \in {"gone"} : Goto(t, "exit", to)
    BY <1>4 DEF Exit
  <2>2. /\ UNCHANGED <<buffered, q, qdel, chunks, live, file, lines, handed, slot>>
        /\ running' \in {0, running} /\ \A u \in Threads : u # t => ldata'[u] = ldata[u]
    BY <1>4 DEF Exit, memory, queues, TypeOK
  <2>3. Quiet
    BY <2>1, <2>2, QuietMove DEF PC
  <2>4. QED
    BY <2>3, DataKept
<1>5. ASSUME NEW t \in Callers, FlushTest(t) PROVE Data'
  <2>1. PICK to \in {"flushLock", "idle", "relock", "exit", "again", "swap"} : Goto(t, "flush", to)
    BY <1>5 DEF FlushTest, Return, TypeOK
  <2>2. /\ UNCHANGED <<buffered, q, qdel, chunks, live, file, lines, handed, slot>>
        /\ running' \in {0, running} /\ \A u \in Threads : u # t => ldata'[u] = ldata[u]
    BY <1>5 DEF FlushTest, memory, queues, TypeOK
  <2>3. Quiet
    BY <2>1, <2>2, QuietMove DEF PC
  <2>4. QED
    BY <2>3, DataKept
<1>6. ASSUME NEW t \in Callers, FlushLock(t) PROVE Data'
  <2>1. PICK to \in {"spin"} : Goto(t, "flushLock", to)
    BY <1>6 DEF FlushLock
  <2>2. /\ UNCHANGED <<buffered, q, qdel, chunks, live, file, lines, handed, slot>>
        /\ running' \in {0, running} /\ \A u \in Threads : u # t => ldata'[u] = ldata[u]
    BY <1>6 DEF FlushLock, memory, queues, TypeOK
  <2>3. Quiet
    BY <2>1, <2>2, QuietMove DEF PC
  <2>4. QED
    BY <2>3, DataKept
<1>7. ASSUME NEW t \in Callers, FlushSpin(t) PROVE Data'
  <2>1. PICK to \in {"push", "unlock"} : Goto(t, "spin", to) /\ (to = "push" => buffered.count # 0)
    BY <1>7 DEF FlushSpin, TakeBuffer
  <2>2. /\ UNCHANGED <<buffered, q, qdel, chunks, live, file, lines, handed, slot>>
        /\ running' \in {0, running} /\ \A u \in Threads : u # t => ldata'[u] = ldata[u]
        /\ ldata'[t] = buffered
    BY <1>7 DEF FlushSpin, TakeBuffer, memory, queues, TypeOK
  <2>3. buffered.count # 0 => buffered.chunk # 0
    BY Parts DEF Data, BuffersOK, Sound, None
  <2>4. Quiet
    BY <2>1, <2>2, <2>3, QuietMove DEF PC
  <2>5. QED
    BY <2>4, DataKept
<1>8. ASSUME NEW t \in Callers, FlushUnlock(t) PROVE Data'
  <2>1. PICK to \in {"idle", "relock", "exit", "again", "swap"} : Goto(t, "unlock", to)
    BY <1>8 DEF FlushUnlock, Return, TypeOK
  <2>2. /\ UNCHANGED <<buffered, q, qdel, chunks, live, file, lines, handed, slot>>
        /\ running' \in {0, running} /\ \A u \in Threads : u # t => ldata'[u] = ldata[u]
    BY <1>8 DEF FlushUnlock, memory, queues, TypeOK
  <2>3. Quiet
    BY <2>1, <2>2, QuietMove DEF PC
  <2>4. QED
    BY <2>3, DataKept
<1>9. ASSUME Look PROVE Data'
  <2>1. PICK to \in {"sleep"} : Goto(Flusher, "look", to)
    BY <1>9 DEF Look
  <2>2. /\ UNCHANGED <<buffered, q, qdel, chunks, live, file, lines, handed, slot>>
        /\ running' \in {0, running} /\ \A u \in Threads : u # Flusher => ldata'[u] = ldata[u]
    BY <1>9 DEF Look, memory, queues, TypeOK
  <2>3. Quiet
    BY <2>1, <2>2, QuietMove DEF PC
  <2>4. QED
    BY <2>3, DataKept
<1>10. ASSUME WakeFlush PROVE Data'
  <2>1. PICK to \in {"flush"} : Goto(Flusher, "sleep", to)
    BY <1>10 DEF WakeFlush
  <2>2. /\ UNCHANGED <<buffered, q, qdel, chunks, live, file, lines, handed, slot>>
        /\ running' \in {0, running} /\ \A u \in Threads : u # Flusher => ldata'[u] = ldata[u]
    BY <1>10 DEF WakeFlush, memory, queues, TypeOK
  <2>3. Quiet
    BY <2>1, <2>2, QuietMove DEF PC
  <2>4. QED
    BY <2>3, DataKept
<1>11. ASSUME WakeIdle PROVE Data'
  <2>1. PICK to \in {"again"} : Goto(Flusher, "sleep", to)
    BY <1>11 DEF WakeIdle
  <2>2. /\ UNCHANGED <<buffered, q, qdel, chunks, live, file, lines, handed, slot>>
        /\ running' \in {0, running} /\ \A u \in Threads : u # Flusher => ldata'[u] = ldata[u]
    BY <1>11 DEF WakeIdle, memory, queues, TypeOK
  <2>3. Quiet
    BY <2>1, <2>2, QuietMove DEF PC
  <2>4. QED
    BY <2>3, DataKept
<1>12. ASSUME Again PROVE Data'
  <2>1. PICK to \in {"look", "gone"} : Goto(Flusher, "again", to)
    BY <1>12 DEF Again
  <2>2. /\ UNCHANGED <<buffered, q, qdel, chunks, live, file, lines, handed, slot>>
        /\ running' \in {0, running} /\ \A u \in Threads : u # Flusher => ldata'[u] = ldata[u]
    BY <1>12 DEF Again, memory, queues, TypeOK
  <2>3. Quiet
    BY <2>1, <2>2, QuietMove DEF PC
  <2>4. QED
    BY <2>3, DataKept
<1>13. ASSUME DestroyCall PROVE Data'
  <2>1. PICK to \in {"flush"} : Goto(Owner, "idle", to)
    BY <1>13 DEF DestroyCall
  <2>2. /\ UNCHANGED <<buffered, q, qdel, chunks, live, file, lines, handed, slot>>
        /\ running' \in {0, running} /\ \A u \in Threads : u # Owner => ldata'[u] = ldata[u]
    BY <1>13 DEF DestroyCall, memory, queues, TypeOK
  <2>3. Quiet
    BY <2>1, <2>2, QuietMove DEF PC
  <2>4. QED
    BY <2>3, DataKept
<1>14. ASSUME DestroySwap PROVE Data'
  <2>1. PICK to \in {"join"} : Goto(Owner, "swap", to)
    BY <1>14 DEF DestroySwap
  <2>2. /\ UNCHANGED <<buffered, q, qdel, chunks, live, file, lines, handed, slot>>
        /\ running' \in {0, running} /\ \A u \in Threads : u # Owner => ldata'[u] = ldata[u]
    BY <1>14 DEF DestroySwap, memory, queues, TypeOK
  <2>3. Quiet
    BY <2>1, <2>2, QuietMove DEF PC
  <2>4. QED
    BY <2>3, DataKept
<1>15. ASSUME DestroyJoin PROVE Data'
  <2>1. PICK to \in {"stopq"} : Goto(Owner, "join", to)
    BY <1>15 DEF DestroyJoin
  <2>2. /\ UNCHANGED <<buffered, q, qdel, chunks, live, file, lines, handed, slot>>
        /\ running' \in {0, running} /\ \A u \in Threads : u # Owner => ldata'[u] = ldata[u]
    BY <1>15 DEF DestroyJoin, memory, queues, TypeOK
  <2>3. Quiet
    BY <2>1, <2>2, QuietMove DEF PC
  <2>4. QED
    BY <2>3, DataKept
<1>16. ASSUME NEW w \in Writers, WriterStop(w) \/ WriterBegin(w) PROVE Data'
  <2>1. PICK from \in {"idle", "start"}, to \in {"gone", "idle"} : Goto(w, from, to)
    BY <1>16 DEF WriterStop, WriterBegin
  <2>2. pc[w] = from /\ pc'[w] = to /\ \A u \in Threads : u # w => pc'[u] = pc[u]
    BY <2>1, Moved DEF PC
  <2>3. UNCHANGED <<running, buffered, q, qdel, chunks, live, file, lines, handed, slot, ldata>>
    BY <1>16 DEF WriterStop, WriterBegin, memory, queues
  <2>4. \A u \in Callers : pc'[u] = pc[u]
    BY <2>2
  <2>5. \A v \in Writers : /\ pc'[v] = "write" <=> pc[v] = "write"
                           /\ pc'[v] = "save" <=> pc[v] = "save"
                           /\ pc'[v] = "none" => pc[v] = "none"
    BY <2>2
  <2>6. \A u \in Callers : pc[u] = "push" => ldata[u] = buffered /\ buffered.chunk # 0
    BY Parts DEF Data, BuffersOK
  <2>7. Quiet
    BY <2>3, <2>4, <2>5, <2>6 DEF Quiet, OneWriter
  <2>8. QED
    BY <2>7, DataKept
<1>17. ASSUME NEW t \in Appenders, AppendFits(t) PROVE Data'
  BY <1>17, FitsData
<1>18. ASSUME NEW t \in Appenders, AppendGrows(t) PROVE Data'
  BY <1>18, GrowsData
<1>19. ASSUME NEW t \in Appenders, AppendCopy(t) PROVE Data'
  BY <1>19, CopyData
<1>20. ASSUME NEW t \in Callers, FlushPush(t) PROVE Data'
  BY <1>20, PushData
<1>21. ASSUME NEW t \in Callers, FlushRecycle(t) PROVE Data'
  BY <1>21, RecycleData
<1>22. ASSUME NEW w \in Writers, WriterTake(w) PROVE Data'
  BY <1>22, TakeData
<1>23. ASSUME NEW w \in Writers, WriterWrite(w) PROVE Data'
  BY <1>23, WriteData
<1>24. ASSUME NEW w \in Writers, WriterSave(w) PROVE Data'
  BY <1>24, SaveData
<1>25. ASSUME DestroyFree PROVE Data'
  BY <1>25, FreeData
<1>26. ASSUME NEW t \in Callers, Flush(t) PROVE Data'
  BY <1>5, <1>6, <1>7, <1>8, <1>20, <1>21, <1>26 DEF Flush
<1>27. ASSUME NEW t \in Appenders, AppendCall(t) \/ AppendStep(t) PROVE Data'
  BY <1>1, <1>2, <1>3, <1>4, <1>17, <1>18, <1>19, <1>27 DEF AppendStep
<1>28. ASSUME NEW w \in Writers, Process(w) PROVE Data'
  BY <1>16, <1>22, <1>23, <1>24, <1>28 DEF Process
<1>29. ASSUME FlushThread \/ DestroyCall \/ Destroy PROVE Data'
  BY <1>9, <1>10, <1>11, <1>12, <1>13, <1>14, <1>15, <1>25, <1>29 DEF FlushThread, Destroy
<1>30. QED
  BY <1>26, <1>27, <1>28, <1>29 DEF Next

\* At the start there is no buffer and no line.
LEMMA InitInv ==
  ASSUME Init
  PROVE  LogInv
<1>1. TypeOK
  <2>1. chunks = <<>> /\ Len(chunks) = 0 /\ None \in Buffers
    BY DEF Init, Buffers, None
  <2>2. pc \in [Threads -> PC]
    BY DEF Init, PC
  <2>3. /\ back \in [Callers -> {"idle", "relock", "exit", "again", "swap"}]
        /\ slot \in [Appenders -> [chunk : Nat, index : Nat, line : Nat]]
        /\ ldata \in [Threads -> Buffers]
    BY <2>1 DEF Init, NoSlot, Blank
  <2>4. buffered \in Buffers /\ q \in Seq(Buffers) /\ qdel \in Seq(Buffers)
    BY <2>1 DEF Init
  <2>5. /\ chunks \in Seq(Seq(Nat)) /\ live \subseteq 1 .. Len(chunks) /\ file \in Seq(Nat)
        /\ mutex \in Callers \union {Nobody}
    BY <2>1 DEF Init
  <2>6. /\ running \in {0, 1} /\ memlock \in Nat /\ lines \in Nat /\ handed \in Nat /\ seen \in Nat
        /\ stopped \in BOOLEAN /\ exited \in BOOLEAN
    BY DEF Init
  <2>7. QED
    BY <2>2, <2>3, <2>4, <2>5, <2>6 DEF TypeOK
<1>2. /\ \A t \in Callers : pc[t] \in {"idle", "look"}
      /\ \A t \in Appenders : pc[t] = "idle"
      /\ \A w \in Writers : pc[w] = "none"
      /\ pc[Owner] = "idle" /\ Working = {}
  <2>1. \A w \in Writers : w # Flusher
    BY Kinds
  <2>2. \A w \in Writers : pc[w] = "none"
    BY <2>1, Kinds DEF Init
  <2>3. /\ \A t \in Callers : pc[t] \in {"idle", "look"}
        /\ \A t \in Appenders : pc[t] = "idle" /\ pc[Owner] = "idle"
    BY Kinds DEF Init
  <2>4. pc[Owner] = "idle"
    BY Kinds DEF Init
  <2>5. QED
    BY <2>2, <2>3, <2>4 DEF Working
<1>3. ControlOK
  <2>1. Copiers = 0
    BY <1>2, NobodyCopies DEF CopyPC
  <2>2. QED
    BY <1>2, <2>1, Kinds DEF ControlOK, Init, Copiers, CountIn, LockPC, WriterPC
<1>4. ~HandedOver
  BY <1>2 DEF HandedOver
<1>5. running = 1 => OneOwner
  BY <1>2 DEF Init, OneOwner, BufferChunks, WriterChunks, QueueChunks, EachOnce, Apart, None
<1>6. FileInOrder
  BY DEF Init, FileInOrder
<1>7. BuffersOK
  BY <1>2 DEF Init, BuffersOK, Sound, None
<1>8. LinesOK
  <2>1. BufferedOK
    BY <1>2, <1>4 DEF Init, BufferedOK, None
  <2>2. PICK before : before = [i \in 1 .. Len(q) + 1 |-> 0]
    OBVIOUS
  <2>3. q = <<>> /\ Len(q) = 0 /\ handed = 0 /\ Written = 0
    BY <1>2, Kinds DEF Init, Written
  <2>4. before \in [1 .. Len(q) + 1 -> 0 .. handed] /\ Counted(before)
    BY <2>2, <2>3 DEF Counted
  <2>5. OrderOK
    BY <1>2, <1>6, <2>4, Kinds DEF Init, OrderOK
  <2>6. QED
    BY <2>1, <2>5 DEF Init, LinesOK
<1>9. QED
  BY <1>1, <1>3, <1>5, <1>7, <1>8, Parts DEF Data

\* A step that changes nothing.
LEMMA Stutter ==
  ASSUME LogInv, UNCHANGED vars
  PROVE  LogInv'
<1>1. UNCHANGED <<mutex, running, memlock, buffered, q, qdel, chunks, live, file, pc, back, slot,
                  ldata, seen, lines, handed, stopped, exited>>
  BY DEF vars, memory, queues
<1>2. TypeOK /\ ControlOK
  BY Parts
<1>3. TypeOK'
  BY <1>1, <1>2 DEF TypeOK, Buffers
<1>4. ControlOK'
  BY <1>1, <1>2 DEF ControlOK, Working
<1>5. Quiet
  <2>1. \A t \in Callers : pc[t] = "push" => ldata[t] = buffered /\ buffered.chunk # 0
    BY Parts DEF Data, BuffersOK
  <2>2. QED
    BY <1>1, <2>1 DEF Quiet, OneWriter
<1>6. LogInv' <=> TypeOK' /\ ControlOK' /\ Data'
  BY DEF LogInv, ChunksOwned, Data
<1>7. QED
  BY <1>3, <1>4, <1>5, <1>6, DataKept

\* The inductive invariant, whichever number of writers q gets: who holds the
\* mutex, how many lines are being copied, where every chunk is, and which lines
\* are in the buffer; and, as long as q has had one writer, which lines are in
\* which queued buffer and in the file.
THEOREM LogInvariant == PromptSpec => []LogInv
<1>1. Init => LogInv
  BY InitInv
<1>2. LogInv /\ [Next /\ PromptStep]_vars => LogInv'
  <2> SUFFICES ASSUME LogInv, [Next /\ PromptStep]_vars PROVE LogInv'
    OBVIOUS
  <2>1. CASE Next /\ PromptStep
    <3>1. LogInv' <=> TypeOK' /\ ControlOK' /\ Data'
      BY DEF LogInv, ChunksOwned, Data
    <3>2. QED
      BY <2>1, <3>1, TypeStep, ControlStep, DataStep
  <2>2. CASE UNCHANGED vars
    BY <2>2, Stutter
  <2>3. QED
    BY <2>1, <2>2
<1>3. QED
  BY <1>1, <1>2, PTL DEF PromptSpec

\* While every thread begins before the next buffer is handed over, q gets none
\* but its first: it asks for another only when that one has not begun.
LEMMA OneWriterStep ==
  ASSUME LogInv, OneWriter, Next, BegunStep
  PROVE  OneWriter'
<1>0. TypeOK /\ ControlOK
  BY Parts
<1> USE Kinds, <1>0
<1>1. ASSUME NEW t \in Callers, FlushPush(t) PROVE OneWriter'
  <2>1. pc[t] = "push" /\ t \in Threads /\ pc \in [Threads -> PC]
    BY <1>1 DEF FlushPush, TypeOK
  <2>2. CASE pc' = [pc EXCEPT ![t] = "recycle"]
    BY <2>1, <2>2 DEF OneWriter
  <2>3. CASE NeedThread /\ \E w \in Writers :
               New(w) /\ pc' = [pc EXCEPT ![t] = "recycle", ![w] = "start"]
    <3>1. pc[Writer] \in WriterPC /\ pc[Writer] \notin {"idle", "write", "save"}
      BY <2>3 DEF NeedThread, Begun, ControlOK
    <3>2. pc[Writer] # "start"
      BY <1>1 DEF BegunStep
    <3>3. mutex = t
      BY <2>1 DEF ControlOK, LockPC
    <3>4. ~stopped
      BY <3>3 DEF ControlOK
    <3>5. pc[Writer] = "none"
      BY <3>1, <3>2, <3>4 DEF ControlOK, WriterPC
    <3>6. pc' = [pc EXCEPT ![t] = "recycle", ![Writer] = "start"]
      BY <2>3, <3>5 DEF New
    <3>7. QED
      BY <2>1, <3>6 DEF OneWriter
  <2>4. QED
    BY <1>1, <2>2, <2>3 DEF FlushPush
<1>2. ASSUME NEW u \in Threads, NEW from, NEW to, Goto(u, from, to), from # "none"
      PROVE  OneWriter'
  <2>1. pc[u] = from /\ pc' = [pc EXCEPT ![u] = to] /\ pc \in [Threads -> PC]
    BY <1>2 DEF Goto, TypeOK
  <2>2. u \notin Spare
    BY <1>2, <2>1 DEF OneWriter
  <2>3. QED
    BY <2>1, <2>2 DEF OneWriter
<1>3. ASSUME NEW t \in Appenders, AppendCall(t) \/ AppendStep(t) PROVE OneWriter'
  <2>1. \E from, to : from # "none" /\ Goto(t, from, to)
    BY <1>3 DEF AppendCall, AppendStep, AppendFlush, AppendFits, AppendGrows, CanReserve,
                AppendCopy, AppendCopied, Exit
  <2>2. QED
    BY <1>2, <2>1
<1>4. ASSUME NEW t \in Callers, Flush(t) PROVE OneWriter'
  <2>1. FlushPush(t) \/ \E from, to : from # "none" /\ Goto(t, from, to)
    BY <1>4 DEF Flush, FlushTest, FlushLock, FlushSpin, TakeBuffer, FlushRecycle, FlushUnlock,
                Return
  <2>2. QED
    BY <1>1, <1>2, <2>1
<1>5. ASSUME NEW w \in Writers, Process(w) PROVE OneWriter'
  <2>1. \E from, to : from # "none" /\ Goto(w, from, to)
    BY <1>5 DEF Process, WriterBegin, WriterTake, WriterWrite, WriterSave, WriterStop
  <2>2. QED
    BY <1>2, <2>1
<1>6. ASSUME FlushThread \/ DestroyCall \/ Destroy PROVE OneWriter'
  <2>1. \E u \in {Flusher, Owner} : \E from, to : from # "none" /\ Goto(u, from, to)
    BY <1>6 DEF FlushThread, Look, WakeFlush, WakeIdle, Again, DestroyCall, Destroy,
                DestroySwap, DestroyJoin, DestroyFree
  <2>2. QED
    BY <1>2, <2>1
<1>7. QED
  BY <1>3, <1>4, <1>5, <1>6 DEF Next

\* As long as q has had one writer, the file has the lines in the order in which
\* they were logged, whole and without a gap, whichever of the buffers that flush,
\* writer and qdel pass round they went through (164-178, 112-124).
THEOREM LinesStayInOrder == PromptSpec => []LinesInOrder
<1>1. LogInv => LinesInOrder
  BY DEF LogInv, LinesOK, OrderOK, LinesInOrder
<1>2. QED
  BY <1>1, LogInvariant, PTL

\* When a thread begins before the next buffer is handed over, q has had no more
\* than one writer, although its pushes do not count the threads they ask for
\* (xs_queue.h:244-248): the order of the lines then holds throughout.
THEOREM BegunMeansOneWriter == OrderedSpec => [](OneWriter /\ FileInOrder)
<1>1. OrderedSpec => PromptSpec
  <2>1. [Next /\ PromptStep /\ BegunStep]_vars => [Next /\ PromptStep]_vars
    OBVIOUS
  <2>2. QED
    BY <2>1, PTL DEF OrderedSpec, PromptSpec
<1>2. Init => OneWriter
  BY ThreadAssumption, Kinds DEF Init, OneWriter, Writers, Threads
<1>3. LogInv /\ OneWriter /\ [Next /\ PromptStep /\ BegunStep]_vars => OneWriter'
  <2> SUFFICES ASSUME LogInv, OneWriter, [Next /\ PromptStep /\ BegunStep]_vars
               PROVE  OneWriter'
    OBVIOUS
  <2>1. CASE Next /\ BegunStep
    BY <2>1, OneWriterStep
  <2>2. CASE UNCHANGED vars
    BY <2>2 DEF vars, OneWriter
  <2>3. QED
    BY <2>1, <2>2
<1>4. LogInv /\ OneWriter => FileInOrder
  BY DEF LogInv, LinesOK, OrderOK
<1>5. QED
  BY <1>1, <1>2, <1>3, <1>4, LogInvariant, PTL DEF OrderedSpec

\* Every chunk of memory is in one place at a time, and none is lost or freed
\* twice, while the log runs (112-124, 164-178).
THEOREM ChunksHaveOneOwner == PromptSpec => []ChunksOwned
<1>1. LogInv => ChunksOwned
  BY DEF LogInv
<1>2. QED
  BY <1>1, LogInvariant, PTL
=============================================================================
