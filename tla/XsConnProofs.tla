---------------------------- MODULE XsConnProofs ----------------------------
(***************************************************************************)
(* What one connection keeps to, for every script of messages, every way   *)
(* the stream is cut, and any sizes of buffer, cache and pieces.           *)
(*                                                                         *)
(* The argument has four parts.  The write side: whatever the socket       *)
(* takes of a purge or a send, what is on the wire followed by what is     *)
(* cached grows by exactly what the call says it has accepted (Moves,      *)
(* Accepts), until the cache overflows.  The read side: xs_conn_httpread   *)
(* keeps its state within its types whatever arrives (Sound), above all    *)
(* the buffer within its size, and what it says it has read is what it     *)
(* has put out, so that what the handler echoes lies in the body.  The     *)
(* actions of XsConn combine the two, and StreamInOrder follows because    *)
(* no step takes anything back (Forward).  The place of the reader: every  *)
(* message of the script has its place in the stream (Laid), whatever the  *)
(* reader has buffered is what the stream holds from its own place on      *)
(* (Placed), and each branch of xs_conn_httpread takes it from one place   *)
(* to the next (PlaceInv).  So the messages it completes are the ones      *)
(* that were sent.  And why a connection is closed: each call leaves an    *)
(* errnum that has its reason (Caused), and the loop of the handler keeps  *)
(* the reason until it closes (CutInv).                                    *)
(***************************************************************************)
EXTENDS XsConn, SequenceTheorems, WellFoundedInduction, TLAPS

-----------------------------------------------------------------------------
(***************************************************************************)
(* Sequences.                                                              *)
(***************************************************************************)

\* Concatenation, for sequences of one set.
LEMMA Concat ==
  ASSUME NEW S, NEW s \in Seq(S), NEW t \in Seq(S), NEW u \in Seq(S)
  PROVE  s \o t \in Seq(S) /\ (s \o t) \o u = s \o (t \o u)
<1>1. Len(s) \in Nat /\ Len(t) \in Nat /\ Len(u) \in Nat
  OBVIOUS
<1>2. /\ s \o t \in Seq(S) /\ Len(s \o t) = Len(s) + Len(t)
      /\ t \o u \in Seq(S) /\ Len(t \o u) = Len(t) + Len(u)
  OBVIOUS
<1>3. (s \o t) \o u \in Seq(S) /\ s \o (t \o u) \in Seq(S)
  BY <1>2
<1>4. Len((s \o t) \o u) = Len(s \o (t \o u))
  BY <1>1, <1>2
<1>5. \A i \in 1 .. Len((s \o t) \o u) : ((s \o t) \o u)[i] = (s \o (t \o u))[i]
  BY <1>1, <1>2
<1>6. (s \o t) \o u = s \o (t \o u)
  BY <1>3, <1>4, <1>5, SeqEqual
<1>7. QED
  BY <1>2, <1>6, Zenon

\* The parts of a sequence before and after a position make up the sequence.
LEMMA BeforeAfter ==
  ASSUME NEW S
  PROVE  \A s \in Seq(S) : \A n \in 0 .. Len(s) :
         /\ Before(s, n) \in Seq(S) /\ Len(Before(s, n)) = n
         /\ After(s, n) \in Seq(S) /\ Len(After(s, n)) = Len(s) - n
         /\ Before(s, n) \o After(s, n) = s
         /\ n = Len(s) => Before(s, n) = s /\ After(s, n) = <<>>
<1> TAKE s \in Seq(S)
<1> TAKE n \in 0 .. Len(s)
<1>0. Len(s) \in Nat /\ \A i \in 1 .. Len(s) : s[i] \in S
  OBVIOUS
<1>1. Before(s, n) = SubSeq(s, 1, n)
  BY <1>0 DEF Before
<1>2. SubSeq(s, 1, n) \in Seq(S) /\ Len(SubSeq(s, 1, n)) = n
  BY <1>0, SubSeqProperties
<1>3. SubSeq(s, n + 1, Len(s)) \in Seq(S) /\ Len(SubSeq(s, n + 1, Len(s))) = Len(s) - n
  BY <1>0, SubSeqProperties
<1>4. SubSeq(s, 1, n) \o SubSeq(s, n + 1, Len(s)) = SubSeq(s, 1, Len(s))
  <2>1. 1 \in 1 .. Len(s) + 1 /\ n \in 1 - 1 .. Len(s) /\ Len(s) \in n .. Len(s)
    BY <1>0
  <2>2. QED
    BY <2>1, ConcatAdjacentSubSeq
<1>5. SubSeq(s, 1, Len(s)) = s
  BY SubSeqFull
<1>6. n = Len(s) => SubSeq(s, n + 1, Len(s)) = <<>>
  BY <1>0, SubSeqEmpty
<1>7. QED
  BY <1>1, <1>2, <1>3, <1>4, <1>5, <1>6, Zenon DEF After

\* At most n elements of a sequence, however large n is.
LEMMA BeforeIsShort ==
  ASSUME NEW S, NEW s \in Seq(S), NEW n \in Nat
  PROVE  /\ Before(s, n) \in Seq(S) /\ Len(Before(s, n)) <= Len(s)
         /\ \A k \in 0 .. Len(Before(s, n)) : Before(Before(s, n), k) = Before(s, k)
<1> DEFINE m == IF n < Len(s) THEN n ELSE Len(s)
<1>0. Len(s) \in Nat /\ m \in 0 .. Len(s) /\ \A i \in 1 .. Len(s) : s[i] \in S
  OBVIOUS
<1>1. Before(s, n) = Before(s, m)
  BY <1>0 DEF Before
<1>2. Before(s, m) \in Seq(S) /\ Len(Before(s, m)) = m /\ Before(s, m) = SubSeq(s, 1, m)
  <2> HIDE DEF m
  <2>1. Before(s, m) \in Seq(S) /\ Len(Before(s, m)) = m
    BY <1>0, BeforeAfter
  <2>2. Before(s, m) = SubSeq(s, 1, m)
    BY <1>0 DEF Before
  <2>3. QED
    BY <2>1, <2>2
<1>3. \A i \in 1 .. m : SubSeq(s, 1, m)[i] = s[i]
  <2> HIDE DEF m
  <2>1. QED
    BY <1>0, SubSeqProperties
<1>4. ASSUME NEW k \in 0 .. m PROVE Before(SubSeq(s, 1, m), k) = Before(s, k)
  <2> HIDE DEF m
  <2>1. /\ Before(SubSeq(s, 1, m), k) = SubSeq(SubSeq(s, 1, m), 1, k)
        /\ Before(s, k) = SubSeq(s, 1, k)
        /\ Len(Before(SubSeq(s, 1, m), k)) = k /\ Len(Before(s, k)) = k
        /\ Before(SubSeq(s, 1, m), k) \in Seq(S) /\ Before(s, k) \in Seq(S)
    <3>1. SubSeq(s, 1, m) \in Seq(S) /\ Len(SubSeq(s, 1, m)) = m
      BY <1>2
    <3>2. k \in 0 .. Len(s) /\ k \in 0 .. Len(SubSeq(s, 1, m))
      BY <1>0, <3>1
    <3>3. /\ Before(SubSeq(s, 1, m), k) = SubSeq(SubSeq(s, 1, m), 1, k)
          /\ Before(s, k) = SubSeq(s, 1, k)
      BY <1>0, <3>1, <3>2 DEF Before
    <3>4. /\ Len(Before(SubSeq(s, 1, m), k)) = k
          /\ Before(SubSeq(s, 1, m), k) \in Seq(S)
      BY <3>1, <3>2, BeforeAfter, Zenon
    <3>5. Len(Before(s, k)) = k /\ Before(s, k) \in Seq(S)
      BY <3>2, BeforeAfter, Zenon
    <3>6. QED
      BY <3>3, <3>4, <3>5
  <2>2. \A i \in 1 .. k : SubSeq(SubSeq(s, 1, m), 1, k)[i] = SubSeq(s, 1, m)[i]
    BY <1>0, <1>2, SubSeqProperties
  <2>3. \A i \in 1 .. k : SubSeq(s, 1, k)[i] = s[i]
    BY <1>0, SubSeqProperties
  <2>4. QED
    BY <1>0, <1>3, <2>1, <2>2, <2>3, SeqEqual
<1>5. QED
  <2> HIDE DEF m
  <2>1. QED
    BY <1>0, <1>1, <1>2, <1>4

\* The same for sequences of tokens.
LEMMA TokenJoin ==
  \A s, t \in Seq(Tokens) : s \o t \in Seq(Tokens)
BY ConcatProperties

\* Concatenation of tokens is associative.
LEMMA TokenConcat ==
  \A s, t, u \in Seq(Tokens) : (s \o t) \o u = s \o (t \o u)
<1> TAKE s, t, u \in Seq(Tokens)
<1> QED
  BY Concat

\* Before and after a position, for sequences of tokens.
LEMMA TokenParts ==
  \A s \in Seq(Tokens) : \A n \in 0 .. Len(s) :
    /\ Before(s, n) \in Seq(Tokens) /\ Len(Before(s, n)) = n
    /\ After(s, n) \in Seq(Tokens) /\ Len(After(s, n)) = Len(s) - n
    /\ Before(s, n) \o After(s, n) = s
    /\ n = Len(s) => Before(s, n) = s /\ After(s, n) = <<>>
BY BeforeAfter, Zenon

\* What is extended is a prefix of the result.
LEMMA PrefixOfConcat ==
  ASSUME NEW S, NEW s \in Seq(S), NEW t \in Seq(S)
  PROVE  IsPrefix(s, s \o t)
<1>1. Len(s) \in Nat /\ Len(t) \in Nat /\ Len(s \o t) = Len(s) + Len(t)
  OBVIOUS
<1>2. SubSeq(s, 1, Len(s)) = SubSeq(s \o t, 1, Len(s))
  <2>1. CASE Len(s) = 0
    <3>1. SubSeq(s, 1, 0) = <<>> /\ SubSeq(s \o t, 1, 0) = <<>>
      BY SubSeqEmpty
    <3>2. QED
      BY <2>1, <3>1
  <2>2. CASE Len(s) # 0
    BY <1>1, <2>2, SubSeqOfConcat1
  <2>3. QED
    BY <2>1, <2>2
<1>3. QED
  BY <1>1, <1>2 DEF IsPrefix

-----------------------------------------------------------------------------
(***************************************************************************)
(* The write side (XsConnWrite).                                           *)
(***************************************************************************)
Writer == Writers(Tokens)

\* The wire only grows.
Grown(old, w) == \E sent \in Seq(Tokens) : w.wire = old.wire \o sent

\* A call that has accepted the first w.ret units of data.
Accepts(old, w, data) ==
  /\ w \in Writer /\ w.ret \in 0 .. Len(data) /\ Grown(old, w)
  /\ w.intact => old.intact /\ w.wire \o w.cache = (old.wire \o old.cache) \o Before(data, w.ret)

\* A call that moves data from the cache to the wire.
Moves(old, w) ==
  /\ w \in Writer /\ w.ret = old.ret /\ w.intact = old.intact /\ Grown(old, w)
  /\ w.wire \o w.cache = old.wire \o old.cache

\* The fields of a writer.
LEMMA WriterFields ==
  ASSUME NEW w \in Writer
  PROVE  /\ w.wire \in Seq(Tokens) /\ w.cache \in Seq(Tokens) /\ w.blocked \in BOOLEAN
         /\ w.ret \in Nat /\ w.intact \in BOOLEAN /\ w.err \in {"ok", "busy", "full", "io"}
         /\ Len(w.cache) <= MaxCache
         /\ w = [wire |-> w.wire, cache |-> w.cache, blocked |-> w.blocked, err |-> w.err,
                 ret |-> w.ret, intact |-> w.intact]
BY DEF Writer, Writers

\* A record with these fields is a writer.
LEMMA IsWriter ==
  ASSUME NEW wire \in Seq(Tokens), NEW cache \in Seq(Tokens), NEW blocked \in BOOLEAN,
         NEW err \in {"ok", "busy", "full", "io"}, NEW ret \in Nat, NEW intact \in BOOLEAN,
         Len(cache) <= MaxCache
  PROVE  [wire |-> wire, cache |-> cache, blocked |-> blocked, err |-> err, ret |-> ret,
          intact |-> intact] \in Writer
BY DEF Writer, Writers

\* errnum, ret and blocked may change while the data stays.
LEMMA Staying ==
  ASSUME NEW w \in Writer PROVE Moves(w, w) /\ Grown(w, w)
<1>1. w.wire \o <<>> = w.wire /\ <<>> \in Seq(Tokens)
  BY WriterFields, ConcatEmptySeq
<1>2. QED
  BY <1>1 DEF Moves, Grown

\* What has grown twice has grown.
LEMMA GrownTwice ==
  ASSUME NEW a \in Writer, NEW b, NEW c, Grown(a, b), Grown(b, c)
  PROVE  Grown(a, c)
<1>1. PICK s \in Seq(Tokens) : b.wire = a.wire \o s
  BY DEF Grown
<1>2. PICK t \in Seq(Tokens) : c.wire = b.wire \o t
  BY DEF Grown
<1>3. a.wire \in Seq(Tokens)
  BY WriterFields
<1>4. (a.wire \o s) \o t = a.wire \o (s \o t)
  BY <1>3, TokenConcat, Zenon
<1>5. c.wire = a.wire \o (s \o t)
  BY <1>1, <1>2, <1>4
<1>6. s \o t \in Seq(Tokens)
  BY ConcatProperties
<1>7. QED
  BY <1>5, <1>6 DEF Grown

\* Purging the cache, whatever the socket takes of it.
LEMMA PurgeMoves ==
  ASSUME NEW w \in Writer, NEW lost \in BOOLEAN, NEW p \in PurgeOutcomes(w, lost)
  PROVE  Moves(w, p)
<1>1. CASE w.cache = <<>>
  BY <1>1, Staying DEF PurgeOutcomes
<1>2. CASE w.cache # <<>>
  <2>1. PICK n \in SendTakes(w.cache, lost) :
          p = [w EXCEPT !.wire = @ \o Before(w.cache, n), !.cache = After(@, n),
                        !.blocked = @ /\ n < Len(w.cache),
                        !.err = SendError("ok", n, Len(w.cache), lost)]
    BY <1>2, Zenon DEF PurgeOutcomes
  <2>2. PICK a, b, c, d :
          /\ a = w.wire \o Before(w.cache, n) /\ b = After(w.cache, n)
          /\ c = (w.blocked /\ n < Len(w.cache)) /\ d = SendError("ok", n, Len(w.cache), lost)
    BY Zenon
  <2>3. /\ a \in Seq(Tokens) /\ b \in Seq(Tokens) /\ Len(b) <= MaxCache
        /\ a \o b = w.wire \o w.cache /\ Grown(w, [wire |-> a])
    <3>1. n \in 0 .. Len(w.cache) /\ w.cache \in Seq(Tokens) /\ Len(w.cache) \in Nat
      BY WriterFields DEF SendTakes
    <3>2. /\ Before(w.cache, n) \in Seq(Tokens) /\ After(w.cache, n) \in Seq(Tokens)
          /\ Len(After(w.cache, n)) = Len(w.cache) - n
          /\ Before(w.cache, n) \o After(w.cache, n) = w.cache
      BY <3>1, TokenParts
    <3>3. w.wire \in Seq(Tokens) /\ Len(w.cache) <= MaxCache
      BY WriterFields
    <3>4. Len(b) <= MaxCache
      BY <2>2, <3>1, <3>2, <3>3, MaxCacheAssumption
    <3>5. /\ w.wire \o Before(w.cache, n) \in Seq(Tokens)
          /\ (w.wire \o Before(w.cache, n)) \o After(w.cache, n)
               = w.wire \o (Before(w.cache, n) \o After(w.cache, n))
      <4>1. w.wire \o Before(w.cache, n) \in Seq(Tokens)
        BY <3>2, <3>3, TokenJoin, Zenon
      <4>2. (w.wire \o Before(w.cache, n)) \o After(w.cache, n)
               = w.wire \o (Before(w.cache, n) \o After(w.cache, n))
        BY <3>2, <3>3, TokenConcat, Zenon
      <4>3. QED
        BY <4>1, <4>2
    <3>6. Grown(w, [wire |-> a])
      BY <2>2, <3>2 DEF Grown
    <3>7. QED
      BY <2>2, <3>2, <3>4, <3>5, <3>6
  <2>4. c \in BOOLEAN /\ d \in {"ok", "busy", "full", "io"}
    BY <2>2 DEF SendError
  <2>5. p = [wire |-> a, cache |-> b, blocked |-> c, err |-> d, ret |-> w.ret, intact |-> w.intact]
    <3>0. p = [w EXCEPT !.wire = a, !.cache = b, !.blocked = c, !.err = d]
      BY <2>1, <2>2, Zenon
    <3>1. PICK x : x = [w EXCEPT !.wire = a]
      BY Zenon
    <3>2. PICK y : y = [x EXCEPT !.cache = b]
      BY Zenon
    <3>3. PICK z : z = [y EXCEPT !.blocked = c]
      BY Zenon
    <3>4. p = [z EXCEPT !.err = d]
      BY <3>0, <3>1, <3>2, <3>3, Zenon
    <3>5. x = [wire |-> a, cache |-> w.cache, blocked |-> w.blocked, err |-> w.err,
               ret |-> w.ret, intact |-> w.intact]
      BY <3>1, WriterFields
    <3>6. y = [wire |-> a, cache |-> b, blocked |-> w.blocked, err |-> w.err,
               ret |-> w.ret, intact |-> w.intact]
      BY <3>2, <3>5
    <3>7. z = [wire |-> a, cache |-> b, blocked |-> c, err |-> w.err,
               ret |-> w.ret, intact |-> w.intact]
      BY <3>3, <3>6
    <3>8. QED
      BY <3>4, <3>7
  <2>6. p \in Writer
    <3>1. w.ret \in Nat /\ w.intact \in BOOLEAN
      BY WriterFields
    <3>2. QED
      BY <2>3, <2>4, <2>5, <3>1, IsWriter
  <2>7. QED
    BY <2>3, <2>5, <2>6 DEF Moves, Grown
<1>3. QED
  BY <1>1, <1>2

\* Sending data past an empty cache, or past a cache that has been given up.
LEMMA SendAccepts ==
  ASSUME NEW w \in Writer, w.intact => w.cache = <<>>, NEW data \in Seq(Tokens),
         NEW lost \in BOOLEAN, NEW x \in SendOutcomes(w, data, lost)
  PROVE  Accepts(w, x, data)
<1> DEFINE sent(n) == [w EXCEPT !.wire = @ \o Before(data, n), !.ret = n,
                                !.err = SendError(@, n, Len(data), lost)]
<1>1. PICK n \in SendTakes(data, lost) :
        x = IF n = Len(data) THEN sent(n)
            ELSE IF Fits(w, After(data, n))
              THEN [sent(n) EXCEPT !.cache = @ \o After(data, n), !.ret = Len(data)]
            ELSE [sent(n) EXCEPT !.intact = FALSE]
  BY Zenon DEF SendOutcomes
<1>2. PICK a, e, s : a = w.wire \o Before(data, n) /\ e = SendError(w.err, n, Len(data), lost)
                     /\ s = sent(n)
  BY Zenon
<1>3. /\ n \in 0 .. Len(data) /\ Len(data) \in Nat
      /\ Before(data, n) \in Seq(Tokens) /\ After(data, n) \in Seq(Tokens)
      /\ Before(data, n) \o After(data, n) = data /\ (n = Len(data) => Before(data, n) = data)
      /\ Before(data, Len(data)) = data
  <2>1. n \in 0 .. Len(data) /\ Len(data) \in Nat /\ Len(data) \in 0 .. Len(data)
    BY DEF SendTakes
  <2>2. QED
    BY <2>1, TokenParts
<1>4. /\ w.wire \in Seq(Tokens) /\ w.cache \in Seq(Tokens) /\ a \in Seq(Tokens)
      /\ e \in {"ok", "busy", "full", "io"} /\ w.blocked \in BOOLEAN /\ w.intact \in BOOLEAN
      /\ Len(w.cache) <= MaxCache /\ Grown(w, [wire |-> a])
  <2>1. e \in {"ok", "busy", "full", "io"}
    BY <1>2, WriterFields DEF SendError
  <2>2. Grown(w, [wire |-> a])
    BY <1>2, <1>3 DEF Grown
  <2>3. QED
    BY <1>2, <1>3, <2>1, <2>2, WriterFields, TokenJoin
<1>5. s = [wire |-> a, cache |-> w.cache, blocked |-> w.blocked, err |-> e, ret |-> n,
           intact |-> w.intact]
  <2>0. s = [w EXCEPT !.wire = a, !.ret = n, !.err = e]
    BY <1>2, Zenon
  <2>1. PICK y : y = [w EXCEPT !.wire = a]
    BY Zenon
  <2>2. PICK z : z = [y EXCEPT !.ret = n]
    BY Zenon
  <2>3. s = [z EXCEPT !.err = e]
    BY <2>0, <2>1, <2>2, Zenon
  <2>4. y = [wire |-> a, cache |-> w.cache, blocked |-> w.blocked, err |-> w.err, ret |-> w.ret,
             intact |-> w.intact]
    BY <2>1, WriterFields
  <2>5. z = [wire |-> a, cache |-> w.cache, blocked |-> w.blocked, err |-> w.err, ret |-> n,
             intact |-> w.intact]
    BY <2>2, <2>4
  <2>6. QED
    BY <2>3, <2>5
<1>6. w.intact => /\ a \o w.cache = (w.wire \o w.cache) \o Before(data, n)
                  /\ a \o (w.cache \o After(data, n)) = (w.wire \o w.cache) \o data
  <2>1. SUFFICES ASSUME w.cache = <<>>
                 PROVE  /\ a \o <<>> = (w.wire \o <<>>) \o Before(data, n)
                        /\ a \o (<<>> \o After(data, n)) = (w.wire \o <<>>) \o data
    BY Zenon
  <2>2. a \o <<>> = a /\ w.wire \o <<>> = w.wire /\ <<>> \o After(data, n) = After(data, n)
    BY <1>3, <1>4, ConcatEmptySeq
  <2>3. a \o After(data, n) = w.wire \o data
    <3>1. /\ w.wire \in Seq(Tokens) /\ Before(data, n) \in Seq(Tokens)
          /\ After(data, n) \in Seq(Tokens)
      BY <1>3, <1>4
    <3>2. (w.wire \o Before(data, n)) \o After(data, n)
            = w.wire \o (Before(data, n) \o After(data, n))
      BY <3>1, TokenConcat, Zenon
    <3>3. QED
      BY <1>2, <1>3, <3>2
  <2>4. QED
    BY <1>2, <2>2, <2>3
<1> HIDE DEF sent
<1>7. CASE n = Len(data)
  <2>1. x = s
    BY <1>1, <1>2, <1>7
  <2>2. x \in Writer
    BY <1>3, <1>4, <1>5, <2>1, IsWriter
  <2>3. QED
    BY <1>3, <1>4, <1>5, <1>6, <2>1, <2>2 DEF Accepts, Grown
<1>8. CASE n # Len(data) /\ Fits(w, After(data, n))
  <2>1. PICK r, b : r = Len(data) /\ b = w.cache \o After(data, n)
    BY Zenon
  <2>2. x = [s EXCEPT !.cache = @ \o After(data, n), !.ret = r]
    BY <1>1, <1>2, <1>8, <2>1, Zenon
  <2>3. PICK y : y = [s EXCEPT !.cache = @ \o After(data, n)]
    BY Zenon
  <2>4. y = [wire |-> a, cache |-> b, blocked |-> w.blocked, err |-> e, ret |-> n,
             intact |-> w.intact]
    BY <1>5, <2>1, <2>3
  <2>5. x = [y EXCEPT !.ret = r]
    BY <2>2, <2>3, Zenon
  <2>6. x = [wire |-> a, cache |-> b, blocked |-> w.blocked, err |-> e, ret |-> r,
             intact |-> w.intact]
    BY <2>4, <2>5
  <2>7. b \in Seq(Tokens) /\ Len(b) <= MaxCache /\ r \in Nat
    <3>1. b \in Seq(Tokens) /\ Len(b) = Len(w.cache) + Len(After(data, n))
      BY <1>3, <1>4, <2>1, ConcatProperties
    <3>2. QED
      BY <1>3, <1>8, <2>1, <3>1 DEF Fits
  <2>8. x \in Writer
    BY <1>4, <2>6, <2>7, IsWriter
  <2>9. /\ x.wire = a /\ x.cache = b /\ x.ret = Len(data) /\ x.intact = w.intact
        /\ r \in 0 .. Len(data)
    BY <1>3, <2>1, <2>6
  <2>10. x.intact => x.wire \o x.cache = (w.wire \o w.cache) \o Before(data, x.ret)
    BY <1>3, <1>6, <2>1, <2>9
  <2>11. QED
    BY <1>4, <2>1, <2>8, <2>9, <2>10 DEF Accepts, Grown
<1>9. CASE n # Len(data) /\ ~Fits(w, After(data, n))
  <2>1. x = [s EXCEPT !.intact = FALSE]
    BY <1>1, <1>2, <1>9
  <2>2. x = [wire |-> a, cache |-> w.cache, blocked |-> w.blocked, err |-> e, ret |-> n,
             intact |-> FALSE]
    BY <1>5, <2>1
  <2>3. x \in Writer
    <3>1. n \in Nat /\ FALSE \in BOOLEAN
      BY <1>3
    <3>2. QED
      BY <1>4, <2>2, <3>1, IsWriter
  <2>4. QED
    BY <1>3, <1>4, <2>2, <2>3 DEF Accepts, Grown
<1>10. QED
  BY <1>7, <1>8, <1>9

\* Data that fits is added to the cache.
LEMMA AddAccepts ==
  ASSUME NEW w \in Writer, NEW data \in Seq(Tokens), Fits(w, data)
  PROVE  Accepts(w, CacheAdd(w, data), data)
<1>1. PICK b, r, e : b = w.cache \o data /\ r = Len(data)
                     /\ e = IF w.err = "ok" THEN "busy" ELSE w.err
  BY Zenon
<1>2. PICK y : y = [w EXCEPT !.cache = b]
  BY Zenon
<1>3. PICK z : z = [y EXCEPT !.ret = r]
  BY Zenon
<1>4. CacheAdd(w, data) = [z EXCEPT !.err = e]
  <2>1. CacheAdd(w, data) = [w EXCEPT !.cache = b, !.ret = r, !.err = e]
    BY <1>1, Zenon DEF CacheAdd
  <2>2. QED
    BY <1>2, <1>3, <2>1, Zenon
<1>5. y = [wire |-> w.wire, cache |-> b, blocked |-> w.blocked, err |-> w.err, ret |-> w.ret,
           intact |-> w.intact]
  BY <1>2, WriterFields
<1>6. z = [wire |-> w.wire, cache |-> b, blocked |-> w.blocked, err |-> w.err, ret |-> r,
           intact |-> w.intact]
  BY <1>3, <1>5
<1>7. CacheAdd(w, data) = [wire |-> w.wire, cache |-> b, blocked |-> w.blocked, err |-> e,
                           ret |-> r, intact |-> w.intact]
  BY <1>4, <1>6
<1>8. /\ w.wire \in Seq(Tokens) /\ w.cache \in Seq(Tokens) /\ w.blocked \in BOOLEAN
      /\ w.intact \in BOOLEAN /\ e \in {"ok", "busy", "full", "io"} /\ r \in Nat
  BY <1>1, WriterFields
<1>9. b \in Seq(Tokens) /\ Len(b) <= MaxCache /\ w.wire \o b = (w.wire \o w.cache) \o data
  <2>1. b \in Seq(Tokens) /\ Len(b) = Len(w.cache) + Len(data)
    BY <1>1, <1>8, ConcatProperties
  <2>2. Len(b) <= MaxCache
    BY <2>1 DEF Fits
  <2>3. (w.wire \o w.cache) \o data = w.wire \o (w.cache \o data)
    BY <1>8, TokenConcat, Zenon
  <2>4. QED
    BY <1>1, <2>1, <2>2, <2>3
<1>10. CacheAdd(w, data) \in Writer
  BY <1>7, <1>8, <1>9, IsWriter
<1>11. Before(data, r) = data /\ r \in 0 .. Len(data)
  BY <1>1, TokenParts
<1>12. Grown(w, w)
  BY Staying
<1>13. LET x == CacheAdd(w, data)
       IN  x.wire = w.wire /\ x.cache = b /\ x.ret = r /\ x.intact = w.intact
  BY <1>7
<1>14. QED
  BY <1>9, <1>10, <1>11, <1>12, <1>13 DEF Accepts, Grown

\* What is accepted after a step that only moves data, or gives up on the
\* cache, is accepted from before that step.
LEMMA AcceptsFrom ==
  ASSUME NEW old \in Writer, NEW v \in Writer, Grown(old, v), v.intact => old.intact,
         v.wire \o v.cache = old.wire \o old.cache,
         NEW x, NEW data, Accepts(v, x, data)
  PROVE  Accepts(old, x, data)
<1>1. Grown(v, x)
  BY DEF Accepts
<1>2. Grown(old, x)
  BY <1>1, GrownTwice
<1>3. QED
  BY <1>2 DEF Accepts

\* errnum and ret are reset at the start of a call.
LEMMA Reset ==
  ASSUME NEW old \in Writer, NEW w, w = [old EXCEPT !.err = "ok", !.ret = 0]
  PROVE  /\ w \in Writer /\ w.wire = old.wire /\ w.cache = old.cache
         /\ w.blocked = old.blocked /\ w.intact = old.intact /\ w.ret = 0 /\ w.err = "ok"
<1>1. PICK y : y = [old EXCEPT !.err = "ok"]
  BY Zenon
<1>2. w = [y EXCEPT !.ret = 0]
  BY <1>1, Zenon
<1>3. y = [wire |-> old.wire, cache |-> old.cache, blocked |-> old.blocked, err |-> "ok",
           ret |-> old.ret, intact |-> old.intact]
  BY <1>1, WriterFields
<1>4. w = [wire |-> old.wire, cache |-> old.cache, blocked |-> old.blocked, err |-> "ok",
           ret |-> 0, intact |-> old.intact]
  BY <1>2, <1>3
<1>5. w \in Writer
  <2>1. "ok" \in {"ok", "busy", "full", "io"} /\ 0 \in Nat
    OBVIOUS
  <2>2. [wire |-> old.wire, cache |-> old.cache, blocked |-> old.blocked, err |-> "ok",
         ret |-> 0, intact |-> old.intact] \in Writer
    BY <2>1, WriterFields, IsWriter
  <2>3. QED
    BY <1>4, <2>2, Zenon
<1>6. QED
  BY <1>4, <1>5

\* What cachefill does with the data, whether the cache has room or not.
LEMMA KeepAccepts ==
  ASSUME NEW w \in Writer, NEW data \in Seq(Tokens), NEW lost \in BOOLEAN,
         NEW x \in KeepOutcomes(w, data, lost)
  PROVE  Accepts(w, x, data)
<1>1. CASE Fits(w, data)
  BY <1>1, AddAccepts DEF KeepOutcomes
<1>2. CASE ~Fits(w, data)
  <2>1. PICK y : y = [w EXCEPT !.intact = FALSE]
    BY Zenon
  <2>2. PICK v : v = [y EXCEPT !.err = "full"]
    BY Zenon
  <2>3. x \in SendOutcomes(v, data, lost)
    <3>1. x \in SendOutcomes([w EXCEPT !.intact = FALSE, !.err = "full"], data, lost)
      BY <1>2 DEF KeepOutcomes
    <3>2. v = [w EXCEPT !.intact = FALSE, !.err = "full"]
      BY <2>1, <2>2, Zenon
    <3>3. QED
      BY <3>1, <3>2, Zenon
  <2>4. y = [wire |-> w.wire, cache |-> w.cache, blocked |-> w.blocked, err |-> w.err,
             ret |-> w.ret, intact |-> FALSE]
    <3>1. w = [wire |-> w.wire, cache |-> w.cache, blocked |-> w.blocked, err |-> w.err,
               ret |-> w.ret, intact |-> w.intact]
      BY WriterFields
    <3>2. QED
      BY <2>1, <3>1
  <2>5. v = [wire |-> w.wire, cache |-> w.cache, blocked |-> w.blocked, err |-> "full",
             ret |-> w.ret, intact |-> FALSE]
    BY <2>2, <2>4
  <2>6. v \in Writer
    <3>1. FALSE \in BOOLEAN /\ "full" \in {"ok", "busy", "full", "io"}
      OBVIOUS
    <3>2. QED
      BY <2>5, <3>1, WriterFields, IsWriter
  <2>7. v.wire = w.wire /\ v.cache = w.cache /\ v.intact = FALSE
    BY <2>5
  <2>8. Accepts(v, x, data)
    BY <2>3, <2>6, <2>7, SendAccepts
  <2>9. Grown(w, v)
    BY <2>7, Staying DEF Grown
  <2>10. QED
    BY <2>6, <2>7, <2>8, <2>9, AcceptsFrom
<1>3. QED
  BY <1>1, <1>2

\* The ways of xs_conn_write_: it sends, adds to the cache, or sends what is
\* cached first and then keeps the data or sends it.
LEMMA WriteWays ==
  ASSUME NEW old, NEW data, NEW lost, NEW x \in WriteOutcomes(old, data, lost),
         NEW w, w = [old EXCEPT !.err = "ok", !.ret = 0]
  PROVE  \/ w.cache = <<>> /\ x \in SendOutcomes(w, data, lost)
         \/ Fits(w, data) /\ x = CacheAdd(w, data)
         \/ x \in KeepOutcomes(w, data, lost)
         \/ \E p \in PurgeOutcomes(w, lost) : x \in KeepOutcomes(p, data, lost)
         \/ \E p \in PurgeOutcomes(w, lost) : p.cache = <<>> /\ x \in SendOutcomes(p, data, lost)
<1> DEFINE z == [old EXCEPT !.err = "ok", !.ret = 0]
           Kept(u) == {KeepOutcomes(p, data, lost) :
                       p \in {q \in PurgeOutcomes(u, lost) : q.cache # <<>>}}
           Sent(u) == {SendOutcomes(p, data, lost) :
                       p \in {q \in PurgeOutcomes(u, lost) : q.cache = <<>>}}
           Outcomes(u) == IF u.cache = <<>> /\ ~u.blocked THEN SendOutcomes(u, data, lost)
                          ELSE IF u.blocked /\ Fits(u, data) THEN {CacheAdd(u, data)}
                          ELSE UNION ({KeepOutcomes(u, data, lost)} \union Kept(u) \union Sent(u))
<1>1. x \in Outcomes(z)
  BY Zenon DEF WriteOutcomes
<1>2. w = z
  BY Zenon
<1> HIDE DEF z
<1>3. x \in Outcomes(w)
  BY <1>1, <1>2, Zenon
<1>4. \A X \in Kept(w) : x \in X =>
        \E p \in PurgeOutcomes(w, lost) : x \in KeepOutcomes(p, data, lost)
  BY Zenon
<1>5. \A X \in Sent(w) : x \in X =>
        \E p \in PurgeOutcomes(w, lost) : p.cache = <<>> /\ x \in SendOutcomes(p, data, lost)
  BY Zenon
<1> HIDE DEF Kept, Sent
<1>6. QED
  BY <1>3, <1>4, <1>5

\* xs_conn_write_ accepts what it says it has, and keeps the order.
THEOREM WriteAccepts ==
  ASSUME NEW old \in Writer, NEW data \in Seq(Tokens), NEW lost \in BOOLEAN,
         NEW x \in WriteOutcomes(old, data, lost)
  PROVE  Accepts(old, x, data)
<1>1. PICK w : w = [old EXCEPT !.err = "ok", !.ret = 0]
  BY Zenon
<1>2. /\ w \in Writer /\ w.wire = old.wire /\ w.cache = old.cache
      /\ w.blocked = old.blocked /\ w.intact = old.intact
  BY <1>1, Reset
<1>3. Grown(old, w)
  BY <1>2, Staying DEF Grown
<1>4. \/ w.cache = <<>> /\ x \in SendOutcomes(w, data, lost)
      \/ Fits(w, data) /\ x = CacheAdd(w, data)
      \/ x \in KeepOutcomes(w, data, lost)
      \/ \E p \in PurgeOutcomes(w, lost) : x \in KeepOutcomes(p, data, lost)
      \/ \E p \in PurgeOutcomes(w, lost) : p.cache = <<>> /\ x \in SendOutcomes(p, data, lost)
  BY <1>1, WriteWays, Zenon
<1>5. Accepts(w, x, data)
  <2>1. CASE w.cache = <<>> /\ x \in SendOutcomes(w, data, lost)
    BY <1>2, <2>1, SendAccepts
  <2>2. CASE Fits(w, data) /\ x = CacheAdd(w, data)
    BY <1>2, <2>2, AddAccepts
  <2>3. CASE x \in KeepOutcomes(w, data, lost)
    BY <1>2, <2>3, KeepAccepts
  <2>4. CASE \E p \in PurgeOutcomes(w, lost) : \/ x \in KeepOutcomes(p, data, lost)
                                               \/ p.cache = <<>> /\ x \in SendOutcomes(p, data, lost)
    <3>1. PICK p \in PurgeOutcomes(w, lost) : \/ x \in KeepOutcomes(p, data, lost)
                                              \/ p.cache = <<>> /\ x \in SendOutcomes(p, data, lost)
      BY <2>4
    <3>2. Moves(w, p)
      BY <1>2, PurgeMoves
    <3>3. p \in Writer /\ Grown(w, p) /\ p.intact = w.intact
          /\ p.wire \o p.cache = w.wire \o w.cache
      BY <3>2 DEF Moves
    <3>4. Accepts(p, x, data)
      BY <3>1, <3>3, SendAccepts, KeepAccepts
    <3>5. QED
      BY <1>2, <3>3, <3>4, AcceptsFrom
  <2>5. QED
    BY <1>4, <2>1, <2>2, <2>3, <2>4
<1>6. QED
  BY <1>2, <1>3, <1>5, AcceptsFrom

\* Between two calls only errnum and ret are reset.
LEMMA SettledKeeps ==
  ASSUME NEW w \in Writer
  PROVE  /\ Settled(w) \in Writer /\ Settled(w).wire = w.wire /\ Settled(w).cache = w.cache
         /\ Settled(w).blocked = w.blocked /\ Settled(w).intact = w.intact
<1>1. PICK v : v = Settled(w)
  BY Zenon
<1>2. v = [w EXCEPT !.err = "ok", !.ret = 0]
  BY <1>1, Zenon DEF Settled
<1>3. /\ v \in Writer /\ v.wire = w.wire /\ v.cache = w.cache
      /\ v.blocked = w.blocked /\ v.intact = w.intact
  BY <1>2, Reset
<1>4. QED
  BY <1>1, <1>3, Zenon

-----------------------------------------------------------------------------
(***************************************************************************)
(* The read side (XsHttpRead), for the messages msgs of one script.        *)
(***************************************************************************)

\* Readers without the bound on buf, and the fields of requests.
Shapes(msgs) == [buf : Seq(Arriving(msgs)), consumed : Nat, bufsize : Nat, upgrade : {0, 2},
                 errnum : Errors, req : Requests(msgs)]
RequestFields == [m : Nat, reqlen : Nat, contentlen : Nat, consumed : Nat, chunked : BOOLEAN,
                  header : BOOLEAN, upgrade : 0 .. 2, opcode : Nat, keepalive : BOOLEAN]

\* What the socket holds.
Nets(msgs) == [data : Seq(Arriving(msgs)), fin : BOOLEAN, gone : BOOLEAN]

\* The fields of a reader and of its request.
LEMMA ReaderFields ==
  ASSUME NEW msgs, NEW c \in Readers(msgs)
  PROVE  /\ c \in Shapes(msgs) /\ c.buf \in Seq(Arriving(msgs)) /\ c.consumed \in Nat
         /\ c.bufsize \in Nat /\ c.upgrade \in {0, 2} /\ c.errnum \in Errors
         /\ c.req \in Requests(msgs) /\ Len(c.buf) <= c.bufsize /\ Len(c.buf) \in Nat
BY DEF Readers, Shapes

\* The fields of a request.
LEMMA RequestTypes ==
  ASSUME NEW msgs, NEW r \in Requests(msgs)
  PROVE  /\ r \in RequestFields /\ r.m \in Nat /\ r.reqlen \in Nat /\ r.contentlen \in Nat
         /\ r.consumed \in Nat /\ r.chunked \in BOOLEAN /\ r.header \in BOOLEAN
         /\ r.upgrade \in 0 .. 2 /\ r.opcode \in Nat /\ r.keepalive \in BOOLEAN
         /\ r.reqlen # 0 => r.m \in DOMAIN msgs
BY DEF Requests, RequestFields

\* A record of these types is a reader, or a request.
LEMMA IsReader ==
  ASSUME NEW msgs, NEW c \in Shapes(msgs), Len(c.buf) <= c.bufsize
  PROVE  c \in Readers(msgs)
BY DEF Readers, Shapes

\* A record of these types is a request, if it names a message.
LEMMA IsRequest ==
  ASSUME NEW msgs, NEW r \in RequestFields, r.reqlen # 0 => r.m \in DOMAIN msgs
  PROVE  r \in Requests(msgs)
BY DEF Requests, RequestFields

\* The flags of a request may change while the rest stays.
LEMMA SetFlag ==
  ASSUME NEW msgs, NEW r \in Requests(msgs), NEW b \in BOOLEAN
  PROVE  /\ [r EXCEPT !.header = b] \in Requests(msgs)
         /\ [r EXCEPT !.chunked = b] \in Requests(msgs)
         /\ [r EXCEPT !.keepalive = b] \in Requests(msgs)
<1>0. r \in RequestFields /\ (r.reqlen # 0 => r.m \in DOMAIN msgs)
  BY RequestTypes
<1>1. [r EXCEPT !.header = b] \in Requests(msgs)
  <2>1. PICK q : q = [r EXCEPT !.header = b]
    BY Zenon
  <2>2. q \in RequestFields /\ q.reqlen = r.reqlen /\ q.m = r.m
    BY <1>0, <2>1 DEF RequestFields
  <2>3. QED
    BY <1>0, <2>1, <2>2, IsRequest
<1>2. [r EXCEPT !.chunked = b] \in Requests(msgs)
  <2>1. PICK q : q = [r EXCEPT !.chunked = b]
    BY Zenon
  <2>2. q \in RequestFields /\ q.reqlen = r.reqlen /\ q.m = r.m
    BY <1>0, <2>1 DEF RequestFields
  <2>3. QED
    BY <1>0, <2>1, <2>2, IsRequest
<1>3. [r EXCEPT !.keepalive = b] \in Requests(msgs)
  <2>1. PICK q : q = [r EXCEPT !.keepalive = b]
    BY Zenon
  <2>2. q \in RequestFields /\ q.reqlen = r.reqlen /\ q.m = r.m
    BY <1>0, <2>1 DEF RequestFields
  <2>3. QED
    BY <1>0, <2>1, <2>2, IsRequest
<1>4. QED
  BY <1>1, <1>2, <1>3

\* The smaller of two numbers.
LEMMA SmallerIs ==
  ASSUME NEW a \in Int, NEW b \in Int
  PROVE  Smaller(a, b) \in Int /\ Smaller(a, b) <= a /\ Smaller(a, b) <= b
BY DEF Smaller

\* A part of what has arrived.
LEMMA PartOf ==
  ASSUME NEW S, NEW s \in Seq(S), NEW i \in Nat, NEW j \in Int, j <= Len(s)
  PROVE  /\ SubSeq(s, i + 1, j) \in Seq(S)
         /\ Len(SubSeq(s, i + 1, j)) = IF i < j THEN j - i ELSE 0
<1>1. i + 1 \in Int /\ \A k \in i + 1 .. j : s[k] \in S
  OBVIOUS
<1>2. QED
  BY <1>1, SubSeqProperties

\* The smallest of some natural numbers is one of them.
LEMMA MinIn ==
  ASSUME NEW I, I \subseteq Nat, I # {}
  PROVE  Min(I) \in I
<1>1. PICK n \in I : \A y \in I : ~(<<y, n>> \in OpToRel(<, Nat))
  BY WFMin, NatLessThanWellFounded
<1>2. \A y \in I : n <= y
  <2>1. \A y \in I : ~(y < n)
    BY <1>1, Zenon DEF OpToRel
  <2>2. QED
    BY <2>1
<1>3. QED
  BY <1>2 DEF Min

\* errnum is all that a reader has to set.
LEMMA SetErrnum ==
  ASSUME NEW msgs, NEW c \in Readers(msgs), NEW e \in Errors
  PROVE  [c EXCEPT !.errnum = e] \in Readers(msgs)
<1>1. [c EXCEPT !.errnum = e] \in Shapes(msgs)
  BY ReaderFields, Zenon DEF Shapes
<1>2. QED
  BY <1>1, ReaderFields, IsReader DEF Shapes

\* The buffer shifted, emptied or enlarged.
LEMMA ShiftTyped ==
  ASSUME NEW msgs, NEW c \in Readers(msgs)
  PROVE  Shift(c) \in Readers(msgs) /\ Shift(c).req = c.req
<1>1. /\ SubSeq(c.buf, c.consumed + 1, Len(c.buf)) \in Seq(Arriving(msgs))
      /\ Len(SubSeq(c.buf, c.consumed + 1, Len(c.buf))) <= c.bufsize
  BY ReaderFields, PartOf
<1>2. Shift(c) \in Shapes(msgs)
  <2>1. 0 \in Nat
    OBVIOUS
  <2>2. QED
    BY <1>1, <2>1, ReaderFields, Zenon DEF Shapes, Shift
<1>3. /\ Shift(c).buf = SubSeq(c.buf, c.consumed + 1, Len(c.buf))
      /\ Shift(c).bufsize = c.bufsize /\ Shift(c).req = c.req
  BY ReaderFields DEF Shift, Shapes
<1>4. QED
  BY <1>1, <1>2, <1>3, IsReader

\* The buffer after bufresize holds what it held, or what is not consumed of it.
LEMMA BufResizeTyped ==
  ASSUME NEW msgs, NEW c \in Readers(msgs)
  PROVE  /\ BufResize(c) \in Readers(msgs) /\ BufResize(c).req = c.req
         /\ BufResize(c).upgrade = c.upgrade
<1> DEFINE a == [c EXCEPT !.bufsize = InitBuf]
           b == [c EXCEPT !.buf = <<>>, !.consumed = 0]
           d == [c EXCEPT !.bufsize = 2 * @]
<1>1. a \in Readers(msgs) \/ c.bufsize # 0
  <2>1. InitBuf \in Nat
    BY BufAssumption
  <2>2. a \in Shapes(msgs)
    BY <2>1, ReaderFields, Zenon DEF Shapes
  <2>3. a.bufsize = InitBuf /\ a.buf = c.buf
    BY ReaderFields DEF Shapes
  <2> HIDE DEF a
  <2>4. QED
    BY <2>1, <2>2, <2>3, ReaderFields, IsReader
<1>2. b \in Readers(msgs)
  <2>1. <<>> \in Seq(Arriving(msgs)) /\ 0 \in Nat
    OBVIOUS
  <2>2. b \in Shapes(msgs)
    BY <2>1, ReaderFields, Zenon DEF Shapes
  <2>3. b.buf = <<>> /\ b.bufsize = c.bufsize
    BY ReaderFields DEF Shapes
  <2> HIDE DEF b
  <2>4. QED
    BY <2>2, <2>3, ReaderFields, IsReader
<1>3. d \in Readers(msgs)
  <2>1. 2 * c.bufsize \in Nat
    BY ReaderFields
  <2>2. d \in Shapes(msgs)
    BY <2>1, ReaderFields, Zenon DEF Shapes
  <2>3. d.bufsize = 2 * c.bufsize /\ d.buf = c.buf
    BY ReaderFields DEF Shapes
  <2> HIDE DEF d
  <2>4. QED
    BY <2>2, <2>3, ReaderFields, IsReader
<1>4. /\ a.req = c.req /\ b.req = c.req /\ d.req = c.req
      /\ a.upgrade = c.upgrade /\ b.upgrade = c.upgrade /\ d.upgrade = c.upgrade
      /\ Shift(c).upgrade = c.upgrade
  BY ReaderFields DEF Shapes, Shift
<1>5. BufResize(c) = IF c.bufsize = 0 THEN a ELSE IF c.consumed >= Len(c.buf) THEN b
                     ELSE IF c.consumed > (c.bufsize \div 4) * 3 THEN Shift(c)
                     ELSE IF Len(c.buf) = c.bufsize THEN d ELSE c
  BY Zenon DEF BufResize
<1> HIDE DEF a, b, d
<1>6. QED
  BY <1>1, <1>2, <1>3, <1>4, <1>5, ShiftTyped

\* recv, and what it leaves of the data.
LEMMA RecvTyped ==
  ASSUME NEW msgs, NEW net \in Nets(msgs), NEW len \in Int
  PROVE  /\ Recv(net, len).n \in Int /\ Recv(net, len).err \in Errors
         /\ Got(net, Recv(net, len)) \in Seq(Arriving(msgs))
         /\ Len(Got(net, Recv(net, len))) \in 0 .. Len(net.data)
         /\ len >= 0 => Len(Got(net, Recv(net, len))) <= len
         /\ Recv(net, len).n > 0 => Len(Got(net, Recv(net, len))) = Recv(net, len).n
<1>1. net.data \in Seq(Arriving(msgs)) /\ Len(net.data) \in Nat
  BY DEF Nets
<1>2. Smaller(len, Len(net.data)) \in Int /\ Smaller(len, Len(net.data)) <= len
      /\ Smaller(len, Len(net.data)) <= Len(net.data)
  BY <1>1 DEF Smaller
<1>3. PICK r : r = Recv(net, len)
  BY Zenon
<1>4. r.n \in Int /\ r.err \in Errors /\ (len >= 0 => r.n <= len) /\ r.n <= Len(net.data)
  BY <1>1, <1>2, <1>3 DEF Recv, Errors
<1>5. /\ Got(net, r) \in Seq(Arriving(msgs))
      /\ Len(Got(net, r)) = IF 0 < r.n THEN r.n ELSE 0
  <2>1. SubSeq(net.data, 0 + 1, r.n) \in Seq(Arriving(msgs))
        /\ Len(SubSeq(net.data, 0 + 1, r.n)) = IF 0 < r.n THEN r.n - 0 ELSE 0
    BY <1>1, <1>4, PartOf
  <2>2. QED
    BY <1>4, <2>1 DEF Got
<1>6. QED
  BY <1>1, <1>3, <1>4, <1>5

\* What recv leaves in the socket.
LEMMA LeftTyped ==
  ASSUME NEW msgs, NEW net \in Nets(msgs), NEW k \in 0 .. Len(net.data)
  PROVE  Left(net, k) \in Nets(msgs) /\ Len(Left(net, k).data) = Len(net.data) - k
<1>1. net.data \in Seq(Arriving(msgs)) /\ Len(net.data) \in Nat
  BY DEF Nets
<1>2. /\ SubSeq(net.data, k + 1, Len(net.data)) \in Seq(Arriving(msgs))
      /\ Len(SubSeq(net.data, k + 1, Len(net.data))) = Len(net.data) - k
  BY <1>1, PartOf
<1>3. QED
  BY <1>2 DEF Nets, Left

\* What a call that may have received something leaves.
Filled(f, net, msgs) ==
  /\ f.c \in Readers(msgs) /\ f.n \in Int /\ f.asked \in BOOLEAN
  /\ f.taken \in 0 .. Len(net.data)

\* xs_conn_read at the end of buf does not overrun it.
LEMMA FillTyped ==
  ASSUME NEW msgs, NEW c \in Readers(msgs), NEW ready \in BOOLEAN, NEW net \in Nets(msgs)
  PROVE  Filled(Fill(c, ready, net), net, msgs) /\ Fill(c, ready, net).c.req = c.req
         /\ Fill(c, ready, net).c.upgrade = c.upgrade
         /\ Fill(c, ready, net).c.consumed = c.consumed
<1>1. PICK r : r = Recv(net, c.bufsize - Len(c.buf))
  BY Zenon
<1>2. /\ r.n \in Int /\ r.err \in Errors /\ Got(net, r) \in Seq(Arriving(msgs))
      /\ Len(Got(net, r)) \in 0 .. Len(net.data)
      /\ Len(Got(net, r)) <= c.bufsize - Len(c.buf)
  <2>1. c.bufsize - Len(c.buf) \in Nat
    BY ReaderFields
  <2>2. QED
    BY <1>1, <2>1, RecvTyped
<1>3. PICK d : d = [c EXCEPT !.errnum = r.err, !.buf = @ \o Got(net, r)]
  BY Zenon
<1>4. c.buf \o Got(net, r) \in Seq(Arriving(msgs))
      /\ Len(c.buf \o Got(net, r)) = Len(c.buf) + Len(Got(net, r))
  BY <1>2, ReaderFields, ConcatProperties
<1>5. d \in Shapes(msgs)
  BY <1>2, <1>3, <1>4, ReaderFields, Zenon DEF Shapes
<1>6. /\ d.buf = c.buf \o Got(net, r) /\ d.bufsize = c.bufsize /\ d.req = c.req
      /\ d.upgrade = c.upgrade /\ d.consumed = c.consumed
  BY <1>3, ReaderFields DEF Shapes
<1>7. d \in Readers(msgs)
  <2>1. Len(d.buf) <= d.bufsize
    BY <1>2, <1>4, <1>6, ReaderFields
  <2>2. QED
    BY <1>5, <2>1, IsReader
<1>8. Received(c, r, net) = [c |-> d, n |-> r.n, asked |-> TRUE, taken |-> Len(Got(net, r))]
  BY <1>3, Zenon DEF Received
<1>9. Fill(c, ready, net) = IF ready THEN [c |-> c, n |-> -1, asked |-> FALSE, taken |-> 0]
                            ELSE Received(c, r, net)
  BY <1>1, Zenon DEF Fill
<1>10. Len(net.data) \in Nat
  BY DEF Nets
<1>11. CASE ready
  BY <1>9, <1>10, <1>11 DEF Filled
<1>12. CASE ~ready
  BY <1>2, <1>6, <1>7, <1>8, <1>9, <1>12 DEF Filled
<1>13. QED
  BY <1>11, <1>12

\* The head that is found begins with something and lies inside buf.
LEMMA HeadLengthInside ==
  ASSUME NEW msgs, NEW c \in Readers(msgs)
  PROVE  HeadLength(c) \in 0 .. Len(c.buf)
<1>1. Len(c.buf) \in Nat
  BY ReaderFields
<1>2. ValidRequest(c.buf) \in 0 .. Len(c.buf)
  <2> DEFINE I == {i \in 1 .. Len(c.buf) : c.buf[i].p = "end"}
  <2>1. ValidRequest(c.buf) = IF I # {} THEN Min(I) ELSE 0
    BY Zenon DEF ValidRequest, SelectInSeq
  <2>2. I \subseteq 1 .. Len(c.buf) /\ I \subseteq Nat
    BY <1>1
  <2> HIDE DEF I
  <2>3. I # {} => Min(I) \in I
    BY <2>2, MinIn
  <2>4. CASE I = {}
    BY <1>1, <2>1, <2>4
  <2>5. CASE I # {}
    <3>1. Min(I) \in 1 .. Len(c.buf)
      BY <2>2, <2>3, <2>5, Zenon
    <3>2. ValidRequest(c.buf) = Min(I)
      BY <2>1, <2>5
    <3>3. QED
      BY <1>1, <3>1, <3>2
  <2>6. QED
    BY <2>4, <2>5
<1>3. FrameValid(c.buf) \in 0 .. Len(c.buf)
  BY <1>1 DEF FrameValid
<1>4. QED
  BY <1>2, <1>3 DEF HeadLength

\* xs_conn_headerready; a head that is found is in buf.
LEMMA HeaderReadyTyped ==
  ASSUME NEW msgs, NEW c \in Readers(msgs), NEW net \in Nets(msgs)
  PROVE  LET h == HeaderReady(c, net)
         IN  Filled(h, net, msgs) /\ (h.n > 0 => Len(h.c.buf) > 0)
<1>1. PICK d : d = BufResize(c)
  BY Zenon
<1>2. d \in Readers(msgs)
  BY <1>1, BufResizeTyped
<1>3. PICK f : f = FillHead(d, net)
  BY Zenon
<1>4. Filled(f, net, msgs)
  <2>1. (HeadLength(d) > 0) \in BOOLEAN
    BY <1>2, HeadLengthInside
  <2>2. QED
    BY <1>2, <1>3, <2>1, FillTyped DEF FillHead
<1>5. f.c \in Readers(msgs) /\ f.n \in Int /\ f.asked \in BOOLEAN /\ f.taken \in 0 .. Len(net.data)
  BY <1>4 DEF Filled
<1>6. PICK e : e = [f.c EXCEPT !.errnum = "toolarge"]
  BY Zenon
<1>7. e \in Readers(msgs) /\ e.buf = f.c.buf
  <2>1. "toolarge" \in Errors
    BY DEF Errors
  <2>2. e \in Readers(msgs)
    BY <1>5, <1>6, <2>1, SetErrnum
  <2>3. e.buf = f.c.buf
    BY <1>5, <1>6, ReaderFields DEF Shapes
  <2>4. QED
    BY <2>2, <2>3
<1>8. PICK rlen : rlen = HeadLength(f.c)
  BY Zenon
<1>9. rlen \in 0 .. Len(f.c.buf) /\ Len(f.c.buf) \in Nat
  BY <1>5, <1>8, HeadLengthInside, ReaderFields
<1>10. HeaderReady(c, net) =
         [c |-> IF rlen > MaxHeader \/ Len(f.c.buf) > MaxHeader THEN e ELSE f.c,
          n |-> IF rlen > 0 THEN rlen ELSE IF f.n = 0 THEN 0 ELSE -1,
          asked |-> f.asked, taken |-> f.taken]
  BY <1>1, <1>3, <1>6, <1>8, Zenon DEF HeaderReady, HeadFound
<1>11. QED
  BY <1>5, <1>7, <1>9, <1>10 DEF Filled

\* A request or a frame as the head in buf gives it.
LEMMA ParsedRequest ==
  ASSUME NEW msgs \in Seq(Messages), NEW c \in Readers(msgs), Len(c.buf) > 0,
         NEW rlen \in Nat, NEW r \in {HttpParse(c, rlen, msgs), FrameParse(c, msgs)}
  PROVE  r \in Requests(msgs)
<1>1. c.buf[1] \in Arriving(msgs)
  BY ReaderFields
<1>2. PICK i, msg : i = c.buf[1].m /\ msg = msgs[i]
  BY Zenon
<1>3. i \in DOMAIN msgs /\ i \in Nat
  BY <1>1, <1>2 DEF Arriving
<1>4. msg \in Messages
  BY <1>2, <1>3
<1>5. /\ msg.len \in Nat /\ msg.keep \in BOOLEAN /\ msg.op \in Nat
  BY <1>4 DEF Messages
<1>6. NoReq \in RequestFields
  BY DEF NoReq, RequestFields
<1>7. CASE r = HttpParse(c, rlen, msgs)
  <2>1. PICK len, chunked, up : /\ len = IF msg.kind = "post" THEN msg.len ELSE 0
                                /\ chunked = (msg.kind = "chunked")
                                /\ up = IF msg.kind = "upgrade" THEN 1 ELSE 0
    BY Zenon
  <2>2. r = [NoReq EXCEPT !.m = i, !.reqlen = rlen, !.keepalive = msg.keep,
                          !.contentlen = len, !.chunked = chunked, !.upgrade = up]
    BY <1>2, <1>7, <2>1, Zenon DEF HttpParse
  <2>3. len \in Nat /\ chunked \in BOOLEAN /\ up \in 0 .. 2
    BY <1>5, <2>1
  <2>4. r \in RequestFields
    BY <1>3, <1>5, <1>6, <2>2, <2>3, Zenon DEF RequestFields
  <2>5. r.m = i
    BY <2>2 DEF NoReq
  <2>6. QED
    BY <1>3, <2>4, <2>5, IsRequest
<1>8. CASE r = FrameParse(c, msgs)
  <2>1. PICK keep : keep = (msg.op # 8)
    BY Zenon
  <2>2. r = [NoReq EXCEPT !.m = i, !.reqlen = 2, !.keepalive = keep,
                          !.contentlen = msg.len, !.opcode = msg.op, !.upgrade = c.upgrade]
    BY <1>2, <1>8, <2>1, Zenon DEF FrameParse
  <2>3. keep \in BOOLEAN /\ c.upgrade \in 0 .. 2 /\ 2 \in Nat
    BY <2>1, ReaderFields
  <2>4. r \in RequestFields
    BY <1>3, <1>5, <1>6, <2>2, <2>3, Zenon DEF RequestFields
  <2>5. r.m = i
    BY <2>2 DEF NoReq
  <2>6. QED
    BY <1>3, <2>4, <2>5, IsRequest
<1>9. QED
  BY <1>7, <1>8

\* xs_http_createreq.
LEMMA CreateReqTyped ==
  ASSUME NEW msgs \in Seq(Messages), NEW c \in Readers(msgs), Len(c.buf) > 0, NEW rlen \in Nat
  PROVE  CreateReq(c, rlen, msgs) \in Readers(msgs)
<1>1. PICK invalid : invalid = [c EXCEPT !.errnum = "invalid"]
  BY Zenon
<1>2. invalid \in Readers(msgs)
  <2>1. "invalid" \in Errors
    BY DEF Errors
  <2>2. QED
    BY <1>1, <2>1, SetErrnum
<1>3. PICK r : r = IF c.upgrade = 0 THEN HttpParse(c, rlen, msgs) ELSE FrameParse(c, msgs)
  BY Zenon
<1>4. r \in Requests(msgs)
  BY <1>3, ParsedRequest
<1>5. TakeReq(c, rlen, r) \in Readers(msgs)
  <2>1. PICK h : h = (r.upgrade = 0 /\ r.contentlen = 0 /\ ~r.chunked)
    BY Zenon
  <2>2. PICK q : q = [r EXCEPT !.header = h]
    BY Zenon
  <2>3. q \in Requests(msgs)
    <3>1. q \in RequestFields /\ q.reqlen = r.reqlen /\ q.m = r.m
      BY <1>4, <2>1, <2>2, RequestTypes DEF RequestFields
    <3>2. QED
      BY <1>4, <3>1, RequestTypes, IsRequest
  <2>4. PICK n, up : n = c.consumed + rlen /\ up = IF r.upgrade = 1 THEN 2 ELSE c.upgrade
    BY Zenon
  <2>5. PICK x : x = TakeReq(c, rlen, r)
    BY Zenon
  <2>6. x = [c EXCEPT !.req = q, !.consumed = n, !.upgrade = up]
    BY <2>1, <2>2, <2>4, <2>5, Zenon DEF TakeReq
  <2>7. n \in Nat /\ up \in {0, 2}
    BY <1>4, <2>4, ReaderFields, RequestTypes
  <2>8. x \in Shapes(msgs)
    BY <2>3, <2>6, <2>7, ReaderFields, Zenon DEF Shapes
  <2>9. x.buf = c.buf /\ x.bufsize = c.bufsize
    BY <2>6, ReaderFields DEF Shapes
  <2>10. QED
    BY <2>5, <2>8, <2>9, ReaderFields, IsReader
<1>6. CreateReq(c, rlen, msgs) = IF ParseFails(c, msgs) THEN invalid ELSE TakeReq(c, rlen, r)
  BY <1>1, <1>3, Zenon DEF CreateReq
<1>7. QED
  BY <1>2, <1>5, <1>6

\* xs_scan_chunk: what a size line gives.
LEMMA ScanChunkTyped ==
  ASSUME NEW msgs, NEW buf \in Seq(Arriving(msgs)), NEW i \in Nat
  PROVE  ScanChunk(buf, i).n \in Nat \union {-1} /\ ScanChunk(buf, i).next \in Nat
<1>1. PICK rest : rest = SubSeq(buf, i + 1, Len(buf))
  BY Zenon
<1>2. rest \in Seq(Arriving(msgs)) /\ Len(rest) \in Nat
  BY <1>1, PartOf
<1>3. PICK size : size = SelectInSeq(rest, LAMBDA t : t.p = "size")
  BY Zenon
<1>4. size \in 0 .. Len(rest)
  <2> DEFINE I == {j \in 1 .. Len(rest) : rest[j].p = "size"}
  <2>1. size = IF I # {} THEN Min(I) ELSE 0
    BY <1>3, Zenon DEF SelectInSeq
  <2>2. I \subseteq 1 .. Len(rest) /\ I \subseteq Nat
    BY <1>2
  <2> HIDE DEF I
  <2>3. CASE I = {}
    BY <1>2, <2>1, <2>3
  <2>4. CASE I # {}
    <3>1. Min(I) \in 1 .. Len(rest)
      BY <2>2, <2>4, MinIn
    <3>2. size = Min(I)
      BY <2>1, <2>4
    <3>3. QED
      BY <1>2, <3>1, <3>2
  <2>5. QED
    BY <2>3, <2>4
<1>5. ScanChunk(buf, i) =
        IF size = 0 \/ size = Len(rest) THEN [n |-> -1, next |-> i]
        ELSE [n |-> rest[size].k, next |-> i + size + 1 + (IF rest[size].k = 0 THEN 1 ELSE 0)]
  BY <1>1, <1>3, Zenon DEF ScanChunk
<1>6. CASE size = 0 \/ size = Len(rest)
  BY <1>5, <1>6
<1>7. CASE ~(size = 0 \/ size = Len(rest))
  <2>1. rest[size] \in Arriving(msgs)
    BY <1>2, <1>4, <1>7
  <2>2. rest[size].k \in Nat /\ size \in Nat
    BY <1>2, <1>4, <2>1 DEF Arriving
  <2>3. QED
    BY <1>5, <1>7, <2>2
<1>8. QED
  BY <1>6, <1>7

\* xs_conn_chunkready.
LEMMA ChunkReadyTyped ==
  ASSUME NEW msgs, NEW c \in Readers(msgs), NEW net \in Nets(msgs)
  PROVE  Filled(ChunkReady(c, net), net, msgs)
<1>1. PICK d : d = BufResize(c)
  BY Zenon
<1>2. d \in Readers(msgs)
  BY <1>1, BufResizeTyped
<1>3. PICK f : f = FillChunk(d, net)
  BY Zenon
<1>4. Filled(f, net, msgs)
  <2>1. (ScanChunk(d.buf, d.consumed).n >= 0) \in BOOLEAN
    BY <1>2, ReaderFields, ScanChunkTyped
  <2>2. QED
    BY <1>2, <1>3, <2>1, FillTyped DEF FillChunk
<1>5. f.c \in Readers(msgs) /\ f.n \in Int /\ f.asked \in BOOLEAN /\ f.taken \in 0 .. Len(net.data)
  BY <1>4 DEF Filled
<1>6. PICK scan : scan = ScanChunk(f.c.buf, f.c.consumed)
  BY Zenon
<1>7. scan.n \in Nat \union {-1} /\ scan.next \in Nat
  BY <1>5, <1>6, ReaderFields, ScanChunkTyped
<1>8. PICK x : x = [f.c EXCEPT !.consumed = scan.next, !.req.contentlen = @ + scan.n]
  BY Zenon
<1>9. ASSUME scan.n >= 0 PROVE x \in Readers(msgs)
  <2>1. PICK q : q = [f.c.req EXCEPT !.contentlen = @ + scan.n]
    BY Zenon
  <2>2. q \in Requests(msgs)
    <3>1. f.c.req \in Requests(msgs)
      BY <1>5, ReaderFields
    <3>2. q \in RequestFields /\ q.reqlen = f.c.req.reqlen /\ q.m = f.c.req.m
      BY <1>7, <1>9, <2>1, <3>1, RequestTypes DEF RequestFields
    <3>3. QED
      BY <3>1, <3>2, RequestTypes, IsRequest
  <2>3. x = [f.c EXCEPT !.consumed = scan.next, !.req = q]
    BY <1>8, <2>1, Zenon
  <2>4. x \in Shapes(msgs)
    BY <1>5, <1>7, <2>2, <2>3, ReaderFields, Zenon DEF Shapes
  <2>5. x.buf = f.c.buf /\ x.bufsize = f.c.bufsize
    BY <1>5, <2>3, ReaderFields DEF Shapes
  <2>6. QED
    BY <1>5, <2>4, <2>5, ReaderFields, IsReader
<1>10. ChunkReady(c, net) = [c |-> IF scan.n < 0 THEN f.c ELSE x, n |-> scan.n,
                             asked |-> f.asked, taken |-> f.taken]
  BY <1>1, <1>3, <1>6, <1>8, Zenon DEF ChunkReady, ChunkFound
<1>11. QED
  BY <1>5, <1>7, <1>9, <1>10 DEF Filled

\* What xs_conn_httpread returns: a reply of its own comes without data, and
\* what it says it has read is what it has put out.
Results(msgs) == [c : Readers(msgs), n : Int, reread : BOOLEAN, out : Seq(Arriving(msgs)),
                  asked : BOOLEAN, taken : Nat, control : {"none", "101", "pong", "ping"}]
Sound(r, net, msgs) ==
  /\ r \in Results(msgs) /\ r.taken <= Len(net.data)
  /\ r.control # "none" => r.n <= 0
  /\ r.c.errnum = "ok" /\ r.n > 0 => Len(r.out) = r.n

\* xs_conn_httpread returns without data.
LEMMA ReturnedSound ==
  ASSUME NEW msgs, NEW c \in Readers(msgs), NEW n \in Int, n <= 0 \/ c.errnum # "ok",
         NEW reread \in BOOLEAN, NEW recv, NEW net, recv.asked \in BOOLEAN, recv.taken \in 0 .. Len(net.data),
         Len(net.data) \in Nat
  PROVE  Sound(Returned(c, n, reread, recv), net, msgs)
<1>1. PICK a, t : a = recv.asked /\ t = recv.taken
  BY Zenon
<1>2. a \in BOOLEAN /\ t \in Nat /\ t <= Len(net.data)
  BY <1>1
<1>3. Returned(c, n, reread, recv) =
        [c |-> c, n |-> n, reread |-> reread, out |-> <<>>, asked |-> a, taken |-> t,
         control |-> "none"]
  BY <1>1, Zenon DEF Returned
<1>4. <<>> \in Seq(Arriving(msgs))
  OBVIOUS
<1>5. QED
  BY <1>2, <1>3, <1>4 DEF Sound, Results

\* -1 or 0.
LEMMA RetValueTyped ==
  ASSUME NEW s, NEW c
  PROVE  RetValue(s, c) \in {-1, 0}
BY DEF RetValue

\* A new request or frame, or none yet.
LEMMA NewRequestSound ==
  ASSUME NEW msgs \in Seq(Messages), NEW c \in Readers(msgs), NEW net \in Nets(msgs), NEW s
  PROVE  Sound(ReadHead(c, s, net, msgs), net, msgs)
<1>1. PICK h : h = HeaderReady(c, net)
  BY Zenon
<1>2. Filled(h, net, msgs) /\ (h.n > 0 => Len(h.c.buf) > 0)
  BY <1>1, HeaderReadyTyped
<1>3. h.c \in Readers(msgs) /\ h.n \in Int /\ h.asked \in BOOLEAN /\ h.taken \in 0 .. Len(net.data)
      /\ Len(net.data) \in Nat
  BY <1>2 DEF Filled, Nets
<1>4. PICK d : d = [h.c EXCEPT !.req = NoReq]
  BY Zenon
<1>5. d \in Readers(msgs) /\ d.buf = h.c.buf
  <2>1. NoReq \in Requests(msgs)
    BY DEF NoReq, Requests
  <2>2. d \in Shapes(msgs)
    BY <1>3, <1>4, <2>1, ReaderFields, Zenon DEF Shapes
  <2>3. d.buf = h.c.buf /\ d.bufsize = h.c.bufsize
    BY <1>3, <1>4, ReaderFields DEF Shapes
  <2>4. QED
    BY <1>3, <2>2, <2>3, ReaderFields, IsReader
<1>6. PICK e : e = CreateReq(d, h.n, msgs)
  BY Zenon
<1>7. ReadHead(c, s, net, msgs) =
        IF h.n <= 0 \/ h.c.errnum # "ok"
          THEN Returned(h.c, IF h.n # 0 THEN h.n ELSE RetValue(s, h.c), FALSE, h)
        ELSE IF e.errnum # "ok" THEN Returned(e, -1, FALSE, h)
        ELSE [Returned(e, RetValue(s, e), e.req.header \/ Buffered(e), h)
                EXCEPT !.control = ControlReply(e)]
  BY <1>1, <1>4, <1>6, Zenon DEF ReadHead, NewRequest
<1>8. CASE h.n <= 0 \/ h.c.errnum # "ok"
  <2>0. PICK no : no = FALSE /\ no \in BOOLEAN
    OBVIOUS
  <2>1. PICK n : n = IF h.n # 0 THEN h.n ELSE RetValue(s, h.c)
    BY Zenon
  <2>2. n \in Int
    BY <1>3, <2>1, RetValueTyped
  <2>3. ReadHead(c, s, net, msgs) = Returned(h.c, n, no, h)
    BY <1>7, <1>8, <2>0, <2>1, Zenon
  <2>4. CASE h.n <= 0
    <3>1. n <= 0
      BY <1>3, <2>1, <2>4, RetValueTyped
    <3>2. QED
      BY <1>3, <2>0, <2>2, <2>3, <3>1, ReturnedSound
  <2>5. CASE h.n > 0
    <3>1. h.c.errnum # "ok"
      BY <1>3, <1>8, <2>5
    <3>2. QED
      BY <1>3, <2>0, <2>2, <2>3, <3>1, ReturnedSound
  <2>6. QED
    BY <1>3, <2>4, <2>5
<1>9. CASE h.n > 0 /\ h.c.errnum = "ok"
  <2>0. ~(h.n <= 0 \/ h.c.errnum # "ok")
    BY <1>3, <1>9
  <2>1. e \in Readers(msgs)
    BY <1>2, <1>3, <1>5, <1>6, <1>9, CreateReqTyped
  <2>2. PICK k, more : k = RetValue(s, e) /\ more = (e.req.header \/ Buffered(e))
    BY Zenon
  <2>3. k \in Int /\ k <= 0 /\ more \in BOOLEAN
    BY <2>2, RetValueTyped
  <2>4. CASE e.errnum # "ok"
    <3>0. PICK no : no = FALSE /\ no \in BOOLEAN
      OBVIOUS
    <3>1. PICK minus : minus = -1
      BY Zenon
    <3>2. ReadHead(c, s, net, msgs) = Returned(e, minus, no, h)
      BY <1>7, <2>0, <2>4, <3>0, <3>1, Zenon
    <3>3. minus \in Int /\ minus <= 0
      BY <3>1
    <3>4. QED
      BY <1>3, <2>1, <3>0, <3>2, <3>3, ReturnedSound
  <2>5. CASE e.errnum = "ok"
    <3>1. PICK r : r = Returned(e, k, more, h)
      BY Zenon
    <3>2. Sound(r, net, msgs)
      <4>1. Sound(Returned(e, k, more, h), net, msgs)
        BY <1>3, <2>1, <2>3, ReturnedSound
      <4>2. QED
        BY <3>1, <4>1
    <3>3. PICK reply : reply = ControlReply(e)
      BY Zenon
    <3>4. reply \in {"none", "101", "pong", "ping"}
      BY <3>3 DEF ControlReply
    <3>5. ReadHead(c, s, net, msgs) = [r EXCEPT !.control = reply]
      BY <1>7, <2>0, <2>2, <2>5, <3>1, <3>3, Zenon
    <3>6. r.n = k
      BY <3>1 DEF Returned
    <3>7. QED
      BY <2>3, <3>2, <3>4, <3>5, <3>6 DEF Sound, Results
  <2>6. QED
    BY <2>4, <2>5
<1>10. QED
  BY <1>3, <1>8, <1>9

\* Only the request of a reader changes.
LEMMA SetReq ==
  ASSUME NEW msgs, NEW c \in Readers(msgs), NEW q \in Requests(msgs)
  PROVE  [c EXCEPT !.req = q] \in Readers(msgs)
<1>1. [c EXCEPT !.req = q] \in Shapes(msgs)
  BY ReaderFields, Zenon DEF Shapes
<1>2. QED
  BY <1>1, ReaderFields, IsReader DEF Shapes

\* More of the body has been read.
LEMMA ConsumedMore ==
  ASSUME NEW msgs, NEW r \in Requests(msgs), NEW n \in Nat
  PROVE  [r EXCEPT !.consumed = @ + n] \in Requests(msgs)
<1>1. PICK q : q = [r EXCEPT !.consumed = @ + n]
  BY Zenon
<1>2. q \in RequestFields /\ q.reqlen = r.reqlen /\ q.m = r.m
  BY <1>1, RequestTypes DEF RequestFields
<1>3. QED
  BY <1>1, <1>2, RequestTypes, IsRequest

\* A piece of the body, after a recv that may have taken something from all.
LEMMA ReadBodySound ==
  ASSUME NEW msgs, NEW c \in Readers(msgs), NEW len \in Nat, NEW net \in Nets(msgs),
         NEW all \in Nets(msgs), NEW recv, recv.asked \in BOOLEAN, recv.taken \in Nat,
         recv.taken + Len(net.data) <= Len(all.data)
  PROVE  Sound(ReadBody(c, len, net, recv), all, msgs)
<1> DEFINE want == Smaller(len, c.req.contentlen - c.req.consumed)
           n == Smaller(want, Len(c.buf) - c.consumed)
           r == Recv(net, want)
           got == Got(net, r)
           buffered == [c EXCEPT !.consumed = @ + n, !.req.consumed = @ + n]
           received == [c EXCEPT !.errnum = r.err, !.req.consumed = @ + Len(got)]
<1>1. ReadBody(c, len, net, recv) =
        IF n > 0
          THEN [Returned(buffered, n, Buffered(buffered), recv)
                  EXCEPT !.out = SubSeq(c.buf, c.consumed + 1, c.consumed + n)]
          ELSE [Returned(received, r.n, r.n = want,
                         [asked |-> TRUE, taken |-> recv.taken + Len(got)]) EXCEPT !.out = got]
  BY Zenon DEF ReadBody
<1>2. want \in Int /\ n \in Int /\ n <= Len(c.buf) - c.consumed
  <2>1. c.req.contentlen \in Nat /\ c.req.consumed \in Nat /\ c.consumed \in Nat
        /\ Len(c.buf) \in Nat
    BY ReaderFields, RequestTypes
  <2>2. PICK left, kept : /\ left = c.req.contentlen - c.req.consumed
                         /\ kept = Len(c.buf) - c.consumed /\ left \in Int /\ kept \in Int
    BY <2>1
  <2>3. want = Smaller(len, left) /\ n = Smaller(want, kept)
    BY <2>2, Zenon
  <2> HIDE DEF want, n
  <2>4. len \in Int
    OBVIOUS
  <2>5. want \in Int
    BY <2>2, <2>3, <2>4, SmallerIs, Zenon
  <2>6. n \in Int /\ n <= kept
    BY <2>2, <2>3, <2>5, SmallerIs, Zenon
  <2>7. QED
    BY <2>2, <2>5, <2>6
<1> HIDE DEF want, n
<1>5. /\ r.n \in Int /\ r.err \in Errors /\ got \in Seq(Arriving(msgs))
      /\ Len(got) \in 0 .. Len(net.data) /\ (r.n > 0 => Len(got) = r.n)
  BY <1>2, RecvTyped
<1>6. Len(net.data) \in Nat /\ Len(all.data) \in Nat
  BY DEF Nets
<1> HIDE DEF r, got
<1>7. buffered = [c EXCEPT !.consumed = @ + n, !.req.consumed = @ + n]
  BY Zenon
<1>8. received = [c EXCEPT !.errnum = r.err, !.req.consumed = @ + Len(got)]
  BY Zenon
<1> HIDE DEF buffered, received
<1>10. CASE n > 0
  <2>1. buffered \in Readers(msgs)
    <3>1. PICK q : q = [c.req EXCEPT !.consumed = @ + n]
      BY Zenon
    <3>2. q \in Requests(msgs)
      BY <1>2, <1>10, <3>1, ReaderFields, ConsumedMore
    <3>3. PICK x : x = [c EXCEPT !.consumed = @ + n]
      BY Zenon
    <3>4. x \in Readers(msgs)
      <4>1. c.consumed + n \in Nat
        BY <1>2, <1>10, ReaderFields
      <4>2. x \in Shapes(msgs)
        BY <3>3, <4>1, ReaderFields, Zenon DEF Shapes
      <4>3. x.buf = c.buf /\ x.bufsize = c.bufsize
        BY <3>3, ReaderFields DEF Shapes
      <4>4. QED
        BY <4>2, <4>3, ReaderFields, IsReader
    <3>5. buffered = [x EXCEPT !.req = q]
      BY <1>7, <3>1, <3>3, Zenon
    <3>6. QED
      BY <3>2, <3>4, <3>5, SetReq
  <2>2. PICK out : out = SubSeq(c.buf, c.consumed + 1, c.consumed + n)
    BY Zenon
  <2>3. out \in Seq(Arriving(msgs)) /\ Len(out) = n
    <3>1. c.consumed \in Nat /\ c.consumed + n \in Int /\ c.consumed + n <= Len(c.buf)
          /\ c.buf \in Seq(Arriving(msgs))
      BY <1>2, ReaderFields
    <3>2. /\ out \in Seq(Arriving(msgs))
          /\ Len(out) = IF c.consumed < c.consumed + n THEN (c.consumed + n) - c.consumed ELSE 0
      BY <2>2, <3>1, PartOf
    <3>3. QED
      BY <1>2, <1>10, <3>1, <3>2
  <2>4. PICK more, a, t : more = Buffered(buffered) /\ a = recv.asked /\ t = recv.taken
    BY Zenon
  <2>5. more \in BOOLEAN
    BY <2>4 DEF Buffered
  <2>6. ReadBody(c, len, net, recv) = [c |-> buffered, n |-> n, reread |-> more, out |-> out,
                                       asked |-> a, taken |-> t, control |-> "none"]
    BY <1>1, <1>10, <2>2, <2>4 DEF Returned
  <2>7. a \in BOOLEAN /\ t \in Nat /\ t <= Len(all.data)
    BY <1>6, <2>4
  <2>8. QED
    BY <1>2, <2>1, <2>3, <2>5, <2>6, <2>7 DEF Sound, Results
<1>11. CASE ~(n > 0)
  <2>1. received \in Readers(msgs)
    <3>1. PICK q : q = [c.req EXCEPT !.consumed = @ + Len(got)]
      BY Zenon
    <3>2. q \in Requests(msgs)
      <4>1. Len(got) \in Nat
        BY <1>5
      <4>2. QED
        BY <3>1, <4>1, ReaderFields, ConsumedMore
    <3>3. PICK x : x = [c EXCEPT !.errnum = r.err]
      BY Zenon
    <3>4. x \in Readers(msgs)
      BY <1>5, <3>3, SetErrnum
    <3>5. received = [x EXCEPT !.req = q]
      BY <1>8, <3>1, <3>3, Zenon
    <3>6. QED
      BY <3>2, <3>4, <3>5, SetReq
  <2>2. PICK more, t : more = (r.n = want) /\ t = recv.taken + Len(got)
    BY Zenon
  <2>3. more \in BOOLEAN /\ t \in Nat /\ t <= Len(all.data)
    BY <1>5, <1>6, <2>2
  <2>4. ReadBody(c, len, net, recv) = [c |-> received, n |-> r.n, reread |-> more, out |-> got,
                                       asked |-> TRUE, taken |-> t, control |-> "none"]
    BY <1>1, <1>11, <2>2 DEF Returned
  <2>5. QED
    BY <1>5, <2>1, <2>3, <2>4 DEF Sound, Results
<1>12. QED
  BY <1>10, <1>11

\* The next chunk, or a piece of the one being read.
LEMMA ReadChunkedSound ==
  ASSUME NEW msgs, NEW c \in Readers(msgs), NEW s, NEW len \in Nat, NEW net \in Nets(msgs)
  PROVE  Sound(ReadChunked(c, s, len, net), net, msgs)
<1>1. CASE c.req.consumed < c.req.contentlen
  <2>1. PICK recv : recv = NotAsked
    BY Zenon
  <2>2. recv.asked \in BOOLEAN /\ recv.taken \in Nat /\ recv.taken + Len(net.data) <= Len(net.data)
    BY <2>1 DEF NotAsked, Nets
  <2>3. ReadChunked(c, s, len, net) = ReadBody(c, len, net, recv)
    BY <1>1, <2>1 DEF ReadChunked
  <2>4. QED
    BY <2>2, <2>3, ReadBodySound
<1>2. CASE ~(c.req.consumed < c.req.contentlen)
  <2>1. PICK k : k = ChunkReady(c, net)
    BY Zenon
  <2>2. /\ k.c \in Readers(msgs) /\ k.n \in Int /\ k.asked \in BOOLEAN
        /\ k.taken \in 0 .. Len(net.data) /\ Len(net.data) \in Nat
    BY <2>1, ChunkReadyTyped DEF Filled, Nets
  <2>3. PICK ended : ended = [k.c EXCEPT !.req.chunked = (k.n # 0)]
    BY Zenon
  <2>4. ReadChunked(c, s, len, net) =
          IF k.n > 0 THEN ReadBody(k.c, len, Left(net, k.taken), k)
          ELSE Returned(ended, RetValue(s, ended), Buffered(ended), k)
    BY <1>2, <2>1, <2>3, Zenon DEF ReadChunked, NextChunk
  <2>5. CASE k.n > 0
    <3>1. PICK rest : rest = Left(net, k.taken)
      BY Zenon
    <3>2. rest \in Nets(msgs) /\ k.taken + Len(rest.data) <= Len(net.data) /\ k.taken \in Nat
      BY <2>2, <3>1, LeftTyped
    <3>3. ReadChunked(c, s, len, net) = ReadBody(k.c, len, rest, k)
      BY <2>4, <2>5, <3>1
    <3>4. QED
      BY <2>2, <3>2, <3>3, ReadBodySound
  <2>6. CASE ~(k.n > 0)
    <3>1. PICK q : q = [k.c.req EXCEPT !.chunked = (k.n # 0)]
      BY Zenon
    <3>2. q \in Requests(msgs)
      <4>1. k.c.req \in Requests(msgs)
        BY <2>2, ReaderFields
      <4>2. QED
        BY <3>1, <4>1, SetFlag, Zenon
    <3>3. ended = [k.c EXCEPT !.req = q]
      BY <2>3, <3>1, Zenon
    <3>4. ended \in Readers(msgs)
      BY <2>2, <3>2, <3>3, SetReq
    <3>5. PICK n, more : n = RetValue(s, ended) /\ more = Buffered(ended)
      BY Zenon
    <3>6. n \in Int /\ n <= 0
      BY <3>5, RetValueTyped
    <3>7. more \in BOOLEAN
      BY <3>5 DEF Buffered
    <3>8. ReadChunked(c, s, len, net) = Returned(ended, n, more, k)
      BY <2>4, <2>6, <3>5, Zenon
    <3>9. Sound(Returned(ended, n, more, k), net, msgs)
      BY <2>2, <3>4, <3>6, <3>7, ReturnedSound
    <3>10. QED
      BY <3>8, <3>9
  <2>7. QED
    BY <2>2, <2>5, <2>6
<1>3. QED
  BY <1>1, <1>2

\* xs_conn_httpread keeps the types, and puts out what it says it has read.
THEOREM HttpReadSound ==
  ASSUME NEW msgs \in Seq(Messages), NEW old \in Readers(msgs), NEW len \in Nat,
         NEW net \in Nets(msgs)
  PROVE  Sound(HttpRead(old, len, net, msgs), net, msgs)
<1> DEFINE c == [old EXCEPT !.errnum = "ok"]
           s == ConnState(c)
           fresh == [Shift(c) EXCEPT !.req.reqlen = 0]
           told == [c EXCEPT !.req.header = FALSE]
<1>1. HttpRead(old, len, net, msgs) =
        IF s = "complete" THEN ReadHead(fresh, "last", net, msgs)
        ELSE IF s = "header" /\ c.req.header THEN Returned(told, 0, Buffered(c), NotAsked)
        ELSE IF c.req.reqlen = 0 THEN ReadHead(c, s, net, msgs)
        ELSE IF c.req.chunked THEN ReadChunked(c, s, len, net)
        ELSE ReadBody(c, len, net, NotAsked)
  BY Zenon DEF HttpRead, ReadOn
<1>2. c \in Readers(msgs)
  <2>1. "ok" \in Errors
    BY DEF Errors
  <2>2. QED
    BY <2>1, SetErrnum
<1> HIDE DEF c
<1>4. fresh = [Shift(c) EXCEPT !.req.reqlen = 0]
  BY Zenon
<1>5. told = [c EXCEPT !.req.header = FALSE]
  BY Zenon
<1> HIDE DEF s, fresh, told
<1>7. fresh \in Readers(msgs)
  <2>1. PICK q : q = [c.req EXCEPT !.reqlen = 0]
    BY Zenon
  <2>2. q \in Requests(msgs)
    <3>1. c.req \in Requests(msgs)
      BY <1>2, ReaderFields
    <3>2. q \in RequestFields /\ q.reqlen = 0
      BY <2>1, <3>1, RequestTypes DEF RequestFields
    <3>3. QED
      BY <3>2, IsRequest
  <2>3. PICK x : x = Shift(c)
    BY Zenon
  <2>4. x \in Readers(msgs) /\ x.req = c.req
    BY <1>2, <2>3, ShiftTyped
  <2>5. fresh = [x EXCEPT !.req = q]
    <3>1. fresh = [x EXCEPT !.req = [x.req EXCEPT !.reqlen = 0]]
      BY <1>4, <2>3, Zenon
    <3>2. QED
      BY <2>1, <2>4, <3>1, Zenon
  <2>6. QED
    BY <2>2, <2>4, <2>5, SetReq
<1>8. told \in Readers(msgs)
  <2>1. PICK q : q = [c.req EXCEPT !.header = FALSE]
    BY Zenon
  <2>2. q \in Requests(msgs)
    <3>1. c.req \in Requests(msgs)
      BY <1>2, ReaderFields
    <3>2. QED
      BY <2>1, <3>1, SetFlag, Zenon
  <2>3. told = [c EXCEPT !.req = q]
    BY <1>5, <2>1, Zenon
  <2>4. QED
    BY <1>2, <2>2, <2>3, SetReq
<1>9. PICK recv, any, zero, more : /\ recv = NotAsked /\ any = "last" /\ zero = 0
                                    /\ more = Buffered(c)
  BY Zenon
<1>10. /\ recv.asked \in BOOLEAN /\ recv.taken \in Nat /\ recv.taken \in 0 .. Len(net.data)
       /\ recv.taken + Len(net.data) <= Len(net.data) /\ Len(net.data) \in Nat
       /\ zero \in Int /\ zero <= 0
  BY <1>9 DEF NotAsked, Nets
<1>11. more \in BOOLEAN
  BY <1>9 DEF Buffered
<1>12. /\ Sound(ReadHead(fresh, any, net, msgs), net, msgs)
       /\ Sound(ReadHead(c, s, net, msgs), net, msgs)
  BY <1>2, <1>7, NewRequestSound
<1>13. Sound(Returned(told, zero, more, recv), net, msgs)
  BY <1>8, <1>10, <1>11, ReturnedSound
<1>14. Sound(ReadChunked(c, s, len, net), net, msgs)
  BY <1>2, ReadChunkedSound
<1>15. Sound(ReadBody(c, len, net, recv), net, msgs)
  BY <1>2, <1>10, ReadBodySound
<1>16. QED
  BY <1>1, <1>9, <1>12, <1>13, <1>14, <1>15, Zenon

-----------------------------------------------------------------------------
(***************************************************************************)
(* Induction, prefix sums and the cutting of a flattened sequence.         *)
(***************************************************************************)
\* A set of numbers with 0 and with every successor holds them all.
LEMMA Every ==
  ASSUME NEW G \in SUBSET Nat, 0 \in G, \A n \in G : n + 1 \in G
  PROVE  G = Nat
<1>1. SUFFICES ASSUME NEW m \in Nat \ G PROVE FALSE
  OBVIOUS
<1>2. PICK x \in Nat \ G : \A y \in Nat \ G : ~(<<y, x>> \in OpToRel(<, Nat))
  <2>1. Nat \ G # {} /\ Nat \ G \subseteq Nat
    BY <1>1
  <2>2. QED
    BY <2>1, WFMin, NatLessThanWellFounded
<1>3. \A y \in Nat \ G : ~(y < x)
  BY <1>2, Zenon DEF OpToRel
<1>a. x \in Nat /\ x \notin G
  BY <1>2, Zenon
<1>4. x # 0 /\ x - 1 \in Nat /\ x - 1 < x
  BY <1>a
<1>5. x - 1 \notin G
  <2>1. x - 1 \in G => (x - 1) + 1 \in G
    OBVIOUS
  <2>2. (x - 1) + 1 = x
    BY <1>a
  <2>3. QED
    BY <1>a, <2>1, <2>2
<1>6. QED
  BY <1>3, <1>4, <1>5

\* f[j] is the size of the first j of n chunks together.
SumsTo(chunks, n, f) == f = [j \in 0 .. n |-> IF j = 0 THEN 0 ELSE f[j - 1] + chunks[j]]

\* The size of the first chunks together.
LEMMA UpToIs ==
  ASSUME NEW chunks \in Seq(Nat \ {0})
  PROVE  /\ UpTo(chunks) \in [0 .. Len(chunks) -> Nat] /\ UpTo(chunks)[0] = 0
         /\ \A j \in 0 .. Len(chunks) - 1 : UpTo(chunks)[j + 1] = UpTo(chunks)[j] + chunks[j + 1]
<1> DEFINE Has(n) == n <= Len(chunks) => \E f \in [0 .. n -> Nat] : SumsTo(chunks, n, f)
           Done == {n \in Nat : Has(n)}
<1>0. Len(chunks) \in Nat /\ \A j \in 1 .. Len(chunks) : chunks[j] \in Nat
  OBVIOUS
<1>1. Has(0)
  <2> DEFINE f == [j \in 0 .. 0 |-> 0]
  <2>1. f \in [0 .. 0 -> Nat]
    OBVIOUS
  <2>2. SumsTo(chunks, 0, f)
    <3>1. \A j \in 0 .. 0 : j = 0
      OBVIOUS
    <3>2. \A j \in 0 .. 0 : f[j] = IF j = 0 THEN 0 ELSE f[j - 1] + chunks[j]
      BY <3>1
    <3>3. QED
      BY <3>2, Zenon DEF SumsTo
  <2>3. QED
    BY <2>1, <2>2
<1>2. ASSUME NEW n \in Nat, Has(n) PROVE Has(n + 1)
  <2>1. SUFFICES ASSUME n + 1 <= Len(chunks)
                 PROVE  \E f \in [0 .. n + 1 -> Nat] : SumsTo(chunks, n + 1, f)
    OBVIOUS
  <2>2. PICK f \in [0 .. n -> Nat] : SumsTo(chunks, n, f)
    BY <1>0, <1>2, <2>1
  <2> DEFINE g == [j \in 0 .. n + 1 |-> IF j <= n THEN f[j] ELSE f[n] + chunks[n + 1]]
  <2>3. n \in Nat /\ chunks[n + 1] \in Nat /\ f[n] \in Nat
    BY <1>0, <2>1
  <2>4. g \in [0 .. n + 1 -> Nat]
    BY <2>3
  <2>5. SumsTo(chunks, n + 1, g)
    <3>1. \A j \in 0 .. n : f[j] = IF j = 0 THEN 0 ELSE f[j - 1] + chunks[j]
      BY <2>2 DEF SumsTo
    <3>2. ASSUME NEW j \in 0 .. n + 1
          PROVE  g[j] = IF j = 0 THEN 0 ELSE g[j - 1] + chunks[j]
      <4>1. CASE j = 0
        BY <2>3, <3>1, <4>1
      <4>2. CASE j \in 1 .. n
        <5>1. j - 1 \in 0 .. n /\ j \in 0 .. n /\ g[j] = f[j] /\ g[j - 1] = f[j - 1]
          BY <2>3, <4>2
        <5>2. QED
          BY <2>3, <3>1, <4>2, <5>1
      <4>3. CASE j = n + 1
        BY <2>3, <4>3
      <4>4. QED
        BY <2>3, <4>1, <4>2, <4>3
    <3>3. QED
      BY <3>2, Zenon DEF SumsTo
  <2> HIDE DEF g
  <2>6. QED
    BY <2>4, <2>5
<1>3. Has(Len(chunks))
  <2> HIDE DEF Has
  <2>1. Done \in SUBSET Nat /\ 0 \in Done /\ \A n \in Done : n + 1 \in Done
    BY <1>1, <1>2
  <2> HIDE DEF Done
  <2>2. Done = Nat
    BY <2>1, Every, Zenon
  <2>3. QED
    BY <1>0, <2>2 DEF Done
<1>4. PICK f \in [0 .. Len(chunks) -> Nat] : SumsTo(chunks, Len(chunks), f)
  BY <1>0, <1>3
<1>5. SumsTo(chunks, Len(chunks), UpTo(chunks))
  <2>1. UpTo(chunks) = CHOOSE g : SumsTo(chunks, Len(chunks), g)
    BY Zenon DEF UpTo, SumsTo
  <2>2. QED
    BY <1>4, <2>1
<1>6. PICK u : u = UpTo(chunks)
  BY Zenon
<1>7. u = [j \in 0 .. Len(chunks) |-> IF j = 0 THEN 0 ELSE u[j - 1] + chunks[j]]
  BY <1>5, <1>6, Zenon DEF SumsTo
<1> HIDE DEF Has, Done
<1>8. DOMAIN u = 0 .. Len(chunks) /\ u = [j \in 0 .. Len(chunks) |-> u[j]]
  <2>1. DOMAIN u = 0 .. Len(chunks)
    BY <1>7
  <2>2. \A j \in 0 .. Len(chunks) : [k \in 0 .. Len(chunks) |-> u[k]][j] = u[j]
    OBVIOUS
  <2>3. u = [j \in DOMAIN u |-> u[j]]
    BY <1>7
  <2>4. QED
    BY <2>1, <2>3
<1>9. /\ u[0] = 0
      /\ \A j \in 0 .. Len(chunks) - 1 : u[j + 1] = u[j] + chunks[j + 1]
  <2>1. \A j \in 0 .. Len(chunks) : u[j] = IF j = 0 THEN 0 ELSE u[j - 1] + chunks[j]
    BY <1>7
  <2>2. ASSUME NEW j \in 0 .. Len(chunks) - 1 PROVE u[j + 1] = u[j] + chunks[j + 1]
    <3>1. j + 1 \in 0 .. Len(chunks) /\ j + 1 # 0 /\ (j + 1) - 1 = j
      BY <1>0
    <3>2. QED
      BY <2>1, <3>1
  <2>3. QED
    BY <1>0, <2>1, <2>2
<1>10. \A j \in 0 .. Len(chunks) : u[j] \in Nat
  <2> DEFINE Typed == {n \in Nat : n <= Len(chunks) => u[n] \in Nat}
  <2>1. 0 \in Typed
    BY <1>9
  <2>2. ASSUME NEW n \in Typed PROVE n + 1 \in Typed
    <3>1. SUFFICES ASSUME n + 1 <= Len(chunks) PROVE u[n + 1] \in Nat
      OBVIOUS
    <3>2. n \in 0 .. Len(chunks) - 1 /\ u[n] \in Nat /\ chunks[n + 1] \in Nat
      BY <1>0, <3>1
    <3>3. QED
      BY <1>9, <3>2
  <2>3. Typed = Nat
    <3> HIDE DEF Typed
    <3>1. Typed \in SUBSET Nat
      BY DEF Typed
    <3>2. QED
      BY <2>1, <2>2, <3>1, Every
  <2>4. QED
    BY <1>0, <2>3
<1>11. QED
  BY <1>6, <1>8, <1>9, <1>10

\* What stands where in a concatenation.
LEMMA ConcatParts ==
  ASSUME NEW S, NEW s \in Seq(S), NEW t \in Seq(S)
  PROVE  /\ s \o t \in Seq(S) /\ Len(s \o t) = Len(s) + Len(t)
         /\ \A k \in 1 .. Len(s) : (s \o t)[k] = s[k]
         /\ \A k \in 1 .. Len(t) : (s \o t)[Len(s) + k] = t[k]
<1>1. Len(s) \in Nat /\ Len(t) \in Nat
  OBVIOUS
<1>2. ASSUME NEW k \in 1 .. Len(t) PROVE (s \o t)[Len(s) + k] = t[k]
  <2>1. Len(s) + k \in 1 .. Len(s) + Len(t) /\ ~(Len(s) + k <= Len(s)) /\ (Len(s) + k) - Len(s) = k
    BY <1>1
  <2>2. QED
    BY <2>1, ConcatProperties
<1>3. ASSUME NEW k \in 1 .. Len(s) PROVE (s \o t)[k] = s[k]
  <2>1. k \in 1 .. Len(s) + Len(t) /\ k <= Len(s)
    BY <1>1
  <2>2. QED
    BY <2>1, ConcatProperties
<1>4. QED
  BY <1>2, <1>3, ConcatProperties

\* Where each part of a flattened sequence begins, and what stands there.
Cuts(q, s, n, B) ==
  /\ B[1] = 0 /\ B[n + 1] = Len(s)
  /\ \A i \in 1 .. n : /\ B[i + 1] = B[i] + Len(q[i]) /\ B[i + 1] <= Len(s)
                       /\ \A k \in 1 .. Len(q[i]) : s[B[i] + k] = q[i][k]

\* One part more.
LEMMA CutsMore ==
  ASSUME NEW T, NEW q, NEW n \in Nat, NEW s \in Seq(T), q[n + 1] \in Seq(T),
         \A i \in 1 .. n : q[i] \in Seq(T),
         NEW B \in [1 .. n + 1 -> Nat], Cuts(q, s, n, B)
  PROVE  /\ s \o q[n + 1] \in Seq(T)
         /\ \E D \in [1 .. n + 2 -> Nat] : Cuts(q, s \o q[n + 1], n + 1, D)
<1>1. PICK x : x = q[n + 1]
  BY Zenon
<1>2. PICK u : u = s \o x
  BY Zenon
<1>3. x \in Seq(T) /\ Len(x) \in Nat /\ Len(s) \in Nat
  BY <1>1
<1>4. /\ u \in Seq(T) /\ Len(u) = Len(s) + Len(x)
      /\ \A k \in 1 .. Len(s) : u[k] = s[k]
      /\ \A k \in 1 .. Len(x) : u[Len(s) + k] = x[k]
  BY <1>2, <1>3, ConcatParts
<1> DEFINE D == [i \in 1 .. n + 2 |-> IF i <= n + 1 THEN B[i] ELSE Len(u)]
<1>5. D \in [1 .. n + 2 -> Nat]
  BY <1>3, <1>4
<1>6. /\ \A i \in 1 .. n + 1 : D[i] = B[i]
      /\ D[n + 2] = Len(u)
  OBVIOUS
<1>7. /\ B[1] = 0 /\ B[n + 1] = Len(s)
      /\ \A i \in 1 .. n : /\ B[i + 1] = B[i] + Len(q[i]) /\ B[i + 1] <= Len(s)
                           /\ \A k \in 1 .. Len(q[i]) : s[B[i] + k] = q[i][k]
      /\ \A i \in 1 .. n + 1 : B[i] \in Nat
  BY Zenon DEF Cuts
<1> HIDE DEF D
<1>9. ASSUME NEW i \in 1 .. n
      PROVE  /\ D[i + 1] = D[i] + Len(q[i]) /\ D[i + 1] <= Len(u)
             /\ \A k \in 1 .. Len(q[i]) : u[D[i] + k] = q[i][k]
  <2>0. i \in 1 .. n + 1 /\ i + 1 \in 1 .. n + 1
    OBVIOUS
  <2>1. D[i] = B[i] /\ D[i + 1] = B[i + 1]
    BY <1>6, <2>0
  <2>2. B[i + 1] = B[i] + Len(q[i]) /\ B[i] \in Nat /\ B[i + 1] <= Len(s)
    BY <1>7, <2>0
  <2>3. q[i] \in Seq(T) /\ Len(q[i]) \in Nat
    OBVIOUS
  <2>4. ASSUME NEW k \in 1 .. Len(q[i]) PROVE u[D[i] + k] = q[i][k]
    <3>1. PICK a, l : a = B[i] /\ l = Len(q[i])
      BY Zenon
    <3>2. a + k \in 1 .. Len(s)
      <4>1. a \in Nat /\ l \in Nat /\ k \in 1 .. l /\ a + l <= Len(s)
        BY <2>2, <2>3, <3>1
      <4>2. QED
        BY <1>3, <4>1
    <3>3. s[a + k] = q[i][k]
      BY <1>7, <3>1
    <3>4. QED
      BY <1>4, <2>1, <3>1, <3>2, <3>3
  <2>5. Len(s) <= Len(u)
    BY <1>3, <1>4
  <2>6. D[i + 1] <= Len(u)
    BY <1>3, <1>4, <2>1, <2>2, <2>5
  <2>7. QED
    BY <2>1, <2>2, <2>4, <2>6
<1>10. D[n + 2] = D[n + 1] + Len(x) /\ D[n + 2] <= Len(u) /\ \A k \in 1 .. Len(x) : u[D[n + 1] + k] = x[k]
  <2>1. D[n + 1] = Len(s)
    BY <1>6, <1>7
  <2>2. QED
    BY <1>4, <1>6, <2>1
<1>11. ASSUME NEW i \in 1 .. n + 1
       PROVE  /\ D[i + 1] = D[i] + Len(q[i]) /\ D[i + 1] <= Len(u)
              /\ \A k \in 1 .. Len(q[i]) : u[D[i] + k] = q[i][k]
  <2>1. CASE i = n + 1
    <3>1. q[i] = x /\ i + 1 = n + 2
      BY <1>1, <2>1
    <3>2. QED
      BY <1>10, <2>1, <3>1
  <2>2. CASE i # n + 1
    <3>1. i \in 1 .. n
      BY <2>2
    <3>2. QED
      BY <1>9, <3>1
  <2>3. QED
    BY <2>1, <2>2
<1>12. D[1] = 0 /\ D[(n + 1) + 1] = Len(u)
  <2>1. 1 \in 1 .. n + 1 /\ (n + 1) + 1 = n + 2
    OBVIOUS
  <2>2. QED
    BY <1>6, <1>7, <2>1
<1>13. Cuts(q, u, n + 1, D)
  BY <1>11, <1>12 DEF Cuts
<1>14. QED
  BY <1>1, <1>2, <1>4, <1>5, <1>13

\* The parts of a sequence joined one after the other, from the first to each.
JoinedTo(q, n, f) == f = [i \in 1 .. n |-> IF i = 1 THEN q[i] ELSE f[i - 1] \o q[i]]

\* Joined from the first part on.
LEMMA JoinedExists ==
  ASSUME NEW T, NEW q \in Seq(Seq(T)), Len(q) # 0
  PROVE  \E f : JoinedTo(q, Len(q), f)
<1> DEFINE Has(n) == n + 1 <= Len(q) => \E f \in [1 .. n + 1 -> Seq(T)] : JoinedTo(q, n + 1, f)
           Done == {n \in Nat : Has(n)}
<1>0. Len(q) \in Nat /\ \A j \in 1 .. Len(q) : q[j] \in Seq(T)
  OBVIOUS
<1>1. Has(0)
  <2> DEFINE f == [i \in 1 .. 0 + 1 |-> q[1]]
  <2>1. f \in [1 .. 0 + 1 -> Seq(T)]
    BY <1>0
  <2>2. JoinedTo(q, 0 + 1, f)
    <3>1. \A i \in 1 .. 0 + 1 : i = 1
      OBVIOUS
    <3>2. \A i \in 1 .. 0 + 1 : q[1] = IF i = 1 THEN q[i] ELSE f[i - 1] \o q[i]
      BY <3>1
    <3>3. QED
      BY <3>2, Zenon DEF JoinedTo
  <2>3. QED
    BY <2>1, <2>2
<1>2. ASSUME NEW n \in Nat, Has(n) PROVE Has(n + 1)
  <2>1. SUFFICES ASSUME (n + 1) + 1 <= Len(q)
                 PROVE  \E f \in [1 .. (n + 1) + 1 -> Seq(T)] : JoinedTo(q, (n + 1) + 1, f)
    OBVIOUS
  <2>2. PICK f \in [1 .. n + 1 -> Seq(T)] : JoinedTo(q, n + 1, f)
    BY <1>0, <1>2, <2>1
  <2>3. PICK next : next = f[n + 1] \o q[n + 2]
    BY Zenon
  <2> DEFINE g == [i \in 1 .. (n + 1) + 1 |-> IF i <= n + 1 THEN f[i] ELSE next]
  <2>4. next \in Seq(T)
    BY <1>0, <2>1, <2>3, ConcatProperties
  <2>5. g \in [1 .. (n + 1) + 1 -> Seq(T)]
    BY <2>4
  <2>6. JoinedTo(q, (n + 1) + 1, g)
    <3>1. \A i \in 1 .. n + 1 : f[i] = IF i = 1 THEN q[i] ELSE f[i - 1] \o q[i]
      BY <2>2 DEF JoinedTo
    <3>2. ASSUME NEW i \in 1 .. (n + 1) + 1
          PROVE  g[i] = IF i = 1 THEN q[i] ELSE g[i - 1] \o q[i]
      <4>1. CASE i = 1
        <5>1. 1 \in 1 .. n + 1
          OBVIOUS
        <5>2. g[1] = f[1]
          OBVIOUS
        <5>3. f[1] = q[1]
          BY <3>1, <5>1
        <5>4. QED
          BY <4>1, <5>2, <5>3
      <4>2. CASE i \in 2 .. n + 1
        <5>1. i - 1 \in 1 .. n + 1 /\ i \in 1 .. n + 1 /\ i # 1
          BY <4>2
        <5>2. g[i] = f[i] /\ g[i - 1] = f[i - 1]
          BY <5>1
        <5> HIDE DEF g
        <5>3. QED
          BY <3>1, <5>1, <5>2
      <4>3. CASE i = n + 2
        <5>1. g[i] = next /\ i - 1 = n + 1 /\ i # 1
          BY <4>3
        <5>2. g[n + 1] = f[n + 1]
          OBVIOUS
        <5> HIDE DEF g
        <5>3. QED
          BY <2>3, <4>3, <5>1, <5>2
      <4>4. QED
        BY <4>1, <4>2, <4>3
    <3>3. QED
      BY <3>2, Zenon DEF JoinedTo
  <2> HIDE DEF g
  <2>7. QED
    BY <2>5, <2>6
<1> HIDE DEF Has
<1>3. Done \in SUBSET Nat /\ 0 \in Done /\ \A n \in Done : n + 1 \in Done
  BY <1>1, <1>2
<1> HIDE DEF Done
<1>4. Done = Nat
  BY <1>3, Every, Zenon
<1>5. Len(q) - 1 \in Nat /\ (Len(q) - 1) + 1 = Len(q)
  BY <1>0
<1>6. Has(Len(q) - 1)
  BY <1>4, <1>5 DEF Done
<1>7. QED
  BY <1>0, <1>5, <1>6 DEF Has

\* A flattened sequence has its parts one after the other.
LEMMA FlattenCuts ==
  ASSUME NEW T, NEW q \in Seq(Seq(T))
  PROVE  /\ FlattenSeq(q) \in Seq(T)
         /\ \E B \in [1 .. Len(q) + 1 -> Nat] : Cuts(q, FlattenSeq(q), Len(q), B)
<1>0. Len(q) \in Nat /\ \A j \in 1 .. Len(q) : q[j] \in Seq(T)
  OBVIOUS
<1>a. \E B \in [1 .. 0 + 1 -> Nat] : Cuts(q, <<>>, 0, B)
  <2> DEFINE B == [i \in 1 .. 0 + 1 |-> 0]
  <2>1. B \in [1 .. 0 + 1 -> Nat] /\ B[1] = 0 /\ B[0 + 1] = Len(<<>>) /\ 1 .. 0 = {}
    OBVIOUS
  <2> HIDE DEF B
  <2>2. Cuts(q, <<>>, 0, B)
    BY <2>1 DEF Cuts
  <2>3. QED
    BY <2>1, <2>2
<1>1. CASE Len(q) = 0
  <2>1. q = <<>>
    BY <1>1, EmptySeq
  <2>2. FlattenSeq(q) = q
    BY <1>1, Zenon DEF FlattenSeq
  <2>3. PICK B \in [1 .. 0 + 1 -> Nat] : Cuts(q, <<>>, 0, B)
    BY <1>a
  <2>4. <<>> \in Seq(T)
    OBVIOUS
  <2>5. FlattenSeq(q) \in Seq(T) /\ Cuts(q, FlattenSeq(q), Len(q), B)
        /\ B \in [1 .. Len(q) + 1 -> Nat]
    BY <1>1, <2>1, <2>2, <2>3, <2>4
  <2>6. QED
    BY <2>5
<1>2. CASE Len(q) # 0
  <2>1. PICK g : g = CHOOSE f : JoinedTo(q, Len(q), f)
    BY Zenon
  <2>2. FlattenSeq(q) = g[Len(q)]
    BY <1>2, <2>1, Zenon DEF FlattenSeq, JoinedTo
  <2>3. JoinedTo(q, Len(q), g)
    BY <1>2, <2>1, JoinedExists
  <2>4. \A i \in 1 .. Len(q) : g[i] = IF i = 1 THEN q[i] ELSE g[i - 1] \o q[i]
    BY <2>3 DEF JoinedTo
  <2> DEFINE Cut(n) == n + 1 <= Len(q) =>
                         /\ g[n + 1] \in Seq(T)
                         /\ \E B \in [1 .. (n + 1) + 1 -> Nat] : Cuts(q, g[n + 1], n + 1, B)
             Done == {n \in Nat : Cut(n)}
  <2>5. Cut(0)
    <3>1. q[1] \in Seq(T) /\ <<>> \in Seq(T) /\ <<>> \o q[1] = q[1] /\ 0 + 1 = 1 /\ 0 \in Nat
          /\ 1 .. 0 = {}
      BY <1>0, <1>2, ConcatEmptySeq
    <3>2. g[1] = q[1]
      BY <1>0, <1>2, <2>4
    <3>3. PICK B \in [1 .. 0 + 1 -> Nat] : Cuts(q, <<>>, 0, B)
      BY <1>a
    <3>4. \E D \in [1 .. 0 + 2 -> Nat] : Cuts(q, <<>> \o q[0 + 1], 0 + 1, D)
      BY <3>1, <3>3, CutsMore
    <3>5. QED
      BY <3>1, <3>2, <3>4
  <2>6. ASSUME NEW n \in Nat, Cut(n) PROVE Cut(n + 1)
    <3>1. SUFFICES ASSUME (n + 1) + 1 <= Len(q)
                   PROVE  /\ g[(n + 1) + 1] \in Seq(T)
                          /\ \E B \in [1 .. ((n + 1) + 1) + 1 -> Nat] :
                               Cuts(q, g[(n + 1) + 1], (n + 1) + 1, B)
      OBVIOUS
    <3>2. PICK m : m = n + 1
      BY Zenon
    <3>3. m \in Nat /\ m + 1 \in 1 .. Len(q) /\ m + 1 # 1 /\ (m + 1) - 1 = m
          /\ n + 1 <= Len(q) /\ 1 .. m \subseteq 1 .. Len(q) /\ m + 2 = (m + 1) + 1
      BY <1>0, <3>1, <3>2
    <3>4. g[m + 1] = g[m] \o q[m + 1]
      BY <2>4, <3>3
    <3>5. g[m] \in Seq(T)
      BY <2>6, <3>2, <3>3
    <3>6. PICK B \in [1 .. m + 1 -> Nat] : Cuts(q, g[m], m, B)
      BY <2>6, <3>2, <3>3
    <3>7. q[m + 1] \in Seq(T) /\ \A i \in 1 .. m : q[i] \in Seq(T)
      BY <1>0, <3>3
    <3>8. /\ g[m] \o q[m + 1] \in Seq(T)
          /\ \E D \in [1 .. m + 2 -> Nat] : Cuts(q, g[m] \o q[m + 1], m + 1, D)
      BY <3>3, <3>5, <3>6, <3>7, CutsMore
    <3>9. QED
      BY <3>2, <3>3, <3>4, <3>8
  <2> HIDE DEF Cut
  <2>7. Done \in SUBSET Nat /\ 0 \in Done /\ \A n \in Done : n + 1 \in Done
    BY <2>5, <2>6
  <2> HIDE DEF Done
  <2>8. Done = Nat
    BY <2>7, Every, Zenon
  <2>9. Len(q) - 1 \in Nat /\ (Len(q) - 1) + 1 = Len(q)
    BY <1>0, <1>2
  <2>10. Cut(Len(q) - 1)
    BY <2>8, <2>9 DEF Done
  <2>11. QED
    BY <1>0, <2>2, <2>9, <2>10 DEF Cut
<1>3. QED
  BY <1>1, <1>2

-----------------------------------------------------------------------------
(***************************************************************************)
(* Where each message lies in the stream.                                  *)
(***************************************************************************)

\* The length of a body that is not chunked.
PlainLen(msg) == IF msg.kind \in {"post", "frame"} THEN msg.len ELSE 0

\* The chunk after the first j of a message that begins after position b of the
\* stream, and its size, 0 for the last.
ChunkAt(chunks, b, j) == ((b + 2) + 3 * j) + UpTo(chunks)[j]
SizeOf(chunks, j) == IF j < Len(chunks) THEN chunks[j + 1] ELSE 0

ChunkLaid(S, i, at, from, n) ==
  /\ S[at + 1] = Token(i, "size", n) /\ S[at + 2] = Token(i, "crlf", 0)
  /\ \A q \in 1 .. n : S[(at + 2) + q] = Token(i, "body", from + q)
  /\ S[(at + 3) + n] = Token(i, "crlf", 0)

\* Message i stands in stream S after position b, the next after position e.
MessageLaid(S, i, msg, b, e) ==
  /\ msg.kind = "frame" => S[b + 1] = Token(i, "fhdr", 0)
  /\ msg.kind # "frame" => S[b + 1] = Token(i, "line", 0) /\ S[b + 2] = Token(i, "end", 0)
  /\ msg.kind # "chunked" =>
       /\ e = (b + 2) + PlainLen(msg)
       /\ \A q \in 1 .. PlainLen(msg) : S[(b + 2) + q] = Token(i, "body", q)
  /\ msg.kind = "chunked" =>
       /\ e = ChunkAt(msg.chunks, b, Len(msg.chunks)) + 3
       /\ \A j \in 0 .. Len(msg.chunks) :
            ChunkLaid(S, i, ChunkAt(msg.chunks, b, j), UpTo(msg.chunks)[j], SizeOf(msg.chunks, j))

\* B[i] is the position before message i.
Laid(msgs, S, B) ==
  /\ B \in [1 .. Len(msgs) + 1 -> Nat] /\ B[1] = 0 /\ B[Len(msgs) + 1] = Len(S)
  /\ \A i \in DOMAIN msgs : MessageLaid(S, i, msgs[i], B[i], B[i + 1])

\* Units of a body.
LEMMA BodyIs ==
  ASSUME NEW msgs \in Seq(Messages), NEW i \in DOMAIN msgs, NEW from \in Nat, NEW n \in Nat
  PROVE  /\ Body(i, from, n) \in Seq(Arriving(msgs)) /\ Len(Body(i, from, n)) = n
         /\ \A k \in 1 .. n : Body(i, from, n)[k] = Token(i, "body", from + k)
<1>1. \A k \in 1 .. n : Token(i, "body", from + k) \in Arriving(msgs)
  BY DEF Token, Arriving, Parts
<1>2. PICK b : b = Body(i, from, n)
  BY Zenon
<1>3. b = [k \in 1 .. n |-> Token(i, "body", from + k)]
  BY <1>2, Zenon DEF Body
<1>4. b \in [1 .. n -> Arriving(msgs)] /\ \A k \in 1 .. n : b[k] = Token(i, "body", from + k)
  BY <1>1, <1>3
<1>5. b \in Seq(Arriving(msgs)) /\ Len(b) = n
  BY <1>4
<1>6. QED
  BY <1>2, <1>4, <1>5

\* A chunk.
LEMMA ChunkIs ==
  ASSUME NEW msgs \in Seq(Messages), NEW i \in DOMAIN msgs, NEW from \in Nat, NEW n \in Nat
  PROVE  /\ Chunk(i, from, n) \in Seq(Arriving(msgs)) /\ Len(Chunk(i, from, n)) = 3 + n
         /\ ChunkLaid(Chunk(i, from, n), i, 0, from, n)
<1>1. PICK x, y, z : x = Token(i, "size", n) /\ y = Token(i, "crlf", 0) /\ z = Body(i, from, n)
  BY Zenon
<1>2. x \in Arriving(msgs) /\ y \in Arriving(msgs)
  BY <1>1 DEF Token, Arriving, Parts
<1>3. /\ z \in Seq(Arriving(msgs)) /\ Len(z) = n
      /\ \A k \in 1 .. n : z[k] = Token(i, "body", from + k)
  BY <1>1, BodyIs
<1>4. PICK s, t : s = <<x, y>> \o z /\ t = s \o <<y>>
  BY Zenon
<1>5. Chunk(i, from, n) = t
  BY <1>1, <1>4, Zenon DEF Chunk
<1>6. <<x, y>> \in Seq(Arriving(msgs)) /\ Len(<<x, y>>) = 2 /\ <<x, y>>[1] = x /\ <<x, y>>[2] = y
  BY <1>2
<1>7. <<y>> \in Seq(Arriving(msgs)) /\ Len(<<y>>) = 1 /\ <<y>>[1] = y
  BY <1>2
<1>8. /\ s \in Seq(Arriving(msgs)) /\ Len(s) = 2 + n /\ s[1] = x /\ s[2] = y
      /\ \A k \in 1 .. n : s[2 + k] = z[k]
  BY <1>3, <1>4, <1>6, ConcatParts
<1>9. /\ t \in Seq(Arriving(msgs)) /\ Len(t) = 3 + n
      /\ \A k \in 1 .. 2 + n : t[k] = s[k]
      /\ t[3 + n] = y
  <2>1. PICK l : l = <<y>>
    BY Zenon
  <2>2. l \in Seq(Arriving(msgs)) /\ Len(l) = 1 /\ l[1] = y /\ 1 \in 1 .. Len(l)
    BY <1>7, <2>1
  <2>3. /\ t \in Seq(Arriving(msgs)) /\ Len(t) = (2 + n) + 1
        /\ \A k \in 1 .. 2 + n : t[k] = s[k]
        /\ t[(2 + n) + 1] = l[1]
    BY <1>4, <1>8, <2>1, <2>2, ConcatParts
  <2>4. (2 + n) + 1 = 3 + n
    OBVIOUS
  <2>5. QED
    BY <2>2, <2>3, <2>4
<1>10. t[1] = x /\ t[2] = y /\ \A k \in 1 .. n : t[2 + k] = Token(i, "body", from + k)
  <2>1. 1 \in 1 .. 2 + n /\ 2 \in 1 .. 2 + n /\ \A k \in 1 .. n : 2 + k \in 1 .. 2 + n
    OBVIOUS
  <2>2. QED
    BY <1>3, <1>8, <1>9, <2>1
<1>11. ChunkLaid(t, i, 0, from, n)
  BY <1>1, <1>9, <1>10 DEF ChunkLaid
<1>12. QED
  BY <1>5, <1>9, <1>11

\* What stands in a part of a sequence at a later position of the whole.
LEMMA ChunkMoved ==
  ASSUME NEW s, NEW S, NEW i, NEW a \in Nat, NEW at \in Nat, NEW from \in Nat, NEW n \in Nat,
         ChunkLaid(s, i, a, from, n), \A k \in 1 .. 3 + n : S[at + k] = s[a + k]
  PROVE  ChunkLaid(S, i, at, from, n)
<1>1. /\ s[a + 1] = Token(i, "size", n) /\ s[a + 2] = Token(i, "crlf", 0)
      /\ \A q \in 1 .. n : s[(a + 2) + q] = Token(i, "body", from + q)
      /\ s[(a + 3) + n] = Token(i, "crlf", 0)
  BY DEF ChunkLaid
<1>2. S[at + 1] = s[a + 1] /\ S[at + 2] = s[a + 2] /\ S[(at + 3) + n] = s[(a + 3) + n]
  <2>1. /\ 1 \in 1 .. 3 + n /\ 2 \in 1 .. 3 + n /\ 3 + n \in 1 .. 3 + n
        /\ (at + 3) + n = at + (3 + n) /\ (a + 3) + n = a + (3 + n)
    OBVIOUS
  <2>2. QED
    BY <2>1
<1>3. ASSUME NEW q \in 1 .. n PROVE S[(at + 2) + q] = s[(a + 2) + q]
  <2>1. 2 + q \in 1 .. 3 + n /\ (at + 2) + q = at + (2 + q) /\ (a + 2) + q = a + (2 + q)
    OBVIOUS
  <2>2. QED
    BY <2>1
<1>4. QED
  BY <1>1, <1>2, <1>3 DEF ChunkLaid

\* A chunked body.
LEMMA ChunkedIs ==
  ASSUME NEW msgs \in Seq(Messages), NEW i \in DOMAIN msgs, NEW chunks \in Seq(Nat \ {0})
  PROVE  LET u == UpTo(chunks)
             N == Len(chunks)
         IN  /\ Chunked(i, chunks) \in Seq(Arriving(msgs))
             /\ Len(Chunked(i, chunks)) = (3 * N + u[N]) + 3
             /\ \A j \in 0 .. N :
                  /\ ChunkLaid(Chunked(i, chunks), i, 3 * j + u[j], u[j], SizeOf(chunks, j))
                  /\ (3 * j + u[j]) + (3 + SizeOf(chunks, j)) <= Len(Chunked(i, chunks))
                  /\ u[j] \in Nat /\ SizeOf(chunks, j) \in Nat
<1>1. PICK u, N, q : /\ u = UpTo(chunks) /\ N = Len(chunks)
                     /\ q = [j \in DOMAIN chunks |-> Chunk(i, UpTo(chunks)[j - 1], chunks[j])]
  BY Zenon
<1>2. /\ N \in Nat /\ DOMAIN chunks = 1 .. N /\ \A j \in 1 .. N : chunks[j] \in Nat
      /\ u \in [0 .. N -> Nat] /\ u[0] = 0
      /\ \A j \in 0 .. N - 1 : u[j + 1] = u[j] + chunks[j + 1]
  <2>1. N \in Nat /\ DOMAIN chunks = 1 .. N /\ \A j \in 1 .. N : chunks[j] \in Nat
    BY <1>1
  <2>2. QED
    BY <1>1, <2>1, UpToIs
<1>3. ASSUME NEW j \in 1 .. N
      PROVE  /\ q[j] = Chunk(i, u[j - 1], chunks[j])
             /\ q[j] \in Seq(Arriving(msgs)) /\ Len(q[j]) = 3 + chunks[j]
             /\ ChunkLaid(q[j], i, 0, u[j - 1], chunks[j])
  <2>1. q[j] = Chunk(i, u[j - 1], chunks[j])
    BY <1>1, <1>2
  <2>2. PICK f, n : f = u[j - 1] /\ n = chunks[j]
    BY Zenon
  <2>3. f \in Nat /\ n \in Nat /\ q[j] = Chunk(i, f, n)
    BY <1>2, <2>1, <2>2
  <2>4. PICK x : x = Chunk(i, f, n)
    BY Zenon
  <2>5. /\ x \in Seq(Arriving(msgs)) /\ Len(x) = 3 + n
        /\ ChunkLaid(x, i, 0, f, n)
    BY <2>3, <2>4, ChunkIs
  <2>6. q[j] = x
    BY <2>3, <2>4, Zenon
  <2>7. QED
    BY <2>1, <2>2, <2>5, <2>6
<1>4. q \in Seq(Seq(Arriving(msgs))) /\ Len(q) = N
  <2>1. q \in [1 .. N -> Seq(Arriving(msgs))]
    <3>1. DOMAIN q = 1 .. N /\ q = [j \in 1 .. N |-> q[j]]
      BY <1>1, <1>2
    <3>2. QED
      BY <1>3, <3>1
  <2>2. QED
    BY <1>2, <2>1
<1>5. PICK s, l, w : s = FlattenSeq(q) /\ l = Chunk(i, 0, 0) /\ w = s \o l
  BY Zenon
<1>6. Chunked(i, chunks) = w
  BY <1>1, <1>5, Zenon DEF Chunked
<1>7. s \in Seq(Arriving(msgs)) /\ \E B \in [1 .. N + 1 -> Nat] : Cuts(q, s, N, B)
  BY <1>4, <1>5, FlattenCuts
<1>8. PICK B \in [1 .. N + 1 -> Nat] : Cuts(q, s, N, B)
  BY <1>7
<1>9. /\ B[1] = 0 /\ B[N + 1] = Len(s)
      /\ \A j \in 1 .. N : /\ B[j + 1] = B[j] + Len(q[j]) /\ B[j + 1] <= Len(s)
                           /\ \A k \in 1 .. Len(q[j]) : s[B[j] + k] = q[j][k]
  BY <1>8 DEF Cuts
<1>10. \A j \in 0 .. N : B[j + 1] = 3 * j + u[j]
  <2> DEFINE Cut(n) == n <= N => B[n + 1] = 3 * n + u[n]
             Done == {n \in Nat : Cut(n)}
  <2>1. Cut(0)
    BY <1>2, <1>9
  <2>2. ASSUME NEW n \in Nat, Cut(n) PROVE Cut(n + 1)
    <3>1. SUFFICES ASSUME n + 1 <= N PROVE B[(n + 1) + 1] = 3 * (n + 1) + u[n + 1]
      OBVIOUS
    <3>2. n + 1 \in 1 .. N /\ n \in 0 .. N - 1 /\ n \in 0 .. N /\ n <= N /\ (n + 1) - 1 = n
      BY <1>2, <3>1
    <3>3. B[n + 1] = 3 * n + u[n]
      BY <2>2, <3>2
    <3>4. PICK f, c : f = u[n] /\ c = chunks[n + 1]
      BY Zenon
    <3>5. B[(n + 1) + 1] = B[n + 1] + (3 + c)
      BY <1>3, <1>9, <3>2, <3>4
    <3>6. u[n + 1] = f + c /\ f \in Nat /\ c \in Nat
      BY <1>2, <3>2, <3>4
    <3>7. 3 * (n + 1) = 3 * n + 3
      OBVIOUS
    <3>8. B[(n + 1) + 1] = (3 * n + f) + (3 + c)
      BY <3>3, <3>4, <3>5
    <3>9. (3 * n + f) + (3 + c) = (3 * n + 3) + (f + c)
      BY <3>6
    <3>10. QED
      BY <3>6, <3>7, <3>8, <3>9
  <2> HIDE DEF Cut
  <2>3. Done \in SUBSET Nat /\ 0 \in Done /\ \A n \in Done : n + 1 \in Done
    BY <2>1, <2>2
  <2> HIDE DEF Done
  <2>4. Done = Nat
    BY <2>3, Every, Zenon
  <2>5. ASSUME NEW j \in 0 .. N PROVE B[j + 1] = 3 * j + u[j]
    <3>1. j \in Nat /\ j <= N
      BY <1>2
    <3>2. Cut(j)
      BY <2>4, <3>1 DEF Done
    <3>3. QED
      BY <3>1, <3>2 DEF Cut
  <2>6. QED
    BY <2>5
<1>11. l \in Seq(Arriving(msgs)) /\ Len(l) = 3 /\ ChunkLaid(l, i, 0, 0, 0)
  <2>1. 0 \in Nat /\ 3 + 0 = 3
    OBVIOUS
  <2>2. QED
    BY <1>5, <2>1, ChunkIs
<1>12. /\ w \in Seq(Arriving(msgs)) /\ Len(w) = Len(s) + 3 /\ Len(s) \in Nat
       /\ \A k \in 1 .. Len(s) : w[k] = s[k]
       /\ \A k \in 1 .. 3 : w[Len(s) + k] = l[k]
  <2>1. /\ w \in Seq(Arriving(msgs)) /\ Len(w) = Len(s) + Len(l)
        /\ \A k \in 1 .. Len(s) : w[k] = s[k]
        /\ \A k \in 1 .. Len(l) : w[Len(s) + k] = l[k]
    BY <1>5, <1>7, <1>11, ConcatParts
  <2>2. Len(s) \in Nat
    BY <1>7
  <2>3. QED
    BY <1>11, <2>1, <2>2
<1>13. Len(s) = 3 * N + u[N]
  BY <1>2, <1>9, <1>10
<1>14. ASSUME NEW j \in 0 .. N - 1
       PROVE  /\ ChunkLaid(w, i, 3 * j + u[j], u[j], SizeOf(chunks, j))
              /\ (3 * j + u[j]) + (3 + SizeOf(chunks, j)) <= Len(w)
              /\ u[j] \in Nat /\ SizeOf(chunks, j) \in Nat
  <2>1. PICK at, n, p : at = 3 * j + u[j] /\ n = chunks[j + 1] /\ p = q[j + 1]
    BY Zenon
  <2>2. /\ j + 1 \in 1 .. N /\ (j + 1) - 1 = j /\ j \in 0 .. N /\ j < N
    BY <1>2
  <2>3. u[j] \in Nat /\ n \in Nat /\ at \in Nat /\ SizeOf(chunks, j) = n
    <3>1. u[j] \in Nat /\ n \in Nat
      BY <1>2, <2>1, <2>2
    <3>2. SizeOf(chunks, j) = n
      BY <1>1, <2>1, <2>2 DEF SizeOf
    <3>3. QED
      BY <2>1, <3>1, <3>2
  <2>4. Len(p) = 3 + n /\ ChunkLaid(p, i, 0, u[j], n)
    BY <1>3, <2>1, <2>2
  <2>5. /\ B[j + 1] = at /\ at + (3 + n) <= Len(s)
        /\ \A k \in 1 .. 3 + n : s[at + k] = p[k]
    <3>1. B[j + 1] = at
      BY <1>10, <2>1, <2>2
    <3>2. B[(j + 1) + 1] = at + Len(p) /\ B[(j + 1) + 1] <= Len(s)
          /\ \A k \in 1 .. Len(p) : s[at + k] = p[k]
      BY <1>9, <2>1, <2>2, <3>1
    <3>3. QED
      BY <2>4, <3>1, <3>2
  <2>6. \A k \in 1 .. 3 + n : w[at + k] = p[k]
    <3>1. \A k \in 1 .. 3 + n : at + k \in 1 .. Len(s)
      BY <1>12, <2>3, <2>5
    <3>2. QED
      BY <1>12, <2>5, <3>1
  <2>7. ChunkLaid(w, i, at, u[j], n)
    <3>1. 0 \in Nat /\ \A k \in 1 .. 3 + n : 0 + k = k
      OBVIOUS
    <3>2. \A k \in 1 .. 3 + n : w[at + k] = p[0 + k]
      BY <2>6, <3>1
    <3>3. QED
      BY <2>3, <2>4, <3>1, <3>2, ChunkMoved
  <2>8. at + (3 + n) <= Len(w)
    BY <1>12, <2>3, <2>5
  <2>9. QED
    BY <2>1, <2>3, <2>7, <2>8
<1>15. /\ ChunkLaid(w, i, 3 * N + u[N], u[N], SizeOf(chunks, N))
       /\ (3 * N + u[N]) + (3 + SizeOf(chunks, N)) <= Len(w)
       /\ u[N] \in Nat /\ SizeOf(chunks, N) \in Nat
  <2>1. PICK at : at = 3 * N + u[N]
    BY Zenon
  <2>2. u[N] \in Nat /\ at \in Nat /\ SizeOf(chunks, N) = 0
    <3>1. N \in 0 .. N /\ u[N] \in Nat
      BY <1>2
    <3>2. SizeOf(chunks, N) = 0
      BY <1>1, <1>2 DEF SizeOf
    <3>3. QED
      BY <1>2, <2>1, <3>1, <3>2
  <2>3. \A k \in 1 .. 3 + 0 : w[at + k] = l[k]
    <3>1. at = Len(s) /\ 3 + 0 = 3
      BY <1>13, <2>1
    <3>2. QED
      BY <1>12, <3>1
  <2>4. ChunkLaid(l, i, 0, u[N], 0)
    BY <1>11 DEF ChunkLaid
  <2>5. ChunkLaid(w, i, at, u[N], 0)
    <3>1. 0 \in Nat /\ \A k \in 1 .. 3 + 0 : 0 + k = k
      OBVIOUS
    <3>2. \A k \in 1 .. 3 + 0 : w[at + k] = l[0 + k]
      BY <2>3, <3>1
    <3>3. QED
      BY <2>2, <2>4, <3>1, <3>2, ChunkMoved
  <2>6. at + (3 + 0) <= Len(w)
    BY <1>12, <1>13, <2>1
  <2>7. QED
    BY <2>1, <2>2, <2>5, <2>6
<1>16. \A j \in 0 .. N :
         /\ ChunkLaid(w, i, 3 * j + u[j], u[j], SizeOf(chunks, j))
         /\ (3 * j + u[j]) + (3 + SizeOf(chunks, j)) <= Len(w)
         /\ u[j] \in Nat /\ SizeOf(chunks, j) \in Nat
  <2>1. \A j \in 0 .. N : j = N \/ j \in 0 .. N - 1
    BY <1>2
  <2>2. QED
    BY <1>14, <1>15, <2>1
<1>17. QED
  BY <1>1, <1>6, <1>12, <1>13, <1>16

\* A message lies where its encoding does.
LEMMA EncodeLaid ==
  ASSUME NEW msgs \in Seq(Messages), NEW i \in DOMAIN msgs, NEW msg \in Messages,
         NEW S, NEW b \in Nat, \A k \in 1 .. Len(Encode(i, msg)) : S[b + k] = Encode(i, msg)[k]
  PROVE  MessageLaid(S, i, msg, b, b + Len(Encode(i, msg)))
<1>0. /\ msg.len \in Nat /\ msg.kind \in Kinds /\ msg.chunks \in Seq(Nat \ {0})
  BY DEF Messages
<1>1. PICK x, y, z :
        /\ x = IF msg.kind = "frame" THEN Token(i, "fhdr", 0) ELSE Token(i, "line", 0)
        /\ y = IF msg.kind = "frame" THEN Token(i, "flen", 0) ELSE Token(i, "end", 0)
        /\ z = IF msg.kind = "chunked" THEN Chunked(i, msg.chunks)
               ELSE IF msg.kind \in {"post", "frame"} THEN Body(i, 0, msg.len) ELSE <<>>
  BY Zenon
<1>2. PICK e : e = Encode(i, msg)
  BY Zenon
<1>3. e = <<x, y>> \o z
  BY <1>1, <1>2 DEF Encode
<1>4. <<x, y>> \in Seq(Arriving(msgs))
  <2>1. x \in Arriving(msgs) /\ y \in Arriving(msgs)
    BY <1>1 DEF Token, Arriving, Parts
  <2>2. QED
    BY <2>1
<1>5. z \in Seq(Arriving(msgs))
  <2>1. CASE msg.kind = "chunked"
    BY <1>0, <1>1, <2>1, ChunkedIs
  <2>2. CASE msg.kind \in {"post", "frame"}
    <3>1. 0 \in Nat /\ z = Body(i, 0, msg.len)
      BY <1>1, <2>2
    <3>2. QED
      BY <1>0, <3>1, BodyIs
  <2>3. CASE msg.kind \notin {"chunked", "post", "frame"}
    BY <1>1, <2>3
  <2>4. QED
    BY <2>1, <2>2, <2>3
<1>6. /\ Len(e) = 2 + Len(z) /\ e[1] = x /\ e[2] = y
      /\ \A k \in 1 .. Len(z) : e[2 + k] = z[k]
      /\ Len(z) \in Nat
  <2>1. PICK h : h = <<x, y>>
    BY Zenon
  <2>2. h \in Seq(Arriving(msgs)) /\ Len(h) = 2 /\ h[1] = x /\ h[2] = y
    BY <1>4, <2>1
  <2>3. /\ Len(e) = Len(h) + Len(z)
        /\ \A k \in 1 .. Len(h) : e[k] = h[k]
        /\ \A k \in 1 .. Len(z) : e[Len(h) + k] = z[k]
    BY <1>3, <1>5, <2>1, <2>2, ConcatParts
  <2>4. QED
    BY <1>5, <2>2, <2>3
<1>7. /\ S[b + 1] = x /\ S[b + 2] = y
      /\ \A k \in 1 .. Len(z) : S[(b + 2) + k] = z[k]
  <2>1. \A k \in 1 .. 2 + Len(z) : S[b + k] = e[k]
    BY <1>2, <1>6
  <2>2. 1 \in 1 .. 2 + Len(z) /\ 2 \in 1 .. 2 + Len(z)
    BY <1>6
  <2>3. ASSUME NEW k \in 1 .. Len(z) PROVE S[(b + 2) + k] = z[k]
    <3>1. 2 + k \in 1 .. 2 + Len(z) /\ (b + 2) + k = b + (2 + k)
      BY <1>6
    <3>2. QED
      BY <1>6, <2>1, <3>1
  <2>4. QED
    BY <1>6, <2>1, <2>2, <2>3
<1>8. CASE msg.kind \in {"post", "frame"}
  <2>1. PICK n, o : n = msg.len /\ o = 0
    BY Zenon
  <2>2. n \in Nat /\ o \in Nat /\ z = Body(i, o, n) /\ PlainLen(msg) = n
    BY <1>0, <1>1, <1>8, <2>1 DEF PlainLen
  <2>3. Len(z) = n /\ \A k \in 1 .. n : z[k] = Token(i, "body", o + k)
    BY <2>2, BodyIs
  <2>a. \A q \in 1 .. n : S[(b + 2) + q] = Token(i, "body", q)
    <3>1. \A q \in 1 .. n : o + q = q
      BY <2>1
    <3>2. QED
      BY <1>7, <2>3, <3>1
  <2>4. b + Len(e) = (b + 2) + n
    BY <1>6, <2>2, <2>3
  <2>5. QED
    BY <1>1, <1>2, <1>7, <1>8, <2>2, <2>a, <2>4 DEF MessageLaid
<1>9. CASE msg.kind \notin {"chunked", "post", "frame"}
  <2>1. Len(z) = 0 /\ PlainLen(msg) = 0
    BY <1>1, <1>9 DEF PlainLen
  <2>2. b + Len(e) = (b + 2) + PlainLen(msg) /\ 1 .. PlainLen(msg) = {}
    BY <1>6, <2>1
  <2>3. QED
    BY <1>1, <1>2, <1>7, <1>9, <2>2 DEF MessageLaid
<1>10. CASE msg.kind = "chunked"
  <2>1. PICK u, N : u = UpTo(msg.chunks) /\ N = Len(msg.chunks)
    BY Zenon
  <2>2. /\ Len(z) = (3 * N + u[N]) + 3 /\ N \in Nat /\ N \in 0 .. N
        /\ \A j \in 0 .. N :
             /\ ChunkLaid(z, i, 3 * j + u[j], u[j], SizeOf(msg.chunks, j))
             /\ (3 * j + u[j]) + (3 + SizeOf(msg.chunks, j)) <= Len(z)
             /\ u[j] \in Nat /\ SizeOf(msg.chunks, j) \in Nat
    <3>1. z = Chunked(i, msg.chunks)
      BY <1>1, <1>10
    <3>2. N \in Nat /\ N \in 0 .. N
      BY <1>0, <2>1
    <3>3. QED
      BY <1>0, <2>1, <3>1, <3>2, ChunkedIs
  <2>3. ASSUME NEW j \in 0 .. N
        PROVE  ChunkLaid(S, i, ChunkAt(msg.chunks, b, j), u[j], SizeOf(msg.chunks, j))
    <3>1. PICK f, n, t, L : f = u[j] /\ n = SizeOf(msg.chunks, j) /\ t = 3 * j /\ L = Len(z)
      BY Zenon
    <3>a. PICK a, at : a = t + f /\ at = (b + 2) + a
      BY Zenon
    <3>b. /\ f \in Nat /\ n \in Nat
          /\ ChunkLaid(z, i, 3 * j + u[j], u[j], SizeOf(msg.chunks, j))
          /\ (3 * j + u[j]) + (3 + SizeOf(msg.chunks, j)) <= Len(z)
      BY <2>2, <3>1, Zenon
    <3>2. f \in Nat /\ n \in Nat /\ a + (3 + n) <= L /\ ChunkLaid(z, i, a, f, n)
      BY <3>1, <3>a, <3>b, Zenon
    <3>3. t \in Nat /\ a \in Nat /\ at \in Nat /\ L \in Nat
      <4>1. t \in Nat
        BY <2>2, <3>1
      <4>2. L \in Nat
        BY <1>6, <3>1, Zenon
      <4>3. QED
        BY <3>a, <3>2, <4>1, <4>2
    <3>4. ASSUME NEW k \in 1 .. 3 + n PROVE S[at + k] = z[a + k]
      <4>1. PICK m : m = a + k
        BY Zenon
      <4>2. m \in 1 .. L /\ at + k = (b + 2) + m
        BY <3>a, <3>2, <3>3, <4>1
      <4>3. QED
        BY <1>7, <3>1, <4>1, <4>2, Zenon
    <3>5. ChunkLaid(S, i, at, f, n)
      BY <3>2, <3>3, <3>4, ChunkMoved
    <3>6. ChunkAt(msg.chunks, b, j) = at
      <4>1. ChunkAt(msg.chunks, b, j) = ((b + 2) + 3 * j) + f
        BY <2>1, <3>1, Zenon DEF ChunkAt
      <4>2. ChunkAt(msg.chunks, b, j) = ((b + 2) + t) + f
        BY <3>1, <4>1, Zenon
      <4>3. QED
        BY <3>a, <3>2, <3>3, <4>2
    <3>7. QED
      BY <3>1, <3>5, <3>6, Zenon
  <2>4. b + Len(e) = ChunkAt(msg.chunks, b, N) + 3
    <3>1. PICK f, t, L, E : f = u[N] /\ t = 3 * N /\ L = Len(z) /\ E = Len(e)
      BY Zenon
    <3>2. f \in Nat /\ L = (t + f) + 3
      BY <2>2, <3>1, Zenon
    <3>3. ChunkAt(msg.chunks, b, N) = ((b + 2) + t) + f
      BY <2>1, <3>1, Zenon DEF ChunkAt
    <3>4. t \in Nat
      BY <2>2, <3>1
    <3>5. E = 2 + L
      BY <1>6, <3>1, Zenon
    <3>6. b + E = (((b + 2) + t) + f) + 3
      BY <3>2, <3>4, <3>5
    <3>7. QED
      BY <3>1, <3>3, <3>6, Zenon
  <2>5. QED
    BY <1>1, <1>2, <1>7, <1>10, <2>1, <2>3, <2>4 DEF MessageLaid
<1>11. QED
  BY <1>8, <1>9, <1>10

\* A message encoded.
LEMMA EncodeTyped ==
  ASSUME NEW msgs \in Seq(Messages), NEW i \in DOMAIN msgs, NEW msg \in Messages
  PROVE  Encode(i, msg) \in Seq(Arriving(msgs))
<1>0. msg.len \in Nat /\ msg.chunks \in Seq(Nat \ {0}) /\ 0 \in Nat
  BY DEF Messages
<1>1. /\ <<Token(i, "fhdr", 0), Token(i, "flen", 0)>> \in Seq(Arriving(msgs))
      /\ <<Token(i, "line", 0), Token(i, "end", 0)>> \in Seq(Arriving(msgs))
  BY DEF Token, Arriving, Parts
<1>2. /\ Body(i, 0, msg.len) \in Seq(Arriving(msgs)) /\ <<>> \in Seq(Arriving(msgs))
      /\ Chunked(i, msg.chunks) \in Seq(Arriving(msgs))
  <2>1. Body(i, 0, msg.len) \in Seq(Arriving(msgs))
    BY <1>0, BodyIs
  <2>2. Chunked(i, msg.chunks) \in Seq(Arriving(msgs))
    BY <1>0, ChunkedIs
  <2>3. QED
    BY <2>1, <2>2
<1>3. \A s, t \in Seq(Arriving(msgs)) : s \o t \in Seq(Arriving(msgs))
  BY ConcatParts
<1>4. QED
  BY <1>1, <1>2, <1>3, Zenon DEF Encode

\* The stream of a script has its messages one after the other.
LEMMA StreamLaid ==
  ASSUME NEW msgs \in Seq(Messages), NEW S,
         S = FlattenSeq([i \in DOMAIN msgs |-> Encode(i, msgs[i])])
  PROVE  S \in Seq(Arriving(msgs)) /\ \E B : Laid(msgs, S, B)
<1>1. PICK q, N : q = [i \in DOMAIN msgs |-> Encode(i, msgs[i])] /\ N = Len(msgs)
  BY Zenon
<1>2. N \in Nat /\ DOMAIN msgs = 1 .. N /\ \A i \in 1 .. N : msgs[i] \in Messages
  BY <1>1
<1>3. \A i \in 1 .. N : q[i] = Encode(i, msgs[i]) /\ q[i] \in Seq(Arriving(msgs))
  BY <1>1, <1>2, EncodeTyped
<1>4. q \in Seq(Seq(Arriving(msgs))) /\ Len(q) = N
  <2>1. q \in [1 .. N -> Seq(Arriving(msgs))]
    <3>1. DOMAIN q = 1 .. N /\ q = [i \in 1 .. N |-> q[i]]
      BY <1>1, <1>2
    <3>2. QED
      BY <1>3, <3>1
  <2>2. QED
    BY <1>2, <2>1
<1>5. S \in Seq(Arriving(msgs)) /\ \E B \in [1 .. N + 1 -> Nat] : Cuts(q, S, N, B)
  <2>1. S = FlattenSeq(q)
    BY <1>1
  <2>2. QED
    BY <1>4, <2>1, FlattenCuts
<1>6. PICK B \in [1 .. N + 1 -> Nat] : Cuts(q, S, N, B)
  BY <1>5
<1>7. /\ B[1] = 0 /\ B[N + 1] = Len(S)
      /\ \A i \in 1 .. N : /\ B[i + 1] = B[i] + Len(q[i])
                           /\ \A k \in 1 .. Len(q[i]) : S[B[i] + k] = q[i][k]
  BY <1>6 DEF Cuts
<1>8. ASSUME NEW i \in DOMAIN msgs PROVE MessageLaid(S, i, msgs[i], B[i], B[i + 1])
  <2>1. PICK b, msg, e : b = B[i] /\ msg = msgs[i] /\ e = q[i]
    BY Zenon
  <2>2. /\ b \in Nat /\ msg \in Messages /\ e = Encode(i, msg) /\ B[i + 1] = b + Len(e)
        /\ \A k \in 1 .. Len(e) : S[b + k] = e[k]
    <3>1. i \in 1 .. N /\ i \in 1 .. N + 1
      BY <1>2
    <3>2. b \in Nat
      BY <2>1, <3>1
    <3>3. msg \in Messages /\ e = Encode(i, msg)
      BY <1>2, <1>3, <2>1, <3>1
    <3>4. B[i + 1] = b + Len(e) /\ \A k \in 1 .. Len(e) : S[b + k] = e[k]
      BY <1>7, <2>1, <3>1, Zenon
    <3>5. QED
      BY <3>2, <3>3, <3>4
  <2>3. \A k \in 1 .. Len(Encode(i, msg)) : S[b + k] = Encode(i, msg)[k]
    BY <2>2, Zenon
  <2>4. MessageLaid(S, i, msg, b, b + Len(Encode(i, msg)))
    BY <2>2, <2>3, EncodeLaid
  <2>5. QED
    BY <2>1, <2>2, <2>4, Zenon
<1>9. Laid(msgs, S, B)
  BY <1>1, <1>6, <1>7, <1>8 DEF Laid
<1>10. QED
  BY <1>5, <1>9

-----------------------------------------------------------------------------
(***************************************************************************)
(* Reading from the right place of the stream S.                           *)
(***************************************************************************)

\* t of the stream has been received, up to p it is consumed, and what is left
\* in buf is what follows.
Inside(c) == c.consumed <= Len(c.buf)
Ahead(S, c, p) == \A k \in 1 .. Len(c.buf) - c.consumed : c.buf[c.consumed + k] = S[p + k]
At(S, c, t, p) == Inside(c) /\ p = (t - Len(c.buf)) + c.consumed /\ Ahead(S, c, p)

\* The socket holds what follows in the stream.
NetAt(S, net, t) == \A k \in 1 .. Len(net.data) : net.data[k] = S[t + k]

\* A part of a sequence, unit by unit.
LEMMA PartIs ==
  ASSUME NEW T, NEW s \in Seq(T), NEW i \in Nat, NEW j \in Int, j <= Len(s)
  PROVE  /\ SubSeq(s, i + 1, j) \in Seq(T)
         /\ Len(SubSeq(s, i + 1, j)) = IF i < j THEN j - i ELSE 0
         /\ \A k \in 1 .. Len(SubSeq(s, i + 1, j)) : SubSeq(s, i + 1, j)[k] = s[i + k]
<1>1. i + 1 \in Int /\ \A k \in i + 1 .. j : s[k] \in T
  OBVIOUS
<1>2. PICK q : q = SubSeq(s, i + 1, j)
  BY Zenon
<1>3. /\ q \in Seq(T) /\ Len(q) = IF i < j THEN j - i ELSE 0
  BY <1>2, PartOf
<1>4. \A k \in 1 .. Len(q) : q[k] = s[(i + 1) + k - 1]
  BY <1>1, <1>2, SubSeqProperties
<1>5. \A k \in 1 .. Len(q) : (i + 1) + k - 1 = i + k
  BY <1>3
<1>6. QED
  BY <1>2, <1>3, <1>4, <1>5

\* Two readers with the same buffer and position stand at the same place.
LEMMA SamePlace ==
  ASSUME NEW S, NEW c, NEW d, NEW t, NEW p, At(S, c, t, p), d.buf = c.buf, d.consumed = c.consumed
  PROVE  At(S, d, t, p)
BY DEF At, Inside, Ahead

\* Shifting the buffer loses nothing.
LEMMA ShiftAt ==
  ASSUME NEW msgs, NEW c \in Readers(msgs), NEW S, NEW t \in Nat
  PROVE  /\ Shift(c).consumed = 0 /\ Shift(c).upgrade = c.upgrade /\ Shift(c).req = c.req
         /\ \A p : At(S, c, t, p) => At(S, Shift(c), t, p)
         /\ ~Inside(c) => At(S, Shift(c), t, t)
<1>1. PICK d : d = Shift(c)
  BY Zenon
<1>2. PICK n, L, b : n = c.consumed /\ L = Len(c.buf) /\ b = c.buf
  BY Zenon
<1>3. n \in Nat /\ L \in Nat /\ b \in Seq(Arriving(msgs)) /\ L = Len(b)
  BY <1>2, ReaderFields
<1>4. /\ d.buf = SubSeq(b, n + 1, L) /\ d.consumed = 0 /\ d.upgrade = c.upgrade /\ d.req = c.req
  <2>1. PICK s : s = SubSeq(b, n + 1, L)
    BY Zenon
  <2>2. d = [c EXCEPT !.buf = s, !.consumed = 0]
    BY <1>1, <1>2, <2>1, Zenon DEF Shift
  <2>3. c \in Shapes(msgs)
    BY ReaderFields
  <2>4. QED
    BY <2>1, <2>2, <2>3 DEF Shapes
<1>5. /\ Len(d.buf) = IF n < L THEN L - n ELSE 0
      /\ \A k \in 1 .. Len(d.buf) : d.buf[k] = b[n + k]
  BY <1>3, <1>4, PartIs
<1>6. ASSUME NEW p, At(S, c, t, p) PROVE At(S, d, t, p)
  <2>1. n <= L /\ p = (t - L) + n /\ \A k \in 1 .. L - n : b[n + k] = S[p + k]
    BY <1>2, <1>6 DEF At, Inside, Ahead
  <2>2. Len(d.buf) = L - n
    BY <1>3, <1>5, <2>1
  <2>3. \A k \in 1 .. Len(d.buf) - 0 : d.buf[0 + k] = S[p + k]
    BY <1>3, <1>5, <2>1, <2>2
  <2>4. 0 <= Len(d.buf) /\ p = (t - Len(d.buf)) + 0
    BY <1>3, <2>1, <2>2
  <2>5. QED
    BY <1>4, <2>3, <2>4 DEF At, Inside, Ahead
<1>7. ASSUME ~Inside(c) PROVE At(S, d, t, t)
  <2>1. ~(n < L)
    BY <1>2, <1>3, <1>7 DEF Inside
  <2>2. Len(d.buf) = 0
    BY <1>5, <2>1
  <2>3. \A k \in 1 .. Len(d.buf) - 0 : d.buf[0 + k] = S[t + k]
    BY <2>2
  <2>4. 0 <= Len(d.buf) /\ t = (t - Len(d.buf)) + 0
    BY <2>2
  <2>5. QED
    BY <1>4, <2>3, <2>4 DEF At, Inside, Ahead
<1>8. QED
  BY <1>1, <1>4, <1>6, <1>7

\* Neither does emptying or enlarging it, when it is not consumed past its end.
LEMMA BufResizeAt ==
  ASSUME NEW msgs, NEW c \in Readers(msgs), NEW S, NEW t \in Nat, NEW p, At(S, c, t, p)
  PROVE  At(S, BufResize(c), t, p) /\ (c.consumed = 0 => BufResize(c).consumed = 0)
<1> DEFINE a == [c EXCEPT !.bufsize = InitBuf]
           b == [c EXCEPT !.buf = <<>>, !.consumed = 0]
           d == [c EXCEPT !.bufsize = 2 * @]
<1>1. /\ a.buf = c.buf /\ a.consumed = c.consumed /\ b.buf = <<>> /\ b.consumed = 0
      /\ d.buf = c.buf /\ d.consumed = c.consumed
  BY ReaderFields DEF Shapes
<1>2. BufResize(c) = IF c.bufsize = 0 THEN a ELSE IF c.consumed >= Len(c.buf) THEN b
                     ELSE IF c.consumed > (c.bufsize \div 4) * 3 THEN Shift(c)
                     ELSE IF Len(c.buf) = c.bufsize THEN d ELSE c
  BY Zenon DEF BufResize
<1> HIDE DEF a, b, d
<1>3. At(S, a, t, p) /\ At(S, d, t, p)
  BY <1>1, SamePlace
<1>4. At(S, Shift(c), t, p) /\ Shift(c).consumed = 0
  BY ShiftAt
<1>5. ASSUME c.consumed >= Len(c.buf) PROVE At(S, b, t, p)
  <2>1. p = t
    BY <1>5, ReaderFields DEF At, Inside
  <2>2. Len(b.buf) = 0 /\ b.consumed = 0
    BY <1>1
  <2>3. QED
    BY <2>1, <2>2 DEF At, Inside, Ahead
<1>6. QED
  BY <1>1, <1>2, <1>3, <1>4, <1>5, Zenon

\* What recv gives is the beginning of what the socket holds.
LEMMA GotIs ==
  ASSUME NEW msgs, NEW net \in Nets(msgs), NEW len \in Int
  PROVE  LET r == Recv(net, len)
         IN  /\ \A k \in 1 .. Len(Got(net, r)) : Got(net, r)[k] = net.data[k]
             /\ r.n < 0 => Len(Got(net, r)) = 0
<1>1. net.data \in Seq(Arriving(msgs)) /\ Len(net.data) \in Nat
  BY DEF Nets
<1>2. Smaller(len, Len(net.data)) \in Int /\ Smaller(len, Len(net.data)) <= Len(net.data)
  BY <1>1 DEF Smaller
<1>3. PICK r : r = Recv(net, len)
  BY Zenon
<1>4. r.n \in Int /\ r.n <= Len(net.data)
  BY <1>1, <1>2, <1>3 DEF Recv
<1>5. PICK q : q = SubSeq(net.data, 0 + 1, r.n)
  BY Zenon
<1>6. /\ Len(q) = IF 0 < r.n THEN r.n - 0 ELSE 0
      /\ \A k \in 1 .. Len(q) : q[k] = net.data[0 + k]
  BY <1>1, <1>4, <1>5, PartIs
<1>7. \A k \in 1 .. Len(q) : 0 + k = k
  BY <1>4, <1>6
<1>8. Got(net, r) = q
  BY <1>5 DEF Got
<1>9. QED
  BY <1>3, <1>4, <1>6, <1>7, <1>8

\* What is left in the socket follows what was taken.
LEMMA LeftAt ==
  ASSUME NEW msgs, NEW net \in Nets(msgs), NEW S, NEW t \in Nat, NetAt(S, net, t),
         NEW k \in 0 .. Len(net.data)
  PROVE  NetAt(S, Left(net, k), t + k)
<1>1. net.data \in Seq(Arriving(msgs)) /\ Len(net.data) \in Nat /\ k \in Nat
  BY DEF Nets
<1>2. PICK q : q = SubSeq(net.data, k + 1, Len(net.data))
  BY Zenon
<1>3. Left(net, k).data = q
  BY <1>2 DEF Left, Nets
<1>4. Len(q) = Len(net.data) - k /\ \A i \in 1 .. Len(q) : q[i] = net.data[k + i]
  BY <1>1, <1>2, PartIs
<1>5. ASSUME NEW i \in 1 .. Len(q) PROVE q[i] = S[(t + k) + i]
  <2>1. k + i \in 1 .. Len(net.data) /\ t + (k + i) = (t + k) + i
    BY <1>1, <1>4
  <2>2. QED
    BY <1>4, <2>1 DEF NetAt
<1>6. QED
  BY <1>3, <1>5 DEF NetAt

\* A call that receives keeps the place.
LEMMA FillAt ==
  ASSUME NEW msgs, NEW c \in Readers(msgs), NEW ready \in BOOLEAN, NEW net \in Nets(msgs),
         NEW S, NEW t \in Nat, NEW p, At(S, c, t, p), NetAt(S, net, t)
  PROVE  LET f == Fill(c, ready, net)
         IN  At(S, f.c, t + f.taken, p)
<1>1. PICK r, got : r = Recv(net, c.bufsize - Len(c.buf)) /\ got = Got(net, r)
  BY Zenon
<1>2. /\ got \in Seq(Arriving(msgs)) /\ Len(got) \in Nat /\ Len(got) <= Len(net.data)
      /\ Len(net.data) \in Nat /\ \A k \in 1 .. Len(got) : got[k] = net.data[k]
  <2>1. c.bufsize - Len(c.buf) \in Int
    BY ReaderFields
  <2>2. Len(got) \in 0 .. Len(net.data) /\ got \in Seq(Arriving(msgs))
    BY <1>1, <2>1, RecvTyped
  <2>3. \A k \in 1 .. Len(got) : got[k] = net.data[k]
    BY <1>1, <2>1, GotIs
  <2>4. QED
    BY <2>2, <2>3 DEF Nets
<1>3. PICK d : d = [c EXCEPT !.errnum = r.err, !.buf = @ \o got]
  BY Zenon
<1>4. PICK n, L, b, m, e : n = c.consumed /\ L = Len(c.buf) /\ b = c.buf /\ m = Len(got) /\ e = d.buf
  BY Zenon
<1>5. n \in Nat /\ L \in Nat /\ b \in Seq(Arriving(msgs)) /\ L = Len(b) /\ m \in Nat
  BY <1>2, <1>4, ReaderFields
<1>6. e = b \o got /\ d.consumed = n
  BY <1>3, <1>4, ReaderFields DEF Shapes
<1>7. /\ Len(e) = L + m
      /\ \A k \in 1 .. L : e[k] = b[k]
      /\ \A k \in 1 .. m : e[L + k] = got[k]
  BY <1>2, <1>4, <1>5, <1>6, ConcatParts
<1>8. n <= L /\ p = (t - L) + n /\ \A k \in 1 .. L - n : b[n + k] = S[p + k]
  BY <1>4 DEF At, Inside, Ahead
<1>9. ASSUME NEW k \in 1 .. Len(e) - n PROVE e[n + k] = S[p + k]
  <2>1. k \in Nat /\ k >= 1 /\ k <= (L + m) - n /\ p \in Int
    BY <1>5, <1>7, <1>8
  <2>2. CASE n + k <= L
    <3>1. n + k \in 1 .. L /\ k \in 1 .. L - n
      BY <1>5, <2>1, <2>2
    <3>2. QED
      BY <1>7, <1>8, <3>1
  <2>3. CASE n + k > L
    <3>1. PICK i : i = (n + k) - L
      BY Zenon
    <3>2. i \in 1 .. m /\ L + i = n + k /\ t + i = p + k
      BY <1>5, <1>8, <2>1, <2>3, <3>1
    <3>3. e[L + i] = got[i] /\ got[i] = net.data[i] /\ net.data[i] = S[t + i]
      BY <1>2, <1>4, <1>7, <3>2 DEF NetAt
    <3>4. QED
      BY <3>2, <3>3
  <2>4. QED
    BY <1>5, <2>1, <2>2, <2>3
<1>10. At(S, d, t + m, p)
  <2>1. n <= Len(e) /\ p = ((t + m) - Len(e)) + n
    BY <1>5, <1>7, <1>8
  <2>2. QED
    BY <1>4, <1>6, <1>9, <2>1 DEF At, Inside, Ahead
<1>11. Received(c, r, net) = [c |-> d, n |-> r.n, asked |-> TRUE, taken |-> m]
  BY <1>1, <1>3, <1>4, Zenon DEF Received
<1>12. Fill(c, ready, net) = IF ready THEN [c |-> c, n |-> -1, asked |-> FALSE, taken |-> 0]
                             ELSE Received(c, r, net)
  BY <1>1, Zenon DEF Fill
<1>13. CASE ready
  <2>1. Fill(c, ready, net).c = c /\ t + Fill(c, ready, net).taken = t
    BY <1>12, <1>13
  <2>2. QED
    BY <2>1
<1>14. CASE ~ready
  <2>1. Fill(c, ready, net).c = d /\ Fill(c, ready, net).taken = m
    BY <1>11, <1>12, <1>14
  <2>2. QED
    BY <1>10, <2>1
<1>15. QED
  BY <1>13, <1>14

\* The body after a call: what it has put out is added to that of the request.
Grows(r, b) == (IF r.c.req.consumed = 0 THEN <<>> ELSE b) \o r.out

\* out is made of units of body i, those after the first n.
Units(out, i, n) == \A k \in 1 .. Len(out) : out[k] = Token(i, "body", n + k)

\* The units of body i that are still to be read are next in the stream after p.
NextUnits(S, i, p, r) ==
  \A q \in 1 .. r.contentlen - r.consumed : S[p + q] = Token(i, "body", r.consumed + q)

\* r, returned where position p was next, has read n units more of body i.
BodyRead(S, i, c, r, t, p, n) ==
  /\ At(S, r.c, t + r.taken, p + n) /\ r.c.upgrade = c.upgrade
  /\ r.c.req = [c.req EXCEPT !.consumed = @ + n]
  /\ c.req.consumed + n <= c.req.contentlen
  /\ r.n >= 0 \/ n = 0
  /\ \A b : b = Body(i, 0, c.req.consumed) => Grows(r, b) = Body(i, 0, c.req.consumed + n)

\* A body read up to n and m units more.
LEMMA BodyMore ==
  ASSUME NEW msgs \in Seq(Messages), NEW i \in DOMAIN msgs
  PROVE  \A n \in Nat : \A out \in Seq(Arriving(msgs)) :
           Units(out, i, n)
             => (IF n + Len(out) = 0 THEN <<>> ELSE Body(i, 0, n)) \o out = Body(i, 0, n + Len(out))
<1> TAKE n \in Nat
<1> TAKE out \in Seq(Arriving(msgs))
<1> HAVE Units(out, i, n)
<1>m. PICK m : m = Len(out)
  BY Zenon
<1>l. m \in Nat
  BY <1>m
<1>0. PICK o : o = 0 /\ o \in Nat
  OBVIOUS
<1>c. \A k \in 1 .. m : out[k] = Token(i, "body", n + k)
  BY <1>m, Zenon DEF Units
<1>b. PICK b : b = Body(i, o, n)
  BY Zenon
<1>1. PICK s : s = IF n + m = 0 THEN <<>> ELSE b
  BY Zenon
<1>d. \A x, y \in Nat : /\ Body(i, x, y) \in Seq(Arriving(msgs)) /\ Len(Body(i, x, y)) = y
                         /\ \A k \in 1 .. y : Body(i, x, y)[k] = Token(i, "body", x + k)
  BY BodyIs
<1>2. b \in Seq(Arriving(msgs)) /\ Len(b) = n /\ \A k \in 1 .. n : b[k] = Token(i, "body", o + k)
  BY <1>0, <1>b, <1>d, Zenon
<1>3. s \in Seq(Arriving(msgs)) /\ Len(s) = n /\ \A k \in 1 .. n : s[k] = Token(i, "body", o + k)
  <2>1. CASE n + m = 0
    <3>1. n = 0 /\ s = <<>>
      BY <1>1, <1>l, <2>1
    <3>2. s \in Seq(Arriving(msgs)) /\ Len(s) = n /\ 1 .. n = {}
      BY <3>1
    <3>3. QED
      BY <3>2
  <2>2. CASE n + m # 0
    BY <1>1, <1>2, <2>2
  <2>3. QED
    BY <2>1, <2>2
<1>4. PICK u, N : u = s \o out /\ N = n + m
  BY Zenon
<1>a. PICK v : v = Body(i, o, N)
  BY Zenon
<1>5. /\ u \in Seq(Arriving(msgs)) /\ Len(u) = n + m
      /\ \A k \in 1 .. n : u[k] = s[k]
      /\ \A k \in 1 .. m : u[n + k] = out[k]
  <2>1. s \in Seq(Arriving(msgs)) /\ Len(s) = n
    BY <1>3
  <2>0. Len(out) = m
    BY <1>m
  <2>2. /\ s \o out \in Seq(Arriving(msgs)) /\ Len(s \o out) = Len(s) + Len(out)
        /\ \A k \in 1 .. Len(s) : (s \o out)[k] = s[k]
        /\ \A k \in 1 .. Len(out) : (s \o out)[Len(s) + k] = out[k]
    <3>1. \A x, y \in Seq(Arriving(msgs)) :
            /\ x \o y \in Seq(Arriving(msgs)) /\ Len(x \o y) = Len(x) + Len(y)
            /\ \A k \in 1 .. Len(x) : (x \o y)[k] = x[k]
            /\ \A k \in 1 .. Len(y) : (x \o y)[Len(x) + k] = y[k]
      BY ConcatParts
    <3>2. QED
      BY <2>1, <3>1
  <2>3. QED
    BY <1>4, <2>0, <2>1, <2>2, Zenon
<1>6. v \in Seq(Arriving(msgs)) /\ Len(v) = N /\ \A k \in 1 .. N : v[k] = Token(i, "body", o + k)
  <2>1. N \in Nat
    BY <1>4, <1>l
  <2>2. QED
    BY <1>0, <1>a, <1>d, <2>1, Zenon
<1>7. ASSUME NEW k \in 1 .. Len(u) PROVE u[k] = v[k]
  <2>1. k \in 1 .. N /\ k \in Nat
    BY <1>4, <1>5, <1>l
  <2>2. v[k] = Token(i, "body", o + k)
    BY <1>6, <2>1
  <2>3. CASE k <= n
    <3>1. k \in 1 .. n
      BY <2>1, <2>3
    <3>2. QED
      BY <1>3, <1>5, <2>2, <3>1
  <2>4. CASE k > n
    <3>1. PICK j : j = k - n
      BY Zenon
    <3>2. j \in 1 .. m /\ k = n + j /\ o + k = n + j
      BY <1>0, <1>4, <1>l, <2>1, <2>4, <3>1
    <3>3. u[n + j] = Token(i, "body", n + j)
      BY <1>5, <1>c, <3>2
    <3>4. QED
      BY <2>2, <3>2, <3>3
  <2>5. QED
    BY <2>1, <2>3, <2>4
<1>8. u = v
  <2>1. Len(u) = Len(v)
    BY <1>4, <1>5, <1>6
  <2>2. QED
    BY <1>5, <1>6, <1>7, <2>1, SeqEqual
<1>9. QED
  BY <1>0, <1>1, <1>4, <1>a, <1>b, <1>m, <1>8, Zenon

\* A piece of the body: n units of it, and the place is n further.
LEMMA ReadBodyAt ==
  ASSUME NEW msgs \in Seq(Messages), NEW i \in DOMAIN msgs, NEW c \in Readers(msgs),
         NEW len \in Nat \ {0}, NEW net \in Nets(msgs), NEW recv, recv.taken \in Nat,
         NEW S, NEW t \in Nat, NEW p \in Int,
         At(S, c, t + recv.taken, p), NetAt(S, net, t + recv.taken),
         c.req.consumed < c.req.contentlen,
         NextUnits(S, i, p, c.req)
  PROVE  \E n \in Nat : BodyRead(S, i, c, ReadBody(c, len, net, recv), t, p, n)
<1> DEFINE want == Smaller(len, c.req.contentlen - c.req.consumed)
           n == Smaller(want, Len(c.buf) - c.consumed)
           r == Recv(net, want)
           got == Got(net, r)
           buffered == [c EXCEPT !.consumed = @ + n, !.req.consumed = @ + n]
           received == [c EXCEPT !.errnum = r.err, !.req.consumed = @ + Len(got)]
<1>1. ReadBody(c, len, net, recv) =
        IF n > 0
          THEN [Returned(buffered, n, Buffered(buffered), recv)
                  EXCEPT !.out = SubSeq(c.buf, c.consumed + 1, c.consumed + n)]
          ELSE [Returned(received, r.n, r.n = want,
                         [asked |-> TRUE, taken |-> recv.taken + Len(got)]) EXCEPT !.out = got]
  BY Zenon DEF ReadBody
<1>2. PICK x, y, a, L, bf, t1 : /\ x = c.req.contentlen /\ y = c.req.consumed /\ a = c.consumed
                           /\ L = Len(c.buf) /\ bf = c.buf /\ t1 = t + recv.taken
  BY Zenon
<1>3. /\ x \in Nat /\ y \in Nat /\ a \in Nat /\ L \in Nat /\ bf \in Seq(Arriving(msgs))
      /\ L = Len(bf) /\ y < x /\ t1 \in Nat /\ c.req \in Requests(msgs)
  BY <1>2, ReaderFields, RequestTypes
<1>4. a <= L /\ p = (t1 - L) + a /\ \A k \in 1 .. L - a : bf[a + k] = S[p + k]
  BY <1>2 DEF At, Inside, Ahead
<1>5. /\ want \in Nat \ {0} /\ want <= x - y /\ n \in Nat /\ n <= want /\ n <= L - a
      /\ n = 0 => L = a
  <2>1. want = Smaller(len, x - y) /\ n = Smaller(want, L - a)
    BY <1>2, Zenon
  <2> HIDE DEF want, n
  <2>2. want \in Nat \ {0} /\ want <= x - y
    BY <1>3, <2>1 DEF Smaller
  <2>3. QED
    BY <1>3, <1>4, <2>1, <2>2 DEF Smaller
<1> HIDE DEF want, n
<1>6. /\ got \in Seq(Arriving(msgs)) /\ Len(got) \in 0 .. Len(net.data) /\ Len(got) <= want
      /\ r.n \in Int /\ (r.n < 0 => Len(got) = 0) /\ Len(net.data) \in Nat
      /\ \A k \in 1 .. Len(got) : got[k] = net.data[k]
  <2>1. want \in Int /\ want >= 0
    BY <1>5
  <2>2. QED
    BY <2>1, RecvTyped, GotIs DEF Nets
<1> HIDE DEF r, got
<1>7. \A q \in 1 .. x - y : S[p + q] = Token(i, "body", y + q)
  BY <1>2, Zenon DEF NextUnits
<1>8. buffered = [c EXCEPT !.consumed = @ + n, !.req.consumed = @ + n]
  BY Zenon
<1>9. received = [c EXCEPT !.errnum = r.err, !.req.consumed = @ + Len(got)]
  BY Zenon
<1> HIDE DEF buffered, received
<1>12. \A x0 \in Nat : \A s \in Seq(Arriving(msgs)) :
         Units(s, i, x0)
           => (IF x0 + Len(s) = 0 THEN <<>> ELSE Body(i, 0, x0)) \o s = Body(i, 0, x0 + Len(s))
  BY BodyMore
<1>10. CASE n > 0
  <2>1. PICK out : out = SubSeq(bf, a + 1, a + n)
    BY Zenon
  <2>2. PICK w : w = ReadBody(c, len, net, recv)
    BY Zenon
  <2>3. w.c = buffered /\ w.out = out /\ w.taken = recv.taken /\ w.n = n
    BY <1>1, <1>2, <1>10, <2>1, <2>2 DEF Returned
  <2>4. /\ out \in Seq(Arriving(msgs)) /\ Len(out) = n
        /\ \A k \in 1 .. n : out[k] = bf[a + k]
    <3>1. a + n \in Int /\ a + n <= Len(bf)
      <4>1. a \in Nat /\ L \in Nat /\ n \in Nat /\ n <= L - a /\ L = Len(bf)
        BY <1>3, <1>5
      <4>2. QED
        BY <4>1
    <3>2. /\ out \in Seq(Arriving(msgs)) /\ Len(out) = IF a < a + n THEN (a + n) - a ELSE 0
          /\ \A k \in 1 .. Len(out) : out[k] = bf[a + k]
      BY <1>3, <2>1, <3>1, PartIs
    <3>3. Len(out) = n
      BY <1>3, <1>5, <1>10, <3>2
    <3>4. QED
      BY <3>2, <3>3
  <2>5. \A k \in 1 .. n : out[k] = Token(i, "body", y + k)
    <3>1. \A k \in 1 .. n : k \in 1 .. L - a /\ k \in 1 .. x - y
      <4>1. n \in Nat /\ L - a \in Int /\ x - y \in Int /\ n <= L - a /\ n <= x - y
        BY <1>3, <1>5
      <4>2. QED
        BY <4>1
    <3>2. QED
      BY <1>4, <1>7, <2>4, <3>1
  <2>6. buffered.buf = bf /\ buffered.consumed = a + n /\ buffered.upgrade = c.upgrade
        /\ buffered.req = [c.req EXCEPT !.consumed = @ + n]
    BY <1>2, <1>8, ReaderFields DEF Shapes
  <2>7. At(S, buffered, t + w.taken, p + n)
    <3>1. t + w.taken = t1
      BY <1>2, <2>3
    <3>2. a + n <= L /\ p + n = (t1 - L) + (a + n)
      BY <1>3, <1>4, <1>5
    <3>3. ASSUME NEW k \in 1 .. L - (a + n) PROVE bf[(a + n) + k] = S[(p + n) + k]
      <4>1. n + k \in 1 .. L - a /\ (a + n) + k = a + (n + k) /\ (p + n) + k = p + (n + k)
        BY <1>3, <1>4, <1>5
      <4>2. QED
        BY <1>4, <4>1
    <3>4. QED
      BY <1>2, <2>6, <3>1, <3>2, <3>3 DEF At, Inside, Ahead
  <2>8. ASSUME NEW b, b = Body(i, 0, y) PROVE Grows(w, b) = Body(i, 0, y + n)
    <3>1. w.c.req.consumed = y + n
      BY <1>2, <1>3, <2>3, <2>6, RequestTypes DEF RequestFields
    <3>2. (IF y + n = 0 THEN <<>> ELSE Body(i, 0, y)) \o out = Body(i, 0, y + n)
      <4>1. PICK s : s = out
        BY Zenon
      <4>2. y \in Nat /\ s \in Seq(Arriving(msgs)) /\ Len(s) = n
        BY <1>3, <1>5, <1>6, <2>1, <2>4, <4>1
      <4>3. Units(s, i, y)
        BY <2>5, <4>1, <4>2, Zenon DEF Units
      <4>4. QED
        BY <1>12, <4>1, <4>2, <4>3, Zenon
    <3>3. QED
      BY <2>3, <2>8, <3>1, <3>2, Zenon DEF Grows
  <2>9. y + n <= x /\ w.n >= 0
    BY <1>3, <1>5, <2>3
  <2>10. BodyRead(S, i, c, w, t, p, n)
    BY <1>2, <2>3, <2>6, <2>7, <2>8, <2>9, Zenon DEF BodyRead
  <2>11. QED
    BY <1>5, <2>2, <2>10
<1>11. CASE n = 0
  <2>1. PICK m : m = Len(got)
    BY Zenon
  <2>2. PICK w : w = ReadBody(c, len, net, recv)
    BY Zenon
  <2>3. w.c = received /\ w.out = got /\ w.taken = recv.taken + m /\ w.n = r.n
    BY <1>1, <1>11, <2>1, <2>2 DEF Returned
  <2>4. /\ m \in Nat /\ L = a /\ p = t1
        /\ \A k \in 1 .. m : got[k] = S[t1 + k]
    <3>1. \A k \in 1 .. m : k \in 1 .. Len(net.data)
      BY <1>6, <2>1
    <3>2. \A k \in 1 .. Len(net.data) : net.data[k] = S[t1 + k]
      BY <1>2 DEF NetAt
    <3>3. m \in Nat /\ L = a /\ p = t1
      <4>1. L = a
        BY <1>5, <1>11
      <4>2. p = t1
        BY <1>3, <1>4, <4>1
      <4>3. m \in Nat
        BY <1>6, <2>1
      <4>4. QED
        BY <4>1, <4>2, <4>3
    <3>4. \A k \in 1 .. m : got[k] = net.data[k]
      BY <1>6, <2>1
    <3>5. QED
      BY <3>1, <3>2, <3>3, <3>4, Zenon
  <2>5. \A k \in 1 .. m : got[k] = Token(i, "body", y + k)
    <3>1. \A k \in 1 .. m : k \in 1 .. x - y
      BY <1>3, <1>5, <1>6, <2>1
    <3>2. QED
      BY <1>7, <2>4, <3>1
  <2>6. received.buf = bf /\ received.consumed = a /\ received.upgrade = c.upgrade
        /\ received.req = [c.req EXCEPT !.consumed = @ + m]
    BY <1>2, <1>9, <2>1, ReaderFields DEF Shapes
  <2>7. At(S, received, t + w.taken, p + m)
    <3>1. t + w.taken = t1 + m
      BY <1>2, <2>3, <2>4
    <3>2. a <= L /\ p + m = ((t1 + m) - L) + a
      BY <1>3, <2>4
    <3>3. 1 .. L - a = {}
      BY <1>3, <2>4
    <3>4. QED
      BY <1>2, <2>6, <3>1, <3>2, <3>3 DEF At, Inside, Ahead
  <2>8. ASSUME NEW b, b = Body(i, 0, y) PROVE Grows(w, b) = Body(i, 0, y + m)
    <3>1. w.c.req.consumed = y + m
      BY <1>2, <1>3, <2>3, <2>6, RequestTypes DEF RequestFields
    <3>2. (IF y + m = 0 THEN <<>> ELSE Body(i, 0, y)) \o got = Body(i, 0, y + m)
      <4>1. PICK s : s = got
        BY Zenon
      <4>2. y \in Nat /\ s \in Seq(Arriving(msgs)) /\ Len(s) = m
        BY <1>3, <1>5, <1>6, <2>1, <2>4, <4>1
      <4>3. Units(s, i, y)
        BY <2>5, <4>1, <4>2, Zenon DEF Units
      <4>4. QED
        BY <1>12, <4>1, <4>2, <4>3, Zenon
    <3>3. QED
      BY <2>3, <2>8, <3>1, <3>2, Zenon DEF Grows
  <2>9. y + m <= x /\ (w.n >= 0 \/ m = 0)
    <3>1. y \in Nat /\ x \in Nat /\ m \in Nat /\ want \in Nat /\ m <= want /\ want <= x - y
      BY <1>3, <1>5, <1>6, <2>1, <2>4
    <3>2. y + m <= x
      BY <3>1
    <3>3. w.n >= 0 \/ m = 0
      BY <1>6, <2>1, <2>3
    <3>4. QED
      BY <3>2, <3>3
  <2>10. BodyRead(S, i, c, w, t, p, m)
    BY <1>2, <2>3, <2>6, <2>7, <2>8, <2>9, Zenon DEF BodyRead
  <2>11. QED
    BY <2>2, <2>4, <2>10
<1>13. QED
  BY <1>5, <1>10, <1>11

\* The smallest of some natural numbers is below the others.
LEMMA MinLeast ==
  ASSUME NEW I, I \subseteq Nat, I # {}
  PROVE  Min(I) \in I /\ \A y \in I : Min(I) <= y
<1>1. PICK n \in I : \A y \in I : ~(<<y, n>> \in OpToRel(<, Nat))
  BY WFMin, NatLessThanWellFounded
<1>2. \A y \in I : n <= y
  <2>1. \A y \in I : ~(y < n)
    BY <1>1, Zenon DEF OpToRel
  <2>2. QED
    BY <2>1
<1>3. QED
  BY <1>2 DEF Min

\* The first token of a part in a sequence, 0 if there is none.
First(s, part) == LET I == {i \in 1 .. Len(s) : s[i].p = part} IN IF I # {} THEN Min(I) ELSE 0

\* It is the first place where that part stands.
LEMMA FirstIs ==
  ASSUME NEW T, NEW s \in Seq(T), NEW part
  PROVE  /\ First(s, part) \in 0 .. Len(s)
         /\ First(s, part) > 0 => s[First(s, part)].p = part
         /\ \A k \in 1 .. Len(s) : s[k].p = part => First(s, part) > 0 /\ First(s, part) <= k
<1> DEFINE I == {i \in 1 .. Len(s) : s[i].p = part}
<1>0. Len(s) \in Nat
  OBVIOUS
<1>1. PICK x : x = First(s, part)
  BY Zenon
<1>2. x = IF I # {} THEN Min(I) ELSE 0
  BY <1>1, Zenon DEF First
<1>3. I \subseteq Nat /\ \A k : k \in I <=> k \in 1 .. Len(s) /\ s[k].p = part
  BY <1>0
<1> HIDE DEF I
<1>4. CASE I = {}
  <2>1. x = 0
    BY <1>2, <1>4
  <2>2. QED
    BY <1>0, <1>1, <1>3, <1>4, <2>1
<1>5. CASE I # {}
  <2>1. x \in I /\ \A y \in I : x <= y
    BY <1>2, <1>3, <1>5, MinLeast, Zenon
  <2>2. x \in 1 .. Len(s) /\ s[x].p = part
    BY <1>3, <2>1, Zenon
  <2>3. \A k \in 1 .. Len(s) : s[k].p = part => x <= k
    BY <1>3, <2>1, Zenon
  <2>4. x \in 0 .. Len(s) /\ x > 0
    BY <1>0, <2>2
  <2>5. QED
    BY <1>1, <2>2, <2>3, <2>4, Zenon
<1>6. QED
  BY <1>4, <1>5

\* xs_http_validrequest looks for the first blank line.
LEMMA ValidRequestIs ==
  ASSUME NEW buf
  PROVE  ValidRequest(buf) = First(buf, "end")
BY Zenon DEF ValidRequest, SelectInSeq, First

\* xs_conn_headerready keeps the place.
LEMMA HeaderReadyAt ==
  ASSUME NEW msgs, NEW c \in Readers(msgs), NEW net \in Nets(msgs), NEW S, NEW t \in Nat, NEW p,
         At(S, c, t, p), NetAt(S, net, t), c.consumed = 0
  PROVE  LET h == HeaderReady(c, net)
         IN  /\ At(S, h.c, t + h.taken, p) /\ h.c.consumed = 0
             /\ h.c.req = c.req /\ h.c.upgrade = c.upgrade
             /\ h.n > 0 => h.n = HeadLength(h.c)
<1>1. PICK d : d = BufResize(c)
  BY Zenon
<1>2. /\ d \in Readers(msgs) /\ d.req = c.req /\ d.upgrade = c.upgrade /\ d.consumed = 0
      /\ At(S, d, t, p)
  BY <1>1, BufResizeTyped, BufResizeAt
<1>3. PICK f : f = FillHead(d, net)
  BY Zenon
<1>4. /\ f.c.req = c.req /\ f.c.upgrade = c.upgrade /\ f.c.consumed = 0 /\ f.c \in Readers(msgs)
      /\ At(S, f.c, t + f.taken, p)
  <2>0. (HeadLength(d) > 0) \in BOOLEAN
    BY <1>2, HeadLengthInside
  <2>1. PICK ready : ready = (HeadLength(d) > 0) /\ ready \in BOOLEAN
    BY <2>0, Zenon
  <2>2. f = Fill(d, ready, net)
    BY <1>3, <2>1, Zenon DEF FillHead
  <2>3. /\ Filled(f, net, msgs) /\ f.c.req = d.req /\ f.c.upgrade = d.upgrade
        /\ f.c.consumed = d.consumed
    <3>1. \A rdy \in BOOLEAN : /\ Filled(Fill(d, rdy, net), net, msgs)
                              /\ Fill(d, rdy, net).c.req = d.req
                              /\ Fill(d, rdy, net).c.upgrade = d.upgrade
                              /\ Fill(d, rdy, net).c.consumed = d.consumed
      BY <1>2, FillTyped
    <3>2. QED
      BY <2>1, <2>2, <3>1, Zenon
  <2>4. At(S, f.c, t + f.taken, p)
    <3>1. \A rdy \in BOOLEAN : At(S, Fill(d, rdy, net).c, t + Fill(d, rdy, net).taken, p)
      BY <1>2, FillAt
    <3>2. QED
      BY <2>1, <2>2, <3>1, Zenon
  <2>5. QED
    BY <1>2, <2>3, <2>4 DEF Filled
<1>5. PICK e : e = [f.c EXCEPT !.errnum = "toolarge"]
  BY Zenon
<1>6. /\ e.buf = f.c.buf /\ e.consumed = f.c.consumed /\ e.req = f.c.req /\ e.upgrade = f.c.upgrade
  BY <1>4, <1>5, ReaderFields DEF Shapes
<1>7. PICK rlen : rlen = HeadLength(f.c)
  BY Zenon
<1>8. rlen \in Nat /\ HeadLength(e) = rlen
  <2>1. rlen \in Nat
    BY <1>4, <1>7, HeadLengthInside, ReaderFields
  <2>2. HeadLength(e) = rlen
    BY <1>6, <1>7, Zenon DEF HeadLength
  <2>3. QED
    BY <2>1, <2>2
<1>9. HeaderReady(c, net) =
        [c |-> IF rlen > MaxHeader \/ Len(f.c.buf) > MaxHeader THEN e ELSE f.c,
         n |-> IF rlen > 0 THEN rlen ELSE IF f.n = 0 THEN 0 ELSE -1,
         asked |-> f.asked, taken |-> f.taken]
  BY <1>1, <1>3, <1>5, <1>7, Zenon DEF HeaderReady, HeadFound
<1>10. PICK h : h = HeaderReady(c, net)
  BY Zenon
<1>11. /\ h.c = e \/ h.c = f.c
       /\ h.taken = f.taken /\ (h.n > 0 => h.n = rlen)
  BY <1>8, <1>9, <1>10
<1>12. At(S, e, t + f.taken, p)
  BY <1>4, <1>6, SamePlace
<1>13. QED
  BY <1>4, <1>6, <1>7, <1>8, <1>10, <1>11, <1>12, Zenon

-----------------------------------------------------------------------------
(***************************************************************************)
(* Where the reader is.                                                    *)
(***************************************************************************)
\* The line end behind a chunked message j, which ends at position e, has been
\* skipped before it came.
LateEnd(msgs, S, c, j, e) ==
  c.upgrade = 0 /\ S[e].p = "crlf" /\ j \in DOMAIN msgs /\ msgs[j].kind = "chunked"

\* Between two messages: at the beginning of message i, or before such a line end.
Idle(msgs, S, B, c, t, i) ==
  /\ c.consumed = 0 /\ i \in DOMAIN B
  /\ \E p \in Int :
       /\ At(S, c, t, p)
       /\ \/ p = B[i]
          \/ p + 1 = B[i] /\ LateEnd(msgs, S, c, i - 1, B[i])

\* In the body of a message that is not chunked and begins after position b.
Plain(msg, r, b, p) ==
  /\ msg.kind # "chunked" /\ ~r.chunked /\ r.contentlen = PlainLen(msg)
  /\ p = (b + 2) + r.consumed

\* In a chunked body, before its first chunk (j = 0) or in chunk j of it.
InChunks(msg, r, b, p) ==
  /\ msg.kind = "chunked" /\ r.chunked /\ ~r.header
  /\ \E j \in 0 .. Len(msg.chunks) :
       /\ r.contentlen = UpTo(msg.chunks)[j]
       /\ IF j = 0 THEN p = b + 2
          ELSE /\ UpTo(msg.chunks)[j - 1] <= r.consumed
               /\ p = (ChunkAt(msg.chunks, b, j - 1) + 2) + (r.consumed - UpTo(msg.chunks)[j - 1])

\* After the last chunk, whose second line end may not have come yet.
ChunksEnded(S, msg, c, t, e) ==
  /\ msg.kind = "chunked" /\ ~c.req.chunked /\ ~c.req.header /\ c.upgrade = 0
  /\ c.req.contentlen = Total(msg.chunks) /\ c.req.consumed = c.req.contentlen
  /\ \/ At(S, c, t, e)
     \/ ~Inside(c) /\ t + 1 = e

\* Reading message i, b of its body being read.
Reading(msgs, S, B, c, t, i, b) ==
  /\ i \in DOMAIN msgs /\ c.req.m = i /\ c.req.consumed <= c.req.contentlen
  /\ b = Body(i, 0, c.req.consumed)
  /\ \/ \E p \in Int : /\ At(S, c, t, p)
                       /\ \/ Plain(msgs[i], c.req, B[i], p)
                          \/ InChunks(msgs[i], c.req, B[i], p) /\ c.upgrade = 0
     \/ ChunksEnded(S, msgs[i], c, t, B[i + 1])

Placed(msgs, S, B, c, t, i, b) ==
  IF c.req.reqlen = 0 THEN Idle(msgs, S, B, c, t, i) ELSE Reading(msgs, S, B, c, t, i, b)

\* What a call of the reader leaves when it began at or in message i.
Kept(msgs, S, B, r, t, i, b) ==
  /\ Placed(msgs, S, B, r.c, t + r.taken, i, Grows(r, b))
  /\ HttpState(r.c.req) = "complete" => r.n >= 0

\* Where messages begin.
LEMMA LaidParts ==
  ASSUME NEW msgs \in Seq(Messages), NEW S, NEW B, Laid(msgs, S, B)
  PROVE  /\ DOMAIN B = 1 .. Len(msgs) + 1 /\ DOMAIN msgs = 1 .. Len(msgs) /\ Len(msgs) \in Nat
         /\ B[Len(msgs) + 1] = Len(S) /\ B[1] = 0 /\ 1 \in DOMAIN B
         /\ \A i \in DOMAIN B : B[i] \in Nat
         /\ \A i \in DOMAIN msgs : /\ i + 1 \in DOMAIN B /\ i \in DOMAIN B /\ msgs[i] \in Messages
                                   /\ MessageLaid(S, i, msgs[i], B[i], B[i + 1])
<1>1. PICK N : N = Len(msgs)
  BY Zenon
<1>2. N \in Nat /\ DOMAIN msgs = 1 .. N /\ \A i \in 1 .. N : msgs[i] \in Messages
  BY <1>1
<1>3. /\ B \in [1 .. N + 1 -> Nat] /\ B[1] = 0 /\ B[N + 1] = Len(S)
      /\ \A i \in DOMAIN msgs : MessageLaid(S, i, msgs[i], B[i], B[i + 1])
  BY <1>1, Zenon DEF Laid
<1>4. DOMAIN B = 1 .. N + 1 /\ \A i \in 1 .. N + 1 : B[i] \in Nat
  BY <1>3
<1>5. \A i \in 1 .. N : i \in 1 .. N + 1 /\ i + 1 \in 1 .. N + 1
  BY <1>2
<1>6. 1 \in 1 .. N + 1
  BY <1>2
<1>7. QED
  BY <1>1, <1>2, <1>3, <1>4, <1>5, <1>6, Zenon

\* The fields of a token.
LEMMA TokenFields ==
  ASSUME NEW i, NEW part, NEW k
  PROVE  Token(i, part, k).m = i /\ Token(i, part, k).p = part /\ Token(i, part, k).k = k
BY DEF Token

\* The head that is found where a message is to begin is its head.
LEMMA HeadAt ==
  ASSUME NEW msgs \in Seq(Messages), NEW d \in Readers(msgs), NEW S, NEW B, Laid(msgs, S, B),
         NEW t \in Nat, t <= Len(S), Len(S) \in Nat, NEW i, Idle(msgs, S, B, d, t, i), HeadLength(d) > 0,
         ~ParseFails(d, msgs)
  PROVE  /\ i \in DOMAIN msgs /\ HeadLength(d) = 2 /\ d.buf[1].m = i /\ Len(d.buf) >= 2
         /\ At(S, d, t, B[i])
         /\ msgs[i].kind = "frame" <=> d.upgrade # 0
<1>1. PICK L, buf, x, y : L = Len(d.buf) /\ buf = d.buf /\ x = buf[1] /\ y = buf[2]
  BY Zenon
<1>2. L \in Nat /\ buf \in Seq(Arriving(msgs)) /\ L = Len(buf) /\ d.upgrade \in {0, 2}
  BY <1>1, ReaderFields
<1>3. PICK p \in Int : /\ At(S, d, t, p)
                       /\ \/ p = B[i]
                          \/ p + 1 = B[i] /\ d.upgrade = 0 /\ S[B[i]].p = "crlf"
  BY Zenon DEF Idle, LateEnd
<1>4. d.consumed = 0 /\ i \in DOMAIN B
  BY DEF Idle
<1>5. PICK b : b = B[i]
  BY Zenon
<1>6. b \in Nat
  BY <1>4, <1>5, LaidParts
<1>7. t = p + L /\ \A k \in 1 .. L : buf[k] = S[p + k]
  <2>1. p = (t - L) + 0 /\ \A k \in 1 .. L - 0 : buf[0 + k] = S[p + k]
    BY <1>1, <1>3, <1>4 DEF At, Ahead
  <2>2. L - 0 = L /\ \A k \in 1 .. L : 0 + k = k
    BY <1>2
  <2>3. t = p + L
    BY <1>2, <2>1
  <2>4. QED
    BY <2>1, <2>2, <2>3, Zenon
<1>8. /\ d.upgrade = 0 => x.p = "line"
      /\ d.upgrade # 0 => x.p = "fhdr"
  BY <1>1 DEF ParseFails
<1>9. PICK n : n = HeadLength(d)
  BY Zenon
<1>10. n \in 1 .. L
  BY <1>1, <1>2, <1>9, HeadLengthInside
<1>11. L >= 2
  <2>1. CASE d.upgrade = 0
    <3>1. n = First(buf, "end")
      BY <1>1, <1>9, <2>1, ValidRequestIs DEF HeadLength
    <3>2. buf[n].p = "end"
      BY <1>2, <1>10, <3>1, FirstIs
    <3>3. n # 1
      BY <1>1, <1>8, <2>1, <3>2
    <3>4. QED
      BY <1>2, <1>10, <3>3
  <2>2. CASE d.upgrade # 0
    BY <1>1, <1>2, <1>9, <1>10, <2>2 DEF HeadLength, FrameValid
  <2>3. QED
    BY <2>1, <2>2
<1>12. x = S[p + 1] /\ y = S[p + 2]
  <2>1. 1 \in 1 .. L /\ 2 \in 1 .. L
    BY <1>2, <1>11
  <2>2. QED
    BY <1>1, <1>7, <2>1
<1>13. p = b
  <2>1. CASE p + 1 = b /\ d.upgrade = 0 /\ S[b].p = "crlf"
    BY <1>8, <1>12, <2>1
  <2>2. QED
    BY <1>3, <1>5, <2>1
<1>14. i \in DOMAIN msgs
  <2>1. b < Len(S)
    BY <1>2, <1>6, <1>7, <1>11, <1>13
  <2>2. i # Len(msgs) + 1
    BY <1>5, <1>6, <2>1, LaidParts
  <2>3. QED
    BY <1>4, <2>2, LaidParts
<1>15. PICK msg : msg = msgs[i]
  BY Zenon
<1>16. /\ msg.kind = "frame" => S[b + 1] = Token(i, "fhdr", 0)
       /\ msg.kind # "frame" => S[b + 1] = Token(i, "line", 0) /\ S[b + 2] = Token(i, "end", 0)
  <2>1. MessageLaid(S, i, msg, b, B[i + 1])
    BY <1>5, <1>14, <1>15, LaidParts
  <2>2. QED
    BY <2>1 DEF MessageLaid
<1>17. msg.kind = "frame" => x.p = "fhdr" /\ x.m = i
  BY <1>12, <1>13, <1>16, TokenFields
<1>18. msg.kind # "frame" => x.p = "line" /\ x.m = i /\ y.p = "end"
  BY <1>12, <1>13, <1>16, TokenFields
<1>19. (msg.kind = "frame" <=> d.upgrade # 0) /\ x.m = i
  BY <1>8, <1>17, <1>18
<1>20. n = 2
  <2>1. CASE d.upgrade = 0
    <3>1. n = First(buf, "end")
      BY <1>1, <1>9, <2>1, ValidRequestIs DEF HeadLength
    <3>2. buf[n].p = "end"
      BY <1>2, <1>10, <3>1, FirstIs
    <3>3. n # 1
      BY <1>1, <1>8, <2>1, <3>2
    <3>4. 2 \in 1 .. L /\ buf[2].p = "end"
      BY <1>1, <1>2, <1>11, <1>18, <1>19, <2>1
    <3>5. n <= 2
      BY <1>2, <3>1, <3>4, FirstIs
    <3>6. QED
      BY <1>2, <1>10, <3>3, <3>5
  <2>2. CASE d.upgrade # 0
    BY <1>1, <1>2, <1>9, <1>11, <2>2 DEF HeadLength, FrameValid
  <2>3. QED
    BY <2>1, <2>2
<1>21. QED
  BY <1>1, <1>3, <1>5, <1>9, <1>11, <1>13, <1>14, <1>15, <1>19, <1>20, Zenon

\* Nothing of a body.
LEMMA BodyNone ==
  ASSUME NEW msgs \in Seq(Messages), NEW i \in DOMAIN msgs
  PROVE  Body(i, 0, 0) = <<>>
<1>1. PICK o : o = 0 /\ o \in Nat
  OBVIOUS
<1>2. PICK b : b = Body(i, o, o)
  BY Zenon
<1>3. b \in Seq(Arriving(msgs)) /\ Len(b) = o
  BY <1>1, <1>2, BodyIs
<1>4. b = <<>>
  BY <1>1, <1>3
<1>5. QED
  BY <1>1, <1>2, <1>4

\* The sizes of chunks, and where they lie.
Chunks(chunks, b, N, u) ==
  /\ N = Len(chunks) /\ u = UpTo(chunks) /\ N \in Nat /\ u[0] = 0
  /\ ChunkAt(chunks, b, 0) = b + 2 /\ SizeOf(chunks, N) = 0
  /\ \A j \in 0 .. N : u[j] \in Nat /\ ChunkAt(chunks, b, j) \in Nat /\ SizeOf(chunks, j) \in Nat
  /\ \A j \in 0 .. N - 1 :
       /\ SizeOf(chunks, j) > 0 /\ u[j + 1] = u[j] + SizeOf(chunks, j)
       /\ ChunkAt(chunks, b, j + 1) = (ChunkAt(chunks, b, j) + 3) + SizeOf(chunks, j)

\* They follow from the prefix sums.
LEMMA ChunkFacts ==
  ASSUME NEW chunks \in Seq(Nat \ {0}), NEW b \in Nat
  PROVE  Chunks(chunks, b, Len(chunks), UpTo(chunks))
<1> DEFINE N == Len(chunks)
           u == UpTo(chunks)
<1>1. N = Len(chunks) /\ u = UpTo(chunks)
  OBVIOUS
<1> HIDE DEF N, u
<1>2. /\ u \in [0 .. N -> Nat] /\ u[0] = 0 /\ N \in Nat
      /\ \A j \in 0 .. N - 1 : u[j + 1] = u[j] + chunks[j + 1]
  BY <1>1, UpToIs
<1>3. \A j : ChunkAt(chunks, b, j) = ((b + 2) + 3 * j) + u[j]
  BY <1>1, Zenon DEF ChunkAt
<1>4. \A j \in 0 .. N - 1 : /\ j + 1 \in 1 .. N /\ j < N /\ chunks[j + 1] \in Nat /\ chunks[j + 1] > 0
                            /\ j \in 0 .. N /\ j + 1 \in 0 .. N
  BY <1>1, <1>2
<1>5. ASSUME NEW j \in 0 .. N
      PROVE  u[j] \in Nat /\ ChunkAt(chunks, b, j) \in Nat /\ SizeOf(chunks, j) \in Nat
  <2>1. u[j] \in Nat
    BY <1>2
  <2>2. ChunkAt(chunks, b, j) \in Nat
    <3>1. PICK f, q : f = u[j] /\ q = 3 * j
      BY Zenon
    <3>2. f \in Nat /\ q \in Nat
      BY <1>2, <2>1, <3>1
    <3>3. ChunkAt(chunks, b, j) = ((b + 2) + q) + f
      BY <1>3, <3>1, Zenon
    <3>4. QED
      BY <3>2, <3>3
  <2>3. SizeOf(chunks, j) \in Nat
    <3>1. CASE j < N
      <4>1. j \in 0 .. N - 1
        BY <1>2, <3>1
      <4>2. QED
        BY <1>1, <1>4, <3>1, <4>1 DEF SizeOf
    <3>2. CASE ~(j < N)
      BY <1>1, <3>2 DEF SizeOf
    <3>3. QED
      BY <3>1, <3>2
  <2>4. QED
    BY <2>1, <2>2, <2>3
<1>6. ASSUME NEW j \in 0 .. N - 1
      PROVE  /\ SizeOf(chunks, j) > 0 /\ u[j + 1] = u[j] + SizeOf(chunks, j)
             /\ ChunkAt(chunks, b, j + 1) = (ChunkAt(chunks, b, j) + 3) + SizeOf(chunks, j)
  <2>1. SizeOf(chunks, j) = chunks[j + 1]
    BY <1>1, <1>4 DEF SizeOf
  <2>2. PICK f, s, q, g : f = u[j] /\ s = chunks[j + 1] /\ q = 3 * j /\ g = u[j + 1]
    BY Zenon
  <2>3. f \in Nat /\ s \in Nat /\ s > 0 /\ g = f + s
    BY <1>2, <1>4, <2>2
  <2>4. q \in Nat /\ 3 * (j + 1) = q + 3
    BY <2>2
  <2>5. ChunkAt(chunks, b, j) = ((b + 2) + q) + f
    BY <1>3, <2>2, Zenon
  <2>6. ChunkAt(chunks, b, j + 1) = ((b + 2) + (q + 3)) + g
    BY <1>3, <2>2, <2>4, Zenon
  <2>7. ((b + 2) + (q + 3)) + g = ((((b + 2) + q) + f) + 3) + s
    BY <2>3, <2>4
  <2>8. QED
    BY <2>1, <2>2, <2>3, <2>5, <2>6, <2>7, Zenon
<1>7. ChunkAt(chunks, b, 0) = b + 2
  <2>1. ChunkAt(chunks, b, 0) = ((b + 2) + 3 * 0) + u[0]
    BY <1>3, Zenon
  <2>2. QED
    BY <1>2, <2>1
<1>8. SizeOf(chunks, N) = 0
  BY <1>1, <1>2 DEF SizeOf
<1>9. QED
  BY <1>1, <1>2, <1>5, <1>6, <1>7, <1>8, Zenon DEF Chunks

\* A request or frame that is created is that of message i.
LEMMA CreateReqAt ==
  ASSUME NEW msgs \in Seq(Messages), NEW d \in Readers(msgs), NEW S, NEW B, Laid(msgs, S, B),
         NEW t \in Nat, t <= Len(S), Len(S) \in Nat, NEW i, Idle(msgs, S, B, d, t, i), HeadLength(d) > 0,
         ~ParseFails(d, msgs)
  PROVE  LET e == CreateReq(d, HeadLength(d), msgs)
         IN  e.req.reqlen # 0 /\ e.req.consumed = 0 /\ Reading(msgs, S, B, e, t, i, <<>>)
<1>1. /\ i \in DOMAIN msgs /\ HeadLength(d) = 2 /\ d.buf[1].m = i /\ Len(d.buf) >= 2
      /\ At(S, d, t, B[i])
      /\ msgs[i].kind = "frame" <=> d.upgrade # 0
  BY HeadAt
<1>2. PICK msg : msg = msgs[i]
  BY Zenon
<1>3. msg \in Messages /\ msg.len \in Nat /\ msg.chunks \in Seq(Nat \ {0})
  <2>1. msg \in Messages
    BY <1>1, <1>2
  <2>2. QED
    BY <2>1 DEF Messages
<1>4. PICK q : q = IF d.upgrade = 0 THEN HttpParse(d, 2, msgs) ELSE FrameParse(d, msgs)
  BY Zenon
<1>5. /\ q.m = i /\ q.reqlen = 2 /\ q.consumed = 0
      /\ q.contentlen = (IF msg.kind \in {"post", "frame"} THEN msg.len ELSE 0)
      /\ q.chunked = (msg.kind = "chunked")
      /\ q.upgrade = (IF d.upgrade = 0 THEN IF msg.kind = "upgrade" THEN 1 ELSE 0 ELSE d.upgrade)
      /\ q \in RequestFields
  <2>1. CASE d.upgrade = 0
    <3>1. PICK len, chunked, up : /\ len = IF msg.kind = "post" THEN msg.len ELSE 0
                                  /\ chunked = (msg.kind = "chunked")
                                  /\ up = IF msg.kind = "upgrade" THEN 1 ELSE 0
      BY Zenon
    <3>2. q = [NoReq EXCEPT !.m = i, !.reqlen = 2, !.keepalive = msg.keep,
                            !.contentlen = len, !.chunked = chunked, !.upgrade = up]
      BY <1>1, <1>2, <1>4, <2>1, <3>1, Zenon DEF HttpParse
    <3>3. /\ q.m = i /\ q.reqlen = 2 /\ q.consumed = 0 /\ q.contentlen = len /\ q.chunked = chunked
          /\ q.upgrade = up
      BY <3>2 DEF NoReq
    <3>4. msg.kind # "frame"
      BY <1>1, <1>2, <2>1
    <3>5. q \in RequestFields
      <4>1. Len(d.buf) > 0 /\ 2 \in Nat
        BY <1>1, ReaderFields
      <4>2. q \in {HttpParse(d, 2, msgs), FrameParse(d, msgs)}
        BY <1>4
      <4>3. QED
        BY <4>1, <4>2, ParsedRequest, RequestTypes
    <3>6. QED
      BY <2>1, <3>1, <3>3, <3>4, <3>5
  <2>2. CASE d.upgrade # 0
    <3>1. PICK keep : keep = (msg.op # 8)
      BY Zenon
    <3>2. q = [NoReq EXCEPT !.m = i, !.reqlen = 2, !.keepalive = keep,
                            !.contentlen = msg.len, !.opcode = msg.op, !.upgrade = d.upgrade]
      BY <1>1, <1>2, <1>4, <2>2, <3>1, Zenon DEF FrameParse
    <3>3. /\ q.m = i /\ q.reqlen = 2 /\ q.consumed = 0 /\ q.contentlen = msg.len /\ q.chunked = FALSE
          /\ q.upgrade = d.upgrade
      BY <3>2 DEF NoReq
    <3>4. msg.kind = "frame"
      BY <1>1, <1>2, <2>2
    <3>5. q \in RequestFields
      <4>1. Len(d.buf) > 0 /\ 2 \in Nat
        BY <1>1, ReaderFields
      <4>2. q \in {HttpParse(d, 2, msgs), FrameParse(d, msgs)}
        BY <1>4
      <4>3. QED
        BY <4>1, <4>2, ParsedRequest, RequestTypes
    <3>6. QED
      BY <2>2, <3>3, <3>4, <3>5
  <2>3. QED
    BY <2>1, <2>2
<1>6. PICK h : h = (q.upgrade = 0 /\ q.contentlen = 0 /\ ~q.chunked)
  BY Zenon
<1>7. PICK r, n, up : /\ r = [q EXCEPT !.header = h] /\ n = d.consumed + 2
                      /\ up = IF q.upgrade = 1 THEN 2 ELSE d.upgrade
  BY Zenon
<1>8. PICK e : e = CreateReq(d, HeadLength(d), msgs)
  BY Zenon
<1>9. e = [d EXCEPT !.req = r, !.consumed = n, !.upgrade = up]
  BY <1>1, <1>4, <1>6, <1>7, <1>8, Zenon DEF CreateReq, TakeReq
<1>10. e.req = r /\ e.consumed = n /\ e.upgrade = up /\ e.buf = d.buf
  BY <1>9, ReaderFields DEF Shapes
<1>11. /\ r.m = i /\ r.reqlen = 2 /\ r.consumed = 0 /\ r.chunked = (msg.kind = "chunked")
       /\ r.contentlen = (IF msg.kind \in {"post", "frame"} THEN msg.len ELSE 0) /\ r.header = h
  BY <1>5, <1>7 DEF RequestFields
<1>12. PICK b, L, p : b = B[i] /\ L = Len(d.buf) /\ p = b + 2
  BY Zenon
<1>13. b \in Nat /\ L \in Nat /\ d.consumed = 0 /\ L >= 2 /\ n = 2 /\ p \in Int
  <2>1. b \in Nat
    BY <1>1, <1>12, LaidParts
  <2>2. d.consumed = 0
    BY DEF Idle
  <2>3. L \in Nat /\ L >= 2
    BY <1>1, <1>12, ReaderFields
  <2>4. QED
    BY <1>7, <1>12, <2>1, <2>2, <2>3
<1>14. At(S, e, t, p)
  <2>1. b = (t - L) + 0 /\ \A k \in 1 .. L - 0 : d.buf[0 + k] = S[b + k]
    BY <1>1, <1>12, <1>13 DEF At, Ahead
  <2>2. p = (t - L) + 2
    BY <1>12, <1>13, <2>1
  <2>3. ASSUME NEW k \in 1 .. L - 2 PROVE d.buf[2 + k] = S[p + k]
    <3>1. 2 + k \in 1 .. L - 0 /\ 0 + (2 + k) = 2 + k /\ p + k = b + (2 + k)
      BY <1>12, <1>13
    <3>2. QED
      BY <2>1, <3>1
  <2>4. QED
    BY <1>10, <1>12, <1>13, <2>2, <2>3 DEF At, Inside, Ahead
<1>15. Plain(msg, r, b, p) \/ (InChunks(msg, r, b, p) /\ e.upgrade = 0)
  <2>1. CASE msg.kind # "chunked"
    <3>1. r.contentlen = PlainLen(msg)
      BY <1>11, Zenon DEF PlainLen
    <3>2. p = (b + 2) + r.consumed
      BY <1>11, <1>12, <1>13
    <3>3. QED
      BY <1>11, <2>1, <3>1, <3>2 DEF Plain
  <2>2. CASE msg.kind = "chunked"
    <3>1. e.upgrade = 0
      <4>1. d.upgrade = 0
        BY <1>1, <1>2, <2>2
      <4>2. q.upgrade = 0
        BY <1>5, <2>2, <4>1
      <4>3. QED
        BY <1>7, <1>10, <4>1, <4>2
    <3>2. r.contentlen = 0 /\ r.chunked /\ ~r.header
      <4>1. r.contentlen = 0 /\ r.chunked
        BY <1>11, <2>2
      <4>2. q.chunked
        BY <1>5, <2>2
      <4>3. QED
        BY <1>6, <1>11, <4>1, <4>2
    <3>3. UpTo(msg.chunks)[0] = 0 /\ 0 \in 0 .. Len(msg.chunks)
      BY <1>3, UpToIs
    <3>4. QED
      BY <1>12, <2>2, <3>1, <3>2, <3>3 DEF InChunks
  <2>3. QED
    BY <2>1, <2>2
<1>16. e.req.consumed <= e.req.contentlen
  BY <1>3, <1>10, <1>11
<1>17. <<>> = Body(i, 0, e.req.consumed)
  BY <1>1, <1>10, <1>11, BodyNone
<1>18. Reading(msgs, S, B, e, t, i, <<>>)
  <2>1. \E z \in Int : /\ At(S, e, t, z)
                       /\ \/ Plain(msgs[i], e.req, B[i], z)
                          \/ InChunks(msgs[i], e.req, B[i], z) /\ e.upgrade = 0
    BY <1>2, <1>10, <1>12, <1>13, <1>14, <1>15, Zenon
  <2>2. e.req.m = i
    BY <1>10, <1>11
  <2>3. QED
    BY <1>1, <1>16, <1>17, <2>1, <2>2, Zenon DEF Reading
<1>19. e.req.reqlen # 0 /\ e.req.consumed = 0
  BY <1>10, <1>11
<1>20. QED
  BY <1>8, <1>18, <1>19

\* What keeps the place and upgrade of an idle reader keeps it idle.
LEMMA IdleKept ==
  ASSUME NEW msgs, NEW S, NEW B, NEW c, NEW t, NEW i, Idle(msgs, S, B, c, t, i), NEW e, NEW t2,
         e.consumed = 0, e.upgrade = c.upgrade, \A p \in Int : At(S, c, t, p) => At(S, e, t2, p)
  PROVE  Idle(msgs, S, B, e, t2, i)
BY Zenon DEF Idle, LateEnd

\* Looking for a new request or frame, or creating it.
LEMMA ReadHeadAt ==
  ASSUME NEW msgs \in Seq(Messages), NEW c \in Readers(msgs), NEW net \in Nets(msgs),
         NEW S, NEW B, Laid(msgs, S, B), Len(S) \in Nat, NEW t \in Nat,
         t + Len(net.data) <= Len(S), NetAt(S, net, t), c.req.reqlen = 0,
         NEW i, Idle(msgs, S, B, c, t, i), NEW s, s # "complete", NEW b
  PROVE  Kept(msgs, S, B, ReadHead(c, s, net, msgs), t, i, b)
<1>1. PICK h : h = HeaderReady(c, net)
  BY Zenon
<1>2. Filled(h, net, msgs)
  BY <1>1, HeaderReadyTyped
<1>3. h.c \in Readers(msgs) /\ h.n \in Int /\ h.taken \in Nat /\ t + h.taken <= Len(S)
      /\ t + h.taken \in Nat
  BY <1>2 DEF Filled, Nets
<1>4. c.consumed = 0
  BY DEF Idle
<1>5. /\ \A p : At(S, c, t, p) => At(S, h.c, t + h.taken, p)
      /\ h.c.consumed = 0 /\ h.c.req = c.req /\ h.c.upgrade = c.upgrade
      /\ h.n > 0 => h.n = HeadLength(h.c)
  <2>1. ASSUME NEW p, At(S, c, t, p)
        PROVE  /\ At(S, h.c, t + h.taken, p) /\ h.c.consumed = 0
               /\ h.c.req = c.req /\ h.c.upgrade = c.upgrade
               /\ h.n > 0 => h.n = HeadLength(h.c)
    BY <1>1, <1>4, <2>1, HeaderReadyAt
  <2>2. \E p : At(S, c, t, p)
    BY DEF Idle
  <2>3. QED
    BY <2>1, <2>2
<1>6. PICK d : d = [h.c EXCEPT !.req = NoReq]
  BY Zenon
<1>7. /\ d \in Readers(msgs) /\ d.buf = h.c.buf /\ d.consumed = 0 /\ d.req = NoReq
      /\ d.upgrade = c.upgrade
  <2>1. NoReq \in Requests(msgs)
    BY DEF NoReq, Requests
  <2>2. d \in Readers(msgs)
    BY <1>3, <1>6, <2>1, SetReq
  <2>3. d.buf = h.c.buf /\ d.consumed = h.c.consumed /\ d.req = NoReq /\ d.upgrade = h.c.upgrade
    BY <1>3, <1>6, ReaderFields DEF Shapes
  <2>4. QED
    BY <1>5, <2>2, <2>3
<1>8. PICK e : e = CreateReq(d, h.n, msgs)
  BY Zenon
<1>9. PICK r : r = ReadHead(c, s, net, msgs)
  BY Zenon
<1>10. r = IF h.n <= 0 \/ h.c.errnum # "ok"
             THEN Returned(h.c, IF h.n # 0 THEN h.n ELSE RetValue(s, h.c), FALSE, h)
           ELSE IF e.errnum # "ok" THEN Returned(e, -1, FALSE, h)
           ELSE [Returned(e, RetValue(s, e), e.req.header \/ Buffered(e), h)
                   EXCEPT !.control = ControlReply(e)]
  BY <1>1, <1>6, <1>8, <1>9, Zenon DEF ReadHead, NewRequest
<1>11. PICK t2 : t2 = t + h.taken
  BY Zenon
<1>12. Idle(msgs, S, B, h.c, t2, i) /\ Idle(msgs, S, B, d, t2, i)
  <2>1. \A p \in Int : At(S, c, t, p) => At(S, h.c, t2, p)
    BY <1>5, <1>11
  <2>2. \A p \in Int : At(S, c, t, p) => At(S, d, t2, p)
    BY <1>5, <1>7, <2>1, SamePlace
  <2>3. QED
    BY <1>5, <1>7, <2>1, <2>2, IdleKept
<1>13. ASSUME NEW x, x.req.reqlen = 0, Idle(msgs, S, B, x, t2, i), r.c = x, r.taken = h.taken
       PROVE  Kept(msgs, S, B, r, t, i, b)
  <2>1. HttpState(x.req) # "complete"
    BY <1>13 DEF HttpState
  <2>2. Placed(msgs, S, B, x, t2, i, Grows(r, b))
    BY <1>13 DEF Placed
  <2>3. QED
    BY <1>11, <1>13, <2>1, <2>2 DEF Kept
<1>14. CASE h.n <= 0 \/ h.c.errnum # "ok"
  <2>1. r.c = h.c /\ r.taken = h.taken
    BY <1>10, <1>14, Zenon DEF Returned
  <2>2. h.c.req.reqlen = 0
    BY <1>5
  <2>3. QED
    BY <1>9, <1>12, <1>13, <2>1, <2>2
<1>15. CASE ~(h.n <= 0 \/ h.c.errnum # "ok")
  <2>0. h.n > 0 /\ h.n = HeadLength(h.c) /\ h.n = HeadLength(d)
    <3>1. h.n > 0
      BY <1>3, <1>15
    <3>2. HeadLength(d) = HeadLength(h.c)
      BY <1>5, <1>7, Zenon DEF HeadLength
    <3>3. QED
      BY <1>5, <3>1, <3>2
  <2>1. CASE ParseFails(d, msgs)
    <3>1. e = [d EXCEPT !.errnum = "invalid"]
      BY <1>8, <2>1, Zenon DEF CreateReq
    <3>2. /\ e.errnum = "invalid" /\ e.req = NoReq /\ e.consumed = 0 /\ e.upgrade = d.upgrade
          /\ e.buf = d.buf /\ e.consumed = d.consumed
      BY <1>7, <3>1, ReaderFields DEF Shapes
    <3>3. Idle(msgs, S, B, e, t2, i)
      <4>1. \A p \in Int : At(S, d, t2, p) => At(S, e, t2, p)
        BY <3>2, SamePlace
      <4>2. QED
        BY <1>12, <3>2, <4>1, IdleKept
    <3>4. r.c = e /\ r.taken = h.taken
      BY <1>10, <1>15, <3>2 DEF Returned
    <3>5. e.req.reqlen = 0
      BY <3>2 DEF NoReq
    <3>6. QED
      BY <1>9, <1>13, <3>3, <3>4, <3>5
  <2>2. CASE ~ParseFails(d, msgs)
    <3>1. e.req.reqlen # 0 /\ e.req.consumed = 0 /\ Reading(msgs, S, B, e, t2, i, <<>>)
      <4>1. t2 \in Nat /\ t2 <= Len(S) /\ HeadLength(d) > 0
        BY <1>3, <1>11, <2>0
      <4>2. e = CreateReq(d, HeadLength(d), msgs)
        BY <1>8, <2>0
      <4>3. QED
        BY <1>7, <1>12, <2>2, <4>1, <4>2, CreateReqAt
    <3>2. CASE e.errnum # "ok"
      <4>1. d.errnum = h.c.errnum
        BY <1>3, <1>6, ReaderFields DEF Shapes
      <4>2. e.errnum = d.errnum
        <5>1. PICK q : q = IF d.upgrade = 0 THEN HttpParse(d, h.n, msgs) ELSE FrameParse(d, msgs)
          BY Zenon
        <5>2. e = TakeReq(d, h.n, q)
          BY <1>8, <2>2, <5>1, Zenon DEF CreateReq
        <5>3. QED
          BY <1>7, <5>2, ReaderFields DEF TakeReq, Shapes
      <4>3. QED
        BY <1>15, <3>2, <4>1, <4>2
    <3>3. CASE e.errnum = "ok"
      <4>1. PICK g : g = Returned(e, RetValue(s, e), e.req.header \/ Buffered(e), h)
        BY Zenon
      <4>2. r = [g EXCEPT !.control = ControlReply(e)]
        BY <1>10, <1>15, <3>3, <4>1, Zenon
      <4>3. r.c = e /\ r.n = RetValue(s, e) /\ r.taken = h.taken /\ r.out = <<>>
        BY <4>1, <4>2 DEF Returned
      <4>4. Grows(r, b) = <<>>
        BY <3>1, <4>3 DEF Grows
      <4>5. HttpState(e.req) = "complete" => r.n >= 0
        <5>1. ConnState(e) = HttpState(e.req)
          BY <3>3 DEF ConnState
        <5>2. QED
          BY <4>3, <5>1 DEF RetValue
      <4>6. Placed(msgs, S, B, e, t2, i, <<>>)
        BY <3>1 DEF Placed
      <4>7. QED
        BY <1>9, <1>11, <4>3, <4>4, <4>5, <4>6 DEF Kept
    <3>4. QED
      BY <3>2, <3>3
  <2>3. QED
    BY <2>1, <2>2
<1>16. QED
  BY <1>14, <1>15

-----------------------------------------------------------------------------
(***************************************************************************)
(* Chunks.                                                                 *)
(***************************************************************************)
\* The next chunk lies after position q of the stream, behind at most the line
\* end that the reader has still to pass (d = 1).
ChunkNext(S, i, p, d, q, from, n) ==
  /\ ChunkLaid(S, i, q, from, n) /\ q = p + d
  /\ d = 1 => S[q].p = "crlf"

\* A size that is found is n, d units on.
Scanned(c, d, n) ==
  LET scan == ScanChunk(c.buf, c.consumed)
  IN  scan.n >= 0 =>
        /\ scan.n = n /\ c.consumed + d + 2 <= Len(c.buf)
        /\ scan.next = c.consumed + d + 2 + (IF n = 0 THEN 1 ELSE 0)

\* The size that is found is that of the next chunk.
LEMMA ScanChunkAt ==
  ASSUME NEW msgs, NEW c \in Readers(msgs), NEW S, NEW t \in Nat, NEW p \in Int, At(S, c, t, p),
         NEW i, NEW d \in {0, 1}, NEW q \in Nat, NEW from, NEW n \in Nat,
         ChunkNext(S, i, p, d, q, from, n)
  PROVE  Scanned(c, d, n)
<1>1. PICK a, L, buf : a = c.consumed /\ L = Len(c.buf) /\ buf = c.buf
  BY Zenon
<1>2. a \in Nat /\ L \in Nat /\ buf \in Seq(Arriving(msgs)) /\ L = Len(buf)
  BY <1>1, ReaderFields
<1>3. a <= L /\ \A k \in 1 .. L - a : buf[a + k] = S[p + k]
  BY <1>1 DEF At, Inside, Ahead
<1>4. PICK rest, R : rest = SubSeq(buf, a + 1, L) /\ R = Len(rest)
  BY Zenon
<1>5. /\ rest \in Seq(Arriving(msgs)) /\ R = L - a /\ R \in Nat
      /\ \A k \in 1 .. R : rest[k] = S[p + k]
  <2>1. /\ rest \in Seq(Arriving(msgs)) /\ R = IF a < L THEN L - a ELSE 0
        /\ \A k \in 1 .. R : rest[k] = buf[a + k]
    <3>1. L \in Int /\ L <= Len(buf)
      BY <1>2
    <3>2. QED
      BY <1>2, <1>4, <3>1, PartIs
  <2>2. R = L - a /\ R \in Nat
    BY <1>2, <1>3, <2>1
  <2>3. QED
    BY <1>3, <2>1, <2>2
<1>6. PICK size : size = First(rest, "size")
  BY Zenon
<1>7. ScanChunk(buf, a) =
        IF size = 0 \/ size = R THEN [n |-> -1, next |-> a]
        ELSE [n |-> rest[size].k, next |-> a + size + 1 + (IF rest[size].k = 0 THEN 1 ELSE 0)]
  BY <1>1, <1>4, <1>6, Zenon DEF ScanChunk, SelectInSeq, First
<1>8. PICK scan : scan = ScanChunk(buf, a)
  BY Zenon
<1>9. ASSUME scan.n >= 0
      PROVE  /\ scan.n = n /\ a + d + 2 <= L
             /\ scan.next = a + d + 2 + (IF n = 0 THEN 1 ELSE 0)
  <2>1. size # 0 /\ size # R
    BY <1>7, <1>8, <1>9
  <2>2. /\ size \in 0 .. R /\ (size > 0 => rest[size].p = "size")
        /\ \A k \in 1 .. R : rest[k].p = "size" => size <= k
    BY <1>4, <1>5, <1>6, FirstIs
  <2>3. size \in Nat /\ size > 0 /\ size < R /\ rest[size].p = "size"
    BY <1>5, <2>1, <2>2
  <2>4. S[q + 1].p = "size" /\ S[q + 1].k = n /\ q = p + d /\ (d = 1 => S[q].p = "crlf")
    BY TokenFields DEF ChunkNext, ChunkLaid
  <2>5. size = d + 1
    <3>1. CASE d = 0
      <4>1. 1 \in 1 .. R /\ p + 1 = q + 1
        BY <1>5, <2>3, <2>4, <3>1
      <4>2. rest[1].p = "size"
        BY <1>5, <2>4, <4>1
      <4>3. size <= 1
        BY <2>2, <4>1, <4>2
      <4>4. QED
        BY <2>3, <3>1, <4>3
    <3>2. CASE d = 1
      <4>1. 1 \in 1 .. R /\ p + 1 = q
        BY <1>5, <2>3, <2>4, <3>2
      <4>2. rest[1].p = "crlf"
        BY <1>5, <2>4, <3>2, <4>1
      <4>3. size # 1
        BY <2>3, <4>2
      <4>4. 2 \in 1 .. R /\ p + 2 = q + 1
        BY <1>5, <2>3, <2>4, <3>2, <4>3
      <4>5. rest[2].p = "size"
        BY <1>5, <2>4, <4>4
      <4>6. size <= 2
        BY <2>2, <4>4, <4>5
      <4>7. QED
        BY <2>3, <3>2, <4>3, <4>6
    <3>3. QED
      BY <3>1, <3>2
  <2>6. rest[size].k = n
    <3>1. size \in 1 .. R /\ p + size = q + 1
      BY <1>5, <2>3, <2>4, <2>5
    <3>2. QED
      BY <1>5, <2>4, <3>1
  <2>7. scan.n = n /\ scan.next = a + size + 1 + (IF n = 0 THEN 1 ELSE 0)
    BY <1>7, <1>8, <2>1, <2>6
  <2>8. a + size + 1 = a + d + 2
    BY <1>2, <2>5
  <2>9. a + d + 2 <= L
    BY <1>2, <1>5, <2>3, <2>5
  <2>10. QED
    BY <2>7, <2>8, <2>9
<1>10. QED
  BY <1>1, <1>8, <1>9 DEF Scanned

\* k, returned where position p was next, has gone past a chunk size after position q.
ChunkPassed(S, c, k, t, p, q, n) ==
  /\ k.c.upgrade = c.upgrade /\ k.n \in Int
  /\ k.n < 0 => At(S, k.c, t + k.taken, p) /\ k.c.req = c.req
  /\ k.n >= 0 =>
       /\ k.n = n /\ k.c.req = [c.req EXCEPT !.contentlen = @ + n]
       /\ n > 0 => At(S, k.c, t + k.taken, q + 2)
       /\ n = 0 => At(S, k.c, t + k.taken, q + 3) \/ (~Inside(k.c) /\ (t + k.taken) + 1 = q + 3)

\* xs_conn_chunkready goes past the size it finds, after the last chunk past
\* the line end as well, whether this has come or not.
LEMMA ChunkReadyAt ==
  ASSUME NEW msgs, NEW c \in Readers(msgs), NEW net \in Nets(msgs), NEW S, NEW t \in Nat,
         NEW p \in Int, At(S, c, t, p), NetAt(S, net, t),
         NEW i, NEW d \in {0, 1}, NEW q \in Nat, NEW from, NEW n \in Nat,
         ChunkNext(S, i, p, d, q, from, n)
  PROVE  ChunkPassed(S, c, ChunkReady(c, net), t, p, q, n)
<1>1. PICK r : r = BufResize(c)
  BY Zenon
<1>2. r \in Readers(msgs) /\ r.req = c.req /\ r.upgrade = c.upgrade /\ At(S, r, t, p)
  BY <1>1, BufResizeTyped, BufResizeAt
<1>3. PICK f : f = FillChunk(r, net)
  BY Zenon
<1>4. /\ f.c.req = c.req /\ f.c.upgrade = c.upgrade /\ f.c \in Readers(msgs)
      /\ At(S, f.c, t + f.taken, p) /\ f.taken \in Nat
  <2>0. (ScanChunk(r.buf, r.consumed).n >= 0) \in BOOLEAN
    BY <1>2, ReaderFields, ScanChunkTyped
  <2>1. PICK ready : ready = (ScanChunk(r.buf, r.consumed).n >= 0) /\ ready \in BOOLEAN
    BY <2>0, Zenon
  <2>2. f = Fill(r, ready, net)
    BY <1>3, <2>1, Zenon DEF FillChunk
  <2>3. /\ Filled(f, net, msgs) /\ f.c.req = r.req /\ f.c.upgrade = r.upgrade
    <3>1. \A rdy \in BOOLEAN : /\ Filled(Fill(r, rdy, net), net, msgs)
                              /\ Fill(r, rdy, net).c.req = r.req
                              /\ Fill(r, rdy, net).c.upgrade = r.upgrade
      BY <1>2, FillTyped
    <3>2. QED
      BY <2>1, <2>2, <3>1, Zenon
  <2>4. At(S, f.c, t + f.taken, p)
    <3>1. \A rdy \in BOOLEAN : At(S, Fill(r, rdy, net).c, t + Fill(r, rdy, net).taken, p)
      BY <1>2, FillAt
    <3>2. QED
      BY <2>1, <2>2, <3>1, Zenon
  <2>5. f.taken \in Nat
    BY <2>3 DEF Filled, Nets
  <2>6. QED
    BY <1>2, <2>3, <2>4, <2>5 DEF Filled
<1>5. PICK scan : scan = ScanChunk(f.c.buf, f.c.consumed)
  BY Zenon
<1>6. PICK a, L, t2 : a = f.c.consumed /\ L = Len(f.c.buf) /\ t2 = t + f.taken
  BY Zenon
<1>7. a \in Nat /\ L \in Nat /\ t2 \in Nat
  BY <1>4, <1>6, ReaderFields
<1>8. scan.n \in Int
  BY <1>4, <1>5, ReaderFields, ScanChunkTyped
<1>9. scan.n >= 0 => /\ scan.n = n /\ a + d + 2 <= L
                     /\ scan.next = a + d + 2 + (IF n = 0 THEN 1 ELSE 0)
  <2>1. \A x \in Readers(msgs) : \A t0 \in Nat : At(S, x, t0, p) => Scanned(x, d, n)
    BY ScanChunkAt
  <2>2. At(S, f.c, t2, p)
    BY <1>4, <1>6
  <2>3. Scanned(f.c, d, n)
    BY <1>4, <1>7, <2>1, <2>2, Zenon
  <2>4. QED
    BY <1>5, <1>6, <2>3 DEF Scanned
<1>10. PICK m, next : m = scan.n /\ next = scan.next
  BY Zenon
<1>11. PICK x : x = [f.c EXCEPT !.consumed = next, !.req.contentlen = @ + m]
  BY Zenon
<1>12. /\ x.buf = f.c.buf /\ x.consumed = next /\ x.upgrade = f.c.upgrade
       /\ x.req = [f.c.req EXCEPT !.contentlen = @ + m]
  BY <1>4, <1>11, ReaderFields DEF Shapes
<1>13. PICK k : k = ChunkReady(c, net)
  BY Zenon
<1>14. k = [c |-> IF m < 0 THEN f.c ELSE x, n |-> m, asked |-> f.asked, taken |-> f.taken]
  BY <1>1, <1>3, <1>5, <1>10, <1>11, <1>13, Zenon DEF ChunkReady, ChunkFound
<1>15. k.taken = f.taken /\ k.n = m
  BY <1>14
<1>16. CASE m < 0
  <2>1. k.c = f.c
    BY <1>14, <1>16
  <2>2. ~(m >= 0)
    BY <1>8, <1>10, <1>16
  <2>3. ChunkPassed(S, c, k, t, p, q, n)
    BY <1>4, <1>8, <1>10, <1>15, <1>16, <2>1, <2>2 DEF ChunkPassed
  <2>4. QED
    BY <1>13, <2>3
<1>17. CASE m >= 0
  <2>1. k.c = x
    BY <1>8, <1>10, <1>14, <1>17
  <2>2. m = n /\ a + d + 2 <= L /\ next = a + d + 2 + (IF n = 0 THEN 1 ELSE 0)
    BY <1>9, <1>10, <1>17
  <2>3. q = p + d
    BY DEF ChunkNext
  <2>4. p = (t2 - L) + a /\ \A j \in 1 .. L - a : f.c.buf[a + j] = S[p + j]
    BY <1>4, <1>6 DEF At, Ahead
  <2>5. ASSUME next <= L PROVE At(S, x, t2, p + (next - a))
    <3>1. next \in Nat /\ next - a \in Nat
      BY <1>7, <2>2
    <3>2. p + (next - a) = (t2 - L) + next
      BY <1>7, <2>4, <3>1
    <3>3. ASSUME NEW j \in 1 .. L - next PROVE f.c.buf[next + j] = S[(p + (next - a)) + j]
      <4>1. PICK y : y = (next - a) + j
        BY Zenon
      <4>2. y \in 1 .. L - a /\ a + y = next + j /\ p + y = (p + (next - a)) + j
        BY <1>7, <3>1, <4>1
      <4>3. QED
        BY <2>4, <4>2
    <3>4. QED
      BY <1>6, <1>12, <2>5, <3>2, <3>3 DEF At, Inside, Ahead
  <2>6. n > 0 => At(S, x, t2, q + 2)
    <3>1. ASSUME n > 0 PROVE next <= L /\ p + (next - a) = q + 2
      BY <1>7, <2>2, <2>3, <3>1
    <3>2. QED
      BY <2>5, <3>1
  <2>7. n = 0 => At(S, x, t2, q + 3) \/ (~Inside(x) /\ t2 + 1 = q + 3)
    <3>1. ASSUME n = 0, next <= L PROVE At(S, x, t2, q + 3)
      <4>1. p + (next - a) = q + 3
        BY <1>7, <2>2, <2>3, <3>1
      <4>2. QED
        BY <2>5, <3>1, <4>1
    <3>2. ASSUME n = 0, ~(next <= L) PROVE ~Inside(x) /\ t2 + 1 = q + 3
      <4>1. ~Inside(x)
        BY <1>6, <1>12, <3>2 DEF Inside
      <4>2. next = (a + d) + 3 /\ next = L + 1
        BY <1>7, <2>2, <3>2
      <4>3. t2 + 1 = q + 3
        BY <1>7, <2>3, <2>4, <4>2
      <4>4. QED
        BY <4>1, <4>3
    <3>3. QED
      BY <3>1, <3>2
  <2>8. ~(m < 0)
    BY <1>8, <1>10, <1>17
  <2>9. k.c.upgrade = c.upgrade /\ k.c.req = [c.req EXCEPT !.contentlen = @ + n]
    BY <1>4, <1>12, <2>1, <2>2
  <2>10. ChunkPassed(S, c, k, t, p, q, n)
    BY <1>6, <1>8, <1>10, <1>15, <2>1, <2>2, <2>6, <2>7, <2>8, <2>9, Zenon DEF ChunkPassed
  <2>11. QED
    BY <1>13, <2>10
<1>18. QED
  BY <1>8, <1>10, <1>16, <1>17

\* A request of whose body n more units have been read.
Further(r, n) == [r EXCEPT !.consumed = @ + n]

\* The rest of the request stays.
LEMMA FurtherIs ==
  ASSUME NEW msgs, NEW c \in Readers(msgs), NEW n
  PROVE  LET r == c.req
             g == Further(r, n)
         IN  /\ g.consumed = r.consumed + n /\ g.m = r.m /\ g.reqlen = r.reqlen
             /\ g.contentlen = r.contentlen /\ g.chunked = r.chunked /\ g.header = r.header
<1>1. c.req \in RequestFields
  BY ReaderFields, RequestTypes
<1>2. QED
  BY <1>1 DEF Further, RequestFields

\* A piece of a body is read where the next of its units are next in the stream.
LEMMA ReadBodyKept ==
  ASSUME NEW msgs \in Seq(Messages), NEW i \in DOMAIN msgs, NEW c \in Readers(msgs),
         NEW len \in Nat \ {0}, NEW net \in Nets(msgs), NEW recv, recv.taken \in Nat,
         NEW S, NEW B, NEW t \in Nat, NEW p \in Int,
         At(S, c, t + recv.taken, p), NetAt(S, net, t + recv.taken),
         c.req.m = i, c.req.reqlen # 0, c.req.consumed < c.req.contentlen,
         NEW b, b = Body(i, 0, c.req.consumed),
         NextUnits(S, i, p, c.req),
         \A n \in Nat :
           \/ Plain(msgs[i], Further(c.req, n), B[i], p + n)
           \/ InChunks(msgs[i], Further(c.req, n), B[i], p + n) /\ c.upgrade = 0
  PROVE  Kept(msgs, S, B, ReadBody(c, len, net, recv), t, i, b)
<1>1. PICK r : r = ReadBody(c, len, net, recv)
  BY Zenon
<1>0. PICK n \in Nat : BodyRead(S, i, c, r, t, p, n)
  BY <1>1, ReadBodyAt
<1>2. /\ At(S, r.c, t + r.taken, p + n) /\ r.c.upgrade = c.upgrade
      /\ r.c.req = [c.req EXCEPT !.consumed = @ + n]
      /\ c.req.consumed + n <= c.req.contentlen
      /\ r.n >= 0 \/ n = 0
      /\ \A bb : bb = Body(i, 0, c.req.consumed) => Grows(r, bb) = Body(i, 0, c.req.consumed + n)
  BY <1>0, Zenon DEF BodyRead
<1>3. PICK g : g = Further(c.req, n)
  BY Zenon
<1>4. /\ g.consumed = c.req.consumed + n /\ g.m = i /\ g.reqlen = c.req.reqlen
      /\ g.contentlen = c.req.contentlen /\ g.chunked = c.req.chunked
  BY <1>3, FurtherIs
<1>5. r.c.req = g
  BY <1>2, <1>3, Zenon DEF Further
<1>6. Plain(msgs[i], g, B[i], p + n) \/ (InChunks(msgs[i], g, B[i], p + n) /\ c.upgrade = 0)
  BY <1>3
<1>7. Grows(r, b) = Body(i, 0, g.consumed)
  BY <1>2, <1>4
<1>8. Reading(msgs, S, B, r.c, t + r.taken, i, Grows(r, b))
  <2>1. \E z \in Int : /\ At(S, r.c, t + r.taken, z)
                       /\ \/ Plain(msgs[i], r.c.req, B[i], z)
                          \/ InChunks(msgs[i], r.c.req, B[i], z) /\ r.c.upgrade = 0
    <3>1. p + n \in Int
      OBVIOUS
    <3>2. QED
      BY <1>2, <1>5, <1>6, <3>1, Zenon
  <2>2. r.c.req.m = i /\ r.c.req.consumed <= r.c.req.contentlen
    BY <1>2, <1>4, <1>5
  <2>3. Grows(r, b) = Body(i, 0, r.c.req.consumed)
    BY <1>5, <1>7
  <2>4. QED
    BY <2>1, <2>2, <2>3, Zenon DEF Reading
<1>9. HttpState(r.c.req) = "complete" => r.n >= 0
  <2>1. ASSUME ~(r.n >= 0) PROVE HttpState(r.c.req) # "complete"
    <3>2. n = 0
      BY <1>2, <2>1
    <3>3. c.req.consumed \in Nat /\ c.req.contentlen \in Nat
      BY ReaderFields, RequestTypes
    <3>4. g.consumed < g.contentlen /\ g.contentlen > 0 /\ g.reqlen # 0
          /\ ~(g.consumed >= g.contentlen)
      BY <1>4, <3>2, <3>3
    <3>5. HttpState(g) # "complete"
      BY <3>4 DEF HttpState
    <3>6. QED
      BY <1>5, <3>5
  <2>2. QED
    BY <2>1
<1>10. r.c.req.reqlen # 0
  BY <1>4, <1>5
<1>11. QED
  BY <1>1, <1>8, <1>9, <1>10, Zenon DEF Kept, Placed

\* The body of a message that is not chunked.
LEMMA ReadPlainKept ==
  ASSUME NEW msgs \in Seq(Messages), NEW i \in DOMAIN msgs, NEW c \in Readers(msgs),
         NEW len \in Nat \ {0}, NEW net \in Nets(msgs), NEW recv, recv.taken \in Nat,
         NEW S, NEW B, Laid(msgs, S, B), NEW t \in Nat, NEW p \in Int,
         At(S, c, t + recv.taken, p), NetAt(S, net, t + recv.taken),
         c.req.m = i, c.req.reqlen # 0, c.req.consumed < c.req.contentlen,
         NEW b, b = Body(i, 0, c.req.consumed), Plain(msgs[i], c.req, B[i], p)
  PROVE  Kept(msgs, S, B, ReadBody(c, len, net, recv), t, i, b)
<1>1. PICK msg, x, y, at, q0 : /\ msg = msgs[i] /\ x = c.req.contentlen /\ y = c.req.consumed
                          /\ at = B[i] /\ q0 = c.req
  BY Zenon
<1>2. x \in Nat /\ y \in Nat /\ y < x
  BY <1>1, ReaderFields, RequestTypes
<1>3. msg.kind # "chunked" /\ ~q0.chunked /\ x = PlainLen(msg) /\ p = (at + 2) + y
  BY <1>1, Zenon DEF Plain
<1>4. at \in Nat /\ MessageLaid(S, i, msg, at, B[i + 1])
  BY <1>1, LaidParts
<1>5. \A q \in 1 .. x : S[(at + 2) + q] = Token(i, "body", q)
  BY <1>3, <1>4, Zenon DEF MessageLaid
<1>6. ASSUME NEW q \in 1 .. x - y PROVE S[p + q] = Token(i, "body", y + q)
  <2>1. y + q \in 1 .. x /\ p + q = (at + 2) + (y + q)
    BY <1>2, <1>3, <1>4
  <2>2. QED
    BY <1>5, <2>1
<1>7. NextUnits(S, i, p, c.req)
  BY <1>1, <1>6, Zenon DEF NextUnits
<1>8. ASSUME NEW n \in Nat PROVE Plain(msgs[i], Further(c.req, n), B[i], p + n)
  <2>1. PICK g : g = Further(c.req, n)
    BY Zenon
  <2>2. g.consumed = y + n /\ g.contentlen = x /\ g.chunked = q0.chunked
    BY <1>1, <2>1, FurtherIs
  <2>3. p + n = (at + 2) + (y + n)
    BY <1>2, <1>3, <1>4
  <2>4. QED
    BY <1>1, <1>3, <2>1, <2>2, <2>3, Zenon DEF Plain
<1>9. QED
  BY <1>7, <1>8, ReadBodyKept

\* The data of a chunk.
LEMMA ReadInChunkKept ==
  ASSUME NEW msgs \in Seq(Messages), NEW i \in DOMAIN msgs, NEW c \in Readers(msgs),
         NEW len \in Nat \ {0}, NEW net \in Nets(msgs), NEW recv, recv.taken \in Nat,
         NEW S, NEW B, Laid(msgs, S, B), NEW t \in Nat, NEW p \in Int,
         At(S, c, t + recv.taken, p), NetAt(S, net, t + recv.taken),
         c.req.m = i, c.req.reqlen # 0, c.req.consumed < c.req.contentlen,
         NEW b, b = Body(i, 0, c.req.consumed), InChunks(msgs[i], c.req, B[i], p), c.upgrade = 0
  PROVE  Kept(msgs, S, B, ReadBody(c, len, net, recv), t, i, b)
<1>1. PICK msg, x, y, at, q0, ch : /\ msg = msgs[i] /\ x = c.req.contentlen /\ y = c.req.consumed
                          /\ at = B[i] /\ q0 = c.req /\ ch = msg.chunks
  BY Zenon
<1>2. x \in Nat /\ y \in Nat /\ y < x
  BY <1>1, ReaderFields, RequestTypes
<1>3. at \in Nat /\ MessageLaid(S, i, msg, at, B[i + 1]) /\ msg \in Messages
  BY <1>1, LaidParts
<1>4. ch \in Seq(Nat \ {0})
  BY <1>1, <1>3 DEF Messages
<1>5. PICK N, u : N = Len(ch) /\ u = UpTo(ch)
  BY Zenon
<1>6. /\ N \in Nat /\ u[0] = 0
      /\ \A j \in 0 .. N : u[j] \in Nat /\ ChunkAt(ch, at, j) \in Nat /\ SizeOf(ch, j) \in Nat
      /\ \A j \in 0 .. N - 1 : u[j + 1] = u[j] + SizeOf(ch, j)
  <2>1. Chunks(ch, at, N, u)
    BY <1>3, <1>4, <1>5, ChunkFacts
  <2>2. QED
    BY <2>1 DEF Chunks
<1>7. PICK j \in 0 .. N :
        /\ x = u[j]
        /\ IF j = 0 THEN p = at + 2
           ELSE u[j - 1] <= y /\ p = (ChunkAt(ch, at, j - 1) + 2) + (y - u[j - 1])
  BY <1>1, <1>5, Zenon DEF InChunks
<1>8. j # 0
  BY <1>2, <1>6, <1>7
<1>9. PICK h : h = j - 1
  BY Zenon
<1>10. h \in 0 .. N - 1 /\ h \in 0 .. N /\ h + 1 = j
  BY <1>6, <1>8, <1>9
<1>11. PICK f, w, z : f = u[h] /\ w = ChunkAt(ch, at, h) /\ z = SizeOf(ch, h)
  BY Zenon
<1>12. f \in Nat /\ w \in Nat /\ z \in Nat /\ x = f + z /\ f <= y /\ p = (w + 2) + (y - f)
  BY <1>6, <1>7, <1>8, <1>9, <1>10, <1>11
<1>13. ChunkLaid(S, i, w, f, z)
  <2>1. \A k \in 0 .. N : ChunkLaid(S, i, ChunkAt(ch, at, k), u[k], SizeOf(ch, k))
    BY <1>1, <1>3, <1>5, Zenon DEF MessageLaid, InChunks
  <2>2. QED
    BY <1>10, <1>11, <2>1
<1>14. \A q \in 1 .. z : S[(w + 2) + q] = Token(i, "body", f + q)
  BY <1>13, Zenon DEF ChunkLaid
<1>15. ASSUME NEW q \in 1 .. x - y PROVE S[p + q] = Token(i, "body", y + q)
  <2>1. PICK k : k = q + (y - f)
    BY Zenon
  <2>2. k \in 1 .. z /\ p + q = (w + 2) + k /\ f + k = y + q
    BY <1>2, <1>12, <2>1
  <2>3. QED
    BY <1>14, <2>2
<1>16. NextUnits(S, i, p, c.req)
  BY <1>1, <1>15, Zenon DEF NextUnits
<1>17. ASSUME NEW n \in Nat PROVE InChunks(msgs[i], Further(c.req, n), B[i], p + n)
  <2>1. PICK g : g = Further(c.req, n)
    BY Zenon
  <2>2. g.consumed = y + n /\ g.contentlen = x /\ g.chunked = q0.chunked /\ g.header = q0.header
    BY <1>1, <2>1, FurtherIs
  <2>3. f <= y + n /\ p + n = (w + 2) + ((y + n) - f)
    BY <1>2, <1>12
  <2>4. msg.kind = "chunked" /\ q0.chunked /\ ~q0.header
    BY <1>1, Zenon DEF InChunks
  <2>5. /\ g.contentlen = u[j]
        /\ IF j = 0 THEN p + n = at + 2
           ELSE u[j - 1] <= g.consumed
                /\ p + n = (ChunkAt(ch, at, j - 1) + 2) + (g.consumed - u[j - 1])
    BY <1>7, <1>8, <1>9, <1>11, <2>2, <2>3, Zenon
  <2>6. QED
    BY <1>1, <1>5, <2>1, <2>2, <2>4, <2>5, Zenon DEF InChunks
<1>18. QED
  BY <1>16, <1>17, ReadBodyKept

\* A body that has not grown.
LEMMA GrowsNone ==
  ASSUME NEW msgs \in Seq(Messages), NEW i \in DOMAIN msgs, NEW n \in Nat, NEW r,
         r.out = <<>>, r.c.req.consumed = n, NEW b, b = Body(i, 0, n)
  PROVE  Grows(r, b) = Body(i, 0, n)
<1>0. <<>> \in Seq(Arriving(msgs)) /\ Len(<<>>) = 0
  OBVIOUS
<1>1. PICK s : s = <<>> /\ s \in Seq(Arriving(msgs)) /\ Len(s) = 0
  BY <1>0, Zenon
<1>2. Units(s, i, n)
  BY <1>1 DEF Units
<1>3. (IF n + 0 = 0 THEN <<>> ELSE Body(i, 0, n)) \o s = Body(i, 0, n + 0)
  <2>1. \A x \in Nat : \A out \in Seq(Arriving(msgs)) :
           Units(out, i, x)
             => (IF x + Len(out) = 0 THEN <<>> ELSE Body(i, 0, x)) \o out = Body(i, 0, x + Len(out))
    BY BodyMore
  <2>2. QED
    BY <1>1, <1>2, <2>1, Zenon
<1>4. n + 0 = n
  OBVIOUS
<1>5. QED
  BY <1>1, <1>3, <1>4, Zenon DEF Grows

\* The chunk after those of length len together is next.
ToCome(S, i, p, len, ch, at, N, u) ==
  \E j \in 0 .. N : \E d \in {0, 1} :
    /\ len = u[j]
    /\ ChunkNext(S, i, p, d, ChunkAt(ch, at, j), u[j], SizeOf(ch, j))
Coming(S, i, p, len, ch, at, e) ==
  /\ Chunks(ch, at, Len(ch), UpTo(ch)) /\ e = ChunkAt(ch, at, Len(ch)) + 3
  /\ ToCome(S, i, p, len, ch, at, Len(ch), UpTo(ch))

\* Where a chunk has been read to its end, the next is at hand.
LEMMA ChunkToCome ==
  ASSUME NEW msgs \in Seq(Messages), NEW i \in DOMAIN msgs, NEW S, NEW B, Laid(msgs, S, B),
         NEW r \in RequestFields, NEW p \in Int, InChunks(msgs[i], r, B[i], p),
         r.consumed = r.contentlen
  PROVE  msgs[i].kind = "chunked" /\ Coming(S, i, p, r.contentlen, msgs[i].chunks, B[i], B[i + 1])
<1>0. PICK ch, at, N, u : ch = msgs[i].chunks /\ at = B[i] /\ N = Len(ch) /\ u = UpTo(ch)
  BY Zenon
<1>1. PICK msg, x : msg = msgs[i] /\ x = r.contentlen
  BY Zenon
<1>2. at \in Nat /\ MessageLaid(S, i, msg, at, B[i + 1]) /\ msg \in Messages
  BY <1>0, <1>1, LaidParts
<1>3. ch \in Seq(Nat \ {0})
  BY <1>0, <1>1, <1>2 DEF Messages
<1>4. Chunks(ch, at, N, u)
  BY <1>0, <1>2, <1>3, ChunkFacts
<1>5. /\ N \in Nat /\ u[0] = 0 /\ ChunkAt(ch, at, 0) = at + 2
      /\ \A j \in 0 .. N : u[j] \in Nat /\ ChunkAt(ch, at, j) \in Nat /\ SizeOf(ch, j) \in Nat
      /\ \A j \in 0 .. N - 1 :
           /\ u[j + 1] = u[j] + SizeOf(ch, j)
           /\ ChunkAt(ch, at, j + 1) = (ChunkAt(ch, at, j) + 3) + SizeOf(ch, j)
  BY <1>4 DEF Chunks
<1>6. msg.kind = "chunked" /\ x \in Nat /\ r.consumed = x
  BY <1>1 DEF InChunks, RequestFields
<1>7. PICK j \in 0 .. N :
        /\ x = u[j]
        /\ IF j = 0 THEN p = at + 2
           ELSE u[j - 1] <= x /\ p = (ChunkAt(ch, at, j - 1) + 2) + (x - u[j - 1])
  BY <1>0, <1>1, <1>6, Zenon DEF InChunks
<1>8. /\ B[i + 1] = ChunkAt(ch, at, N) + 3
      /\ \A k \in 0 .. N : ChunkLaid(S, i, ChunkAt(ch, at, k), u[k], SizeOf(ch, k))
  BY <1>0, <1>1, <1>2, <1>6, Zenon DEF MessageLaid
<1>9. ASSUME NEW d \in {0, 1}, ChunkAt(ch, at, j) = p + d,
             d = 1 => S[ChunkAt(ch, at, j)].p = "crlf"
      PROVE  ChunkNext(S, i, p, d, ChunkAt(ch, at, j), u[j], SizeOf(ch, j))
  BY <1>8, <1>9, Zenon DEF ChunkNext
<1>10. \E d \in {0, 1} : ChunkNext(S, i, p, d, ChunkAt(ch, at, j), u[j], SizeOf(ch, j))
  <2>1. CASE j = 0
    <3>1. ChunkAt(ch, at, j) = p + 0
      BY <1>5, <1>7, <2>1
    <3>2. QED
      BY <1>9, <3>1
  <2>2. CASE j # 0
    <3>1. PICK h : h = j - 1
      BY Zenon
    <3>2. h \in 0 .. N - 1 /\ h \in 0 .. N /\ h + 1 = j
      BY <1>5, <2>2, <3>1
    <3>3. PICK f, w, z, v : f = u[h] /\ w = ChunkAt(ch, at, h) /\ z = SizeOf(ch, h)
                            /\ v = ChunkAt(ch, at, j)
      BY Zenon
    <3>4. f \in Nat /\ w \in Nat /\ z \in Nat /\ x = f + z /\ v = (w + 3) + z
      BY <1>5, <1>7, <3>2, <3>3
    <3>5. p = (w + 2) + (x - f)
      BY <1>7, <2>2, <3>1, <3>3
    <3>6. v = p + 1 /\ v = (w + 3) + z
      BY <3>4, <3>5
    <3>7. ChunkLaid(S, i, w, f, z)
      BY <1>8, <3>2, <3>3
    <3>8. S[v].p = "crlf"
      BY <3>6, <3>7, TokenFields DEF ChunkLaid
    <3>9. QED
      BY <1>9, <3>3, <3>6, <3>8
  <2>3. QED
    BY <2>1, <2>2
<1>11. ToCome(S, i, p, x, ch, at, N, u)
  BY <1>7, <1>10, Zenon DEF ToCome
<1>12. QED
  BY <1>0, <1>1, <1>4, <1>6, <1>8, <1>11, Zenon DEF Coming

\* The next chunk, or a piece of the one being read.
LEMMA ReadChunkedKept ==
  ASSUME NEW msgs \in Seq(Messages), NEW i \in DOMAIN msgs, NEW c \in Readers(msgs),
         NEW len \in Nat \ {0}, NEW net \in Nets(msgs), NEW s, s \notin {"complete", "error"},
         NEW S, NEW B, Laid(msgs, S, B), NEW t \in Nat, NEW p \in Int,
         At(S, c, t, p), NetAt(S, net, t),
         c.req.m = i, c.req.reqlen # 0, c.req.consumed <= c.req.contentlen,
         NEW b, b = Body(i, 0, c.req.consumed), InChunks(msgs[i], c.req, B[i], p), c.upgrade = 0
  PROVE  Kept(msgs, S, B, ReadChunked(c, s, len, net), t, i, b)
<1>1. PICK q0 : q0 = c.req
  BY Zenon
<1>2. /\ q0 \in Requests(msgs) /\ q0 \in RequestFields /\ q0.consumed \in Nat /\ q0.contentlen \in Nat
  BY <1>1, ReaderFields, RequestTypes
<1>3. CASE q0.consumed < q0.contentlen
  <2>1. PICK recv : recv = NotAsked
    BY Zenon
  <2>2. recv.taken \in Nat /\ t + recv.taken = t
    BY <2>1 DEF NotAsked
  <2>3. ReadChunked(c, s, len, net) = ReadBody(c, len, net, recv)
    BY <1>1, <1>3, <2>1 DEF ReadChunked
  <2>4. At(S, c, t + recv.taken, p) /\ NetAt(S, net, t + recv.taken)
    BY <2>2
  <2>5. QED
    BY <1>1, <1>3, <2>2, <2>3, <2>4, ReadInChunkKept
<1>4. CASE ~(q0.consumed < q0.contentlen)
  <2>1. q0.consumed = q0.contentlen
    BY <1>1, <1>2, <1>4
  <2>2. PICK msg, ch, at, N, u : /\ msg = msgs[i] /\ ch = msg.chunks /\ at = B[i] /\ N = Len(ch)
                                 /\ u = UpTo(ch)
    BY Zenon
  <2>3. Chunks(ch, at, N, u) /\ msg.kind = "chunked" /\ B[i + 1] = ChunkAt(ch, at, N) + 3
        /\ ToCome(S, i, p, q0.contentlen, ch, at, N, u)
    <3>1. \A r \in RequestFields :
            InChunks(msgs[i], r, B[i], p) /\ r.consumed = r.contentlen
              => /\ msgs[i].kind = "chunked"
                 /\ Coming(S, i, p, r.contentlen, msgs[i].chunks, B[i], B[i + 1])
      BY ChunkToCome
    <3>2. msg.kind = "chunked" /\ Coming(S, i, p, q0.contentlen, ch, at, B[i + 1])
      BY <1>1, <1>2, <2>1, <2>2, <3>1, Zenon
    <3>3. QED
      BY <2>2, <3>2, Zenon DEF Coming
  <2>4. PICK j \in 0 .. N : \E d \in {0, 1} :
              /\ q0.contentlen = u[j]
              /\ ChunkNext(S, i, p, d, ChunkAt(ch, at, j), u[j], SizeOf(ch, j))
    BY <2>3, Zenon DEF ToCome
  <2>5. PICK q, f, n : q = ChunkAt(ch, at, j) /\ f = u[j] /\ n = SizeOf(ch, j)
    BY Zenon
  <2>6. PICK d \in {0, 1} : q0.contentlen = f /\ ChunkNext(S, i, p, d, q, f, n)
    BY <2>4, <2>5
  <2>7. /\ N \in Nat /\ q \in Nat /\ f \in Nat /\ n \in Nat
        /\ n = 0 => j = N
        /\ n > 0 => j + 1 \in 0 .. N /\ j + 1 # 0 /\ (j + 1) - 1 = j /\ u[j + 1] = f + n
    <3>1. /\ N \in Nat /\ SizeOf(ch, N) = 0
          /\ \A x \in 0 .. N : u[x] \in Nat /\ ChunkAt(ch, at, x) \in Nat /\ SizeOf(ch, x) \in Nat
          /\ \A x \in 0 .. N - 1 : SizeOf(ch, x) > 0 /\ u[x + 1] = u[x] + SizeOf(ch, x)
      BY <2>3 DEF Chunks
    <3>2. N \in Nat /\ q \in Nat /\ f \in Nat /\ n \in Nat
      BY <2>5, <3>1
    <3>3. CASE j = N
      <4>1. n = 0
        BY <2>5, <3>1, <3>3
      <4>2. QED
        BY <3>2, <3>3, <4>1
    <3>4. CASE j # N
      <4>1. j \in 0 .. N - 1
        BY <3>1, <3>4
      <4>2. n > 0 /\ u[j + 1] = f + n
        BY <2>5, <3>1, <4>1
      <4>3. j + 1 \in 0 .. N /\ j + 1 # 0 /\ (j + 1) - 1 = j
        BY <3>1, <4>1
      <4>4. QED
        BY <3>2, <4>2, <4>3
    <3>5. QED
      BY <3>3, <3>4
  <2>8. PICK k : k = ChunkReady(c, net)
    BY Zenon
  <2>9. ChunkPassed(S, c, k, t, p, q, n)
    <3>1. \A dd \in {0, 1} : \A qq, nn \in Nat :
            ChunkNext(S, i, p, dd, qq, f, nn)
              => ChunkPassed(S, c, ChunkReady(c, net), t, p, qq, nn)
      BY ChunkReadyAt
    <3>2. QED
      BY <2>6, <2>7, <2>8, <3>1, Zenon
  <2>10. /\ k.c \in Readers(msgs) /\ k.taken \in 0 .. Len(net.data) /\ k.taken \in Nat
         /\ Len(net.data) \in Nat /\ k.c.req \in Requests(msgs)
    BY <2>8, ChunkReadyTyped, ReaderFields DEF Filled, Nets
  <2>11. PICK ended : ended = [k.c EXCEPT !.req.chunked = (k.n # 0)]
    BY Zenon
  <2>12. PICK r : r = ReadChunked(c, s, len, net)
    BY Zenon
  <2>13. r = IF k.n > 0 THEN ReadBody(k.c, len, Left(net, k.taken), k)
             ELSE Returned(ended, RetValue(s, ended), Buffered(ended), k)
    BY <1>1, <1>4, <2>8, <2>11, <2>12, Zenon DEF ReadChunked, NextChunk
  <2>14. PICK e, t2 : e = ended.req /\ t2 = t + k.taken
    BY Zenon
  <2>15. /\ ended.buf = k.c.buf /\ ended.consumed = k.c.consumed /\ ended.upgrade = k.c.upgrade
         /\ ended.errnum = k.c.errnum /\ e = [k.c.req EXCEPT !.chunked = (k.n # 0)]
    BY <2>10, <2>11, <2>14, ReaderFields DEF Shapes
  <2>16. k.n \in Int /\ k.c.upgrade = 0
    BY <2>9 DEF ChunkPassed
  <2>17. CASE k.n < 0
    <3>1. At(S, k.c, t2, p) /\ k.c.req = q0 /\ k.n # 0 /\ ~(k.n > 0)
      BY <1>1, <2>9, <2>14, <2>16, <2>17 DEF ChunkPassed
    <3>2. q0.chunked = TRUE
      BY <1>1, <1>2 DEF InChunks, RequestFields
    <3>3. e = q0
      BY <1>2, <2>15, <3>1, <3>2 DEF RequestFields
    <3>4. r.c = ended /\ r.taken = k.taken /\ r.out = <<>>
      BY <2>13, <3>1, Zenon DEF Returned
    <3>5. At(S, ended, t2, p)
      BY <2>15, <3>1, SamePlace
    <3>6. Grows(r, b) = Body(i, 0, e.consumed)
      <4>1. PICK y : y = e.consumed
        BY Zenon
      <4>2. y \in Nat /\ r.c.req.consumed = y /\ b = Body(i, 0, y)
        BY <1>1, <1>2, <2>14, <3>3, <3>4, <4>1
      <4>3. QED
        BY <3>4, <4>1, <4>2, GrowsNone
    <3>7. Reading(msgs, S, B, ended, t2, i, Grows(r, b))
      <4>1. \E z \in Int : /\ At(S, ended, t2, z)
                           /\ \/ Plain(msgs[i], ended.req, B[i], z)
                              \/ InChunks(msgs[i], ended.req, B[i], z) /\ ended.upgrade = 0
        BY <1>1, <2>14, <2>15, <2>16, <3>3, <3>5, Zenon
      <4>2. ended.req.m = i /\ ended.req.consumed <= ended.req.contentlen
        BY <1>1, <2>14, <3>3
      <4>3. QED
        BY <2>14, <3>6, <4>1, <4>2, Zenon DEF Reading
    <3>8. ended.req.reqlen # 0 /\ HttpState(ended.req) # "complete"
      BY <1>1, <2>14, <3>2, <3>3 DEF HttpState
    <3>9. QED
      BY <2>12, <2>14, <3>4, <3>7, <3>8, Zenon DEF Kept, Placed
  <2>18. CASE k.n = 0
    <3>1. /\ n = 0 /\ k.c.req = [q0 EXCEPT !.contentlen = @ + n] /\ ~(k.n > 0)
          /\ At(S, k.c, t2, q + 3) \/ (~Inside(k.c) /\ t2 + 1 = q + 3)
      BY <1>1, <2>9, <2>14, <2>16, <2>18 DEF ChunkPassed
    <3>2. /\ e.m = i /\ e.reqlen = q0.reqlen /\ e.contentlen = f /\ e.consumed = f /\ e.header = q0.header
          /\ e.chunked = FALSE /\ e.consumed = q0.consumed
      <4>1. PICK g : g = k.c.req
        BY Zenon
      <4>2. /\ g.m = i /\ g.reqlen = q0.reqlen /\ g.contentlen = f + n /\ g.header = q0.header
            /\ g.consumed = q0.consumed /\ g \in RequestFields
        <5>1. g = [q0 EXCEPT !.contentlen = f + n] /\ q0.m = i
          BY <1>1, <2>6, <3>1, <4>1
        <5>2. f + n \in Nat
          BY <2>7
        <5>3. QED
          BY <1>2, <5>1, <5>2 DEF RequestFields
      <4>3. e = [g EXCEPT !.chunked = FALSE]
        BY <2>15, <2>18, <4>1
      <4>4. f + n = f /\ q0.consumed = f
        BY <2>1, <2>6, <2>7, <3>1
      <4>5. QED
        BY <4>2, <4>3, <4>4 DEF RequestFields
    <3>3. ~q0.header
      BY <1>1, Zenon DEF InChunks
    <3>4. r.c = ended /\ r.taken = k.taken /\ r.out = <<>> /\ r.n = RetValue(s, ended)
      BY <2>13, <3>1, Zenon DEF Returned
    <3>5. Grows(r, b) = Body(i, 0, e.consumed)
      <4>1. PICK y : y = e.consumed
        BY Zenon
      <4>2. y \in Nat /\ r.c.req.consumed = y /\ b = Body(i, 0, y)
        BY <1>1, <1>2, <2>14, <3>2, <3>4, <4>1
      <4>3. QED
        BY <3>4, <4>1, <4>2, GrowsNone
    <3>6. ChunksEnded(S, msg, ended, t2, B[i + 1])
      <4>1. f = Total(ch)
        BY <2>2, <2>5, <2>7, <3>1 DEF Total
      <4>2. B[i + 1] = q + 3
        BY <2>3, <2>5, <2>7, <3>1
      <4>3. At(S, ended, t2, q + 3) \/ (~Inside(ended) /\ t2 + 1 = q + 3)
        BY <2>15, <3>1, SamePlace DEF Inside
      <4>4. QED
        BY <2>2, <2>3, <2>14, <2>15, <2>16, <3>2, <3>3, <4>1, <4>2, <4>3 DEF ChunksEnded
    <3>7. Reading(msgs, S, B, ended, t2, i, Grows(r, b))
      <4>1. ended.req.m = i /\ ended.req.consumed <= ended.req.contentlen
        BY <2>7, <2>14, <3>2
      <4>2. QED
        BY <2>2, <2>14, <3>5, <3>6, <4>1, Zenon DEF Reading
    <3>8. HttpState(ended.req) = "complete" => r.n >= 0
      <4>1. ASSUME HttpState(ended.req) = "complete" PROVE r.n = 0
        BY <3>4, <4>1 DEF RetValue, ConnState
      <4>2. QED
        BY <4>1
    <3>9. ended.req.reqlen # 0
      BY <1>1, <2>14, <3>2
    <3>10. QED
      BY <2>12, <2>14, <3>4, <3>7, <3>8, <3>9, Zenon DEF Kept, Placed
  <2>19. CASE k.n > 0
    <3>1. /\ k.n = n /\ n > 0 /\ k.c.req = [q0 EXCEPT !.contentlen = @ + n] /\ At(S, k.c, t2, q + 2)
      BY <1>1, <2>9, <2>14, <2>16, <2>19 DEF ChunkPassed
    <3>2. PICK g : g = k.c.req
      BY Zenon
    <3>3. /\ g.m = i /\ g.reqlen # 0 /\ g.contentlen = f + n /\ g.consumed = f /\ g.header = q0.header
          /\ g.chunked = q0.chunked /\ g.consumed = q0.consumed
      BY <1>1, <1>2, <2>1, <2>6, <3>1, <3>2 DEF RequestFields
    <3>4. g.consumed < g.contentlen
      BY <2>7, <3>1, <3>3
    <3>5. InChunks(msg, g, at, q + 2)
      <4>1. q0.chunked /\ ~q0.header
        BY <1>1, Zenon DEF InChunks
      <4>2. PICK h : h = j + 1
        BY Zenon
      <4>3. h \in 0 .. N /\ h # 0 /\ h - 1 = j /\ u[h] = f + n
        BY <2>7, <3>1, <4>2
      <4>4. q + 2 = (q + 2) + (f - f) /\ f <= f
        BY <2>7
      <4>5. /\ g.contentlen = u[h]
            /\ IF h = 0 THEN q + 2 = at + 2
               ELSE /\ u[h - 1] <= g.consumed
                    /\ q + 2 = (ChunkAt(ch, at, h - 1) + 2) + (g.consumed - u[h - 1])
        BY <2>5, <3>3, <4>3, <4>4, Zenon
      <4>6. QED
        BY <2>2, <2>3, <3>3, <4>1, <4>3, <4>5, Zenon DEF InChunks
    <3>6. PICK rest : rest = Left(net, k.taken)
      BY Zenon
    <3>7. rest \in Nets(msgs) /\ NetAt(S, rest, t + k.taken)
      BY <2>10, <3>6, LeftTyped, LeftAt
    <3>8. r = ReadBody(k.c, len, rest, k)
      BY <2>13, <2>19, <3>6
    <3>9. At(S, k.c, t + k.taken, q + 2) /\ q + 2 \in Int
      BY <2>7, <2>14, <3>1
    <3>10. /\ k.c.req.m = i /\ k.c.req.reqlen # 0 /\ k.c.req.consumed < k.c.req.contentlen
           /\ b = Body(i, 0, k.c.req.consumed) /\ InChunks(msgs[i], k.c.req, B[i], q + 2)
      BY <1>1, <2>2, <3>2, <3>3, <3>4, <3>5
    <3>11. QED
      <4>1. PICK c1, p1 : c1 = k.c /\ p1 = q + 2
        BY Zenon
      <4>2. /\ c1 \in Readers(msgs) /\ c1.upgrade = 0 /\ p1 \in Int /\ At(S, c1, t + k.taken, p1)
            /\ c1.req.m = i /\ c1.req.reqlen # 0 /\ c1.req.consumed < c1.req.contentlen
            /\ b = Body(i, 0, c1.req.consumed) /\ InChunks(msgs[i], c1.req, B[i], p1)
        BY <2>10, <2>16, <3>9, <3>10, <4>1
      <4>3. Kept(msgs, S, B, ReadBody(c1, len, rest, k), t, i, b)
        BY <2>10, <3>7, <4>2, ReadInChunkKept
      <4>4. QED
        BY <2>12, <3>8, <4>1, <4>3
  <2>20. QED
    BY <2>16, <2>17, <2>18, <2>19
<1>5. QED
  BY <1>3, <1>4

-----------------------------------------------------------------------------
(***************************************************************************)
(* One call of xs_conn_httpread.                                           *)
(***************************************************************************)
\* The fields that say where the reader is.
SameReader(c, d) ==
  /\ d.buf = c.buf /\ d.consumed = c.consumed /\ d.upgrade = c.upgrade
  /\ d.req.m = c.req.m /\ d.req.reqlen = c.req.reqlen /\ d.req.contentlen = c.req.contentlen
  /\ d.req.consumed = c.req.consumed /\ d.req.chunked = c.req.chunked

\* A place depends on them, and on header only in a chunked body.
LEMMA SameReading ==
  ASSUME NEW msgs, NEW S, NEW B, NEW c, NEW d, NEW t, NEW i, NEW b,
         SameReader(c, d), d.req.header => c.req.header, Reading(msgs, S, B, c, t, i, b)
  PROVE  Reading(msgs, S, B, d, t, i, b)
<1>1. /\ d.buf = c.buf /\ d.consumed = c.consumed /\ d.upgrade = c.upgrade
      /\ d.req.m = c.req.m /\ d.req.reqlen = c.req.reqlen /\ d.req.contentlen = c.req.contentlen
      /\ d.req.consumed = c.req.consumed /\ d.req.chunked = c.req.chunked
  BY Zenon DEF SameReader
<1>2. /\ i \in DOMAIN msgs /\ c.req.m = i /\ c.req.consumed <= c.req.contentlen
      /\ b = Body(i, 0, c.req.consumed)
      /\ \/ \E p \in Int : /\ At(S, c, t, p)
                           /\ \/ Plain(msgs[i], c.req, B[i], p)
                              \/ InChunks(msgs[i], c.req, B[i], p) /\ c.upgrade = 0
         \/ ChunksEnded(S, msgs[i], c, t, B[i + 1])
  BY Zenon DEF Reading
<1>3. \A p : At(S, c, t, p) => At(S, d, t, p)
  BY <1>1, SamePlace
<1>4. \A p : Plain(msgs[i], c.req, B[i], p) => Plain(msgs[i], d.req, B[i], p)
  BY <1>1, Zenon DEF Plain
<1>5. \A p : InChunks(msgs[i], c.req, B[i], p) => InChunks(msgs[i], d.req, B[i], p)
  BY <1>1, Zenon DEF InChunks
<1>6. ChunksEnded(S, msgs[i], c, t, B[i + 1]) => ChunksEnded(S, msgs[i], d, t, B[i + 1])
  BY <1>1, <1>3, Zenon DEF ChunksEnded, Inside
<1>7. d.req.m = i /\ d.req.consumed <= d.req.contentlen /\ b = Body(i, 0, d.req.consumed)
  BY <1>1, <1>2, Zenon
<1>8. QED
  BY <1>1, <1>2, <1>3, <1>4, <1>5, <1>6, <1>7, Zenon DEF Reading

\* The same, for a reader that may be between two messages.
LEMMA SamePlaced ==
  ASSUME NEW msgs, NEW S, NEW B, NEW c, NEW d, NEW t, NEW i, NEW b,
         SameReader(c, d), d.req.header => c.req.header, Placed(msgs, S, B, c, t, i, b)
  PROVE  Placed(msgs, S, B, d, t, i, b)
<1>1. /\ d.buf = c.buf /\ d.consumed = c.consumed /\ d.upgrade = c.upgrade
      /\ d.req.reqlen = c.req.reqlen
  BY Zenon DEF SameReader
<1>2. CASE c.req.reqlen = 0
  <2>1. Idle(msgs, S, B, c, t, i)
    BY <1>2, Zenon DEF Placed
  <2>2. \A p : At(S, c, t, p) => At(S, d, t, p)
    BY <1>1, SamePlace
  <2>3. Idle(msgs, S, B, d, t, i)
    BY <1>1, <2>1, <2>2, Zenon DEF Idle, LateEnd
  <2>4. QED
    BY <1>1, <1>2, <2>3, Zenon DEF Placed
<1>3. CASE c.req.reqlen # 0
  <2>1. Reading(msgs, S, B, c, t, i, b)
    BY <1>3, Zenon DEF Placed
  <2>2. Reading(msgs, S, B, d, t, i, b)
    BY <2>1, SameReading
  <2>3. QED
    BY <1>1, <1>3, <2>2, Zenon DEF Placed
<1>4. QED
  BY <1>2, <1>3

\* A complete message ends where the next one begins.
LEMMA ReadToTheEnd ==
  ASSUME NEW msgs \in Seq(Messages), NEW c \in Readers(msgs), NEW S, NEW B, Laid(msgs, S, B),
         NEW t \in Nat, NEW i, NEW b, Reading(msgs, S, B, c, t, i, b), c.req.reqlen # 0,
         HttpState(c.req) = "complete"
  PROVE  /\ i \in DOMAIN msgs /\ i + 1 \in DOMAIN B /\ B[i + 1] \in Nat
         /\ b = Body(i, 0, IF msgs[i].kind = "chunked" THEN Total(msgs[i].chunks) ELSE PlainLen(msgs[i]))
         /\ \/ At(S, c, t, B[i + 1])
            \/ ~Inside(c) /\ t + 1 = B[i + 1] /\ LateEnd(msgs, S, c, i, B[i + 1])
<1>1. PICK msg, q, at, e, x, y : /\ msg = msgs[i] /\ q = c.req /\ at = B[i] /\ e = B[i + 1]
                                 /\ x = q.contentlen /\ y = q.consumed
  BY Zenon
<1>2. /\ i \in DOMAIN msgs /\ y <= x /\ b = Body(i, 0, y)
      /\ \/ \E p \in Int : /\ At(S, c, t, p)
                           /\ \/ Plain(msg, q, at, p)
                              \/ InChunks(msg, q, at, p)
         \/ ChunksEnded(S, msg, c, t, e)
  BY <1>1, Zenon DEF Reading
<1>3. x \in Nat /\ y \in Nat /\ q \in RequestFields /\ q.reqlen # 0
  BY <1>1, ReaderFields, RequestTypes
<1>4. ~q.chunked /\ y = x
  BY <1>1, <1>2, <1>3 DEF HttpState
<1>5. i + 1 \in DOMAIN B /\ e \in Nat /\ at \in Nat /\ MessageLaid(S, i, msg, at, e) /\ msg \in Messages
  BY <1>1, <1>2, LaidParts
<1>6. ASSUME NEW p \in Int, At(S, c, t, p), Plain(msg, q, at, p)
      PROVE  At(S, c, t, e) /\ msg.kind # "chunked" /\ y = PlainLen(msg)
  <2>1. msg.kind # "chunked" /\ x = PlainLen(msg) /\ p = (at + 2) + y
    BY <1>1, <1>6, Zenon DEF Plain
  <2>2. e = (at + 2) + PlainLen(msg)
    BY <1>5, <2>1, Zenon DEF MessageLaid
  <2>3. p = e
    BY <1>4, <2>1, <2>2
  <2>4. QED
    BY <1>4, <1>6, <2>1, <2>3
<1>7. ASSUME ChunksEnded(S, msg, c, t, e)
      PROVE  /\ msg.kind = "chunked" /\ y = Total(msg.chunks)
             /\ \/ At(S, c, t, e)
                \/ ~Inside(c) /\ t + 1 = e /\ c.upgrade = 0 /\ S[e].p = "crlf"
  <2>1. /\ msg.kind = "chunked" /\ x = Total(msg.chunks) /\ c.upgrade = 0
        /\ At(S, c, t, e) \/ (~Inside(c) /\ t + 1 = e)
    BY <1>1, <1>7, Zenon DEF ChunksEnded
  <2>2. PICK ch, N, u : ch = msg.chunks /\ N = Len(ch) /\ u = UpTo(ch)
    BY Zenon
  <2>3. Chunks(ch, at, N, u)
    <3>1. ch \in Seq(Nat \ {0})
      BY <1>5, <2>2 DEF Messages
    <3>2. QED
      BY <1>5, <2>2, <3>1, ChunkFacts
  <2>4. N \in 0 .. N /\ SizeOf(ch, N) = 0 /\ ChunkAt(ch, at, N) \in Nat
    BY <2>3 DEF Chunks
  <2>5. /\ e = ChunkAt(ch, at, N) + 3
        /\ \A j \in 0 .. N : ChunkLaid(S, i, ChunkAt(ch, at, j), u[j], SizeOf(ch, j))
    BY <1>5, <2>1, <2>2, Zenon DEF MessageLaid
  <2>6. PICK w, f : w = ChunkAt(ch, at, N) /\ f = u[N]
    BY Zenon
  <2>7. ChunkLaid(S, i, w, f, 0)
    BY <2>4, <2>5, <2>6
  <2>8. S[(w + 3) + 0] = Token(i, "crlf", 0) /\ (w + 3) + 0 = e
    BY <2>4, <2>5, <2>6, <2>7 DEF ChunkLaid
  <2>9. S[e].p = "crlf"
    BY <2>8, TokenFields
  <2>10. QED
    BY <1>4, <2>1, <2>9
<1>8. \A p : ~InChunks(msg, q, at, p)
  BY <1>4, Zenon DEF InChunks
<1>9. ASSUME msg.kind = "chunked", c.upgrade = 0, S[e].p = "crlf"
      PROVE  LateEnd(msgs, S, c, i, e)
  BY <1>1, <1>2, <1>9, Zenon DEF LateEnd
<1>10. QED
  BY <1>1, <1>2, <1>5, <1>6, <1>7, <1>8, <1>9

\* A request that has been handled makes room for the next.
LEMMA FreshIdle ==
  ASSUME NEW msgs \in Seq(Messages), NEW c \in Readers(msgs), NEW S, NEW B, Laid(msgs, S, B),
         NEW t \in Nat, NEW i, NEW b, Reading(msgs, S, B, c, t, i, b), c.req.reqlen # 0,
         HttpState(c.req) = "complete", NEW e, e = [Shift(c) EXCEPT !.req.reqlen = 0]
  PROVE  e.req.reqlen = 0 /\ Idle(msgs, S, B, e, t, i + 1)
<1>1. /\ i + 1 \in DOMAIN B /\ B[i + 1] \in Nat
      /\ \/ At(S, c, t, B[i + 1])
         \/ ~Inside(c) /\ t + 1 = B[i + 1] /\ LateEnd(msgs, S, c, i, B[i + 1])
  BY ReadToTheEnd
<1>2. PICK d : d = Shift(c)
  BY Zenon
<1>3. /\ d \in Readers(msgs) /\ d.consumed = 0 /\ d.upgrade = c.upgrade /\ d.req = c.req
      /\ \A p : At(S, c, t, p) => At(S, d, t, p)
      /\ ~Inside(c) => At(S, d, t, t)
  BY <1>2, ShiftTyped, ShiftAt
<1>4. /\ e.buf = d.buf /\ e.consumed = d.consumed /\ e.upgrade = d.upgrade
      /\ e.req = [d.req EXCEPT !.reqlen = 0]
  BY <1>2, <1>3, ReaderFields DEF Shapes
<1>5. e.req.reqlen = 0
  <2>1. d.req \in RequestFields
    BY <1>3, ReaderFields, RequestTypes
  <2>2. QED
    BY <1>4, <2>1 DEF RequestFields
<1>6. \A p : At(S, d, t, p) => At(S, e, t, p)
  BY <1>4, SamePlace
<1>7. \E p \in Int : /\ At(S, e, t, p)
                     /\ \/ p = B[i + 1]
                        \/ p + 1 = B[i + 1] /\ LateEnd(msgs, S, e, i, B[i + 1])
  <2>1. CASE At(S, c, t, B[i + 1])
    <3>1. At(S, e, t, B[i + 1]) /\ B[i + 1] \in Int
      BY <1>1, <1>3, <1>6, <2>1
    <3>2. QED
      BY <3>1
  <2>2. CASE ~Inside(c) /\ t + 1 = B[i + 1] /\ LateEnd(msgs, S, c, i, B[i + 1])
    <3>1. At(S, e, t, t) /\ t \in Int /\ LateEnd(msgs, S, e, i, B[i + 1])
      BY <1>3, <1>4, <1>6, <2>2 DEF LateEnd
    <3>2. QED
      BY <2>2, <3>1
  <2>3. QED
    BY <1>1, <2>1, <2>2
<1>8. (i + 1) - 1 = i
  <2>1. i \in Nat
    BY LaidParts DEF Reading
  <2>2. QED
    BY <2>1
<1>9. QED
  BY <1>1, <1>3, <1>4, <1>5, <1>7, <1>8, Zenon DEF Idle

\* Which message a call of the reader is about.
Turn(c, i) == IF HttpState(c.req) = "complete" THEN i + 1 ELSE i

\* One call of xs_conn_httpread goes on where the last one has stopped.
LEMMA HttpReadKept ==
  ASSUME NEW msgs \in Seq(Messages), NEW old \in Readers(msgs), NEW len \in Nat \ {0},
         NEW net \in Nets(msgs), NEW S, NEW B, Laid(msgs, S, B), Len(S) \in Nat, NEW t \in Nat,
         t + Len(net.data) <= Len(S), NetAt(S, net, t), NEW i, NEW b,
         Placed(msgs, S, B, old, t, i, b)
  PROVE  Kept(msgs, S, B, HttpRead(old, len, net, msgs), t, Turn(old, i), b)
<1> DEFINE c == [old EXCEPT !.errnum = "ok"]
           s == ConnState(c)
           fresh == [Shift(c) EXCEPT !.req.reqlen = 0]
           told == [c EXCEPT !.req.header = FALSE]
           r == HttpRead(old, len, net, msgs)
<1>1. r = IF s = "complete" THEN ReadHead(fresh, "last", net, msgs)
          ELSE IF s = "header" /\ c.req.header THEN Returned(told, 0, Buffered(c), NotAsked)
          ELSE IF c.req.reqlen = 0 THEN ReadHead(c, s, net, msgs)
          ELSE IF c.req.chunked THEN ReadChunked(c, s, len, net)
          ELSE ReadBody(c, len, net, NotAsked)
  BY Zenon DEF HttpRead, ReadOn
<1>2. c \in Readers(msgs)
  <2>1. "ok" \in Errors
    BY DEF Errors
  <2>2. QED
    BY <2>1, SetErrnum
<1>3. /\ c.buf = old.buf /\ c.consumed = old.consumed /\ c.upgrade = old.upgrade
      /\ c.req = old.req /\ c.errnum = "ok"
  BY ReaderFields DEF Shapes
<1> HIDE DEF c
<1>4. s = HttpState(c.req)
  BY <1>3 DEF ConnState
<1>5. fresh = [Shift(c) EXCEPT !.req.reqlen = 0]
  BY Zenon
<1>6. told = [c EXCEPT !.req.header = FALSE]
  BY Zenon
<1> HIDE DEF s, fresh, told, r
<1>7. Placed(msgs, S, B, c, t, i, b)
  <2>1. SameReader(old, c) /\ (c.req.header => old.req.header)
    BY <1>3, Zenon DEF SameReader
  <2>2. QED
    BY <2>1, SamePlaced
<1>8. PICK q : q = c.req
  BY Zenon
<1>9. /\ q \in RequestFields /\ q.contentlen \in Nat /\ q.consumed \in Nat /\ q.reqlen \in Nat
      /\ q \in Requests(msgs)
  BY <1>2, <1>8, ReaderFields, RequestTypes
<1>10. q.reqlen # 0 => Reading(msgs, S, B, c, t, i, b)
  BY <1>7, <1>8 DEF Placed
<1>11. PICK recv : recv = NotAsked
  BY Zenon
<1>12. recv.taken \in Nat /\ t + recv.taken = t
  BY <1>11 DEF NotAsked
<1>13. CASE s = "complete"
  <2>1. Turn(old, i) = i + 1
    BY <1>3, <1>4, <1>13, Zenon DEF Turn
  <2>2. q.reqlen # 0
    BY <1>4, <1>8, <1>13 DEF HttpState
  <2>3. fresh.req.reqlen = 0 /\ Idle(msgs, S, B, fresh, t, i + 1)
    BY <1>2, <1>4, <1>5, <1>8, <1>10, <1>13, <2>2, FreshIdle
  <2>4. fresh \in Readers(msgs)
    <3>1. PICK q1 : q1 = [q EXCEPT !.reqlen = 0]
      BY Zenon
    <3>2. q1 \in Requests(msgs)
      <4>1. q1 \in RequestFields /\ q1.reqlen = 0
        BY <1>9, <3>1 DEF RequestFields
      <4>2. QED
        BY <4>1, IsRequest
    <3>3. PICK x : x = Shift(c)
      BY Zenon
    <3>4. x \in Readers(msgs) /\ x.req = q
      BY <1>2, <1>8, <3>3, ShiftTyped
    <3>5. fresh = [x EXCEPT !.req = q1]
      <4>1. fresh = [x EXCEPT !.req = [x.req EXCEPT !.reqlen = 0]]
        BY <1>5, <3>3, Zenon
      <4>2. QED
        BY <3>1, <3>4, <4>1, Zenon
    <3>6. QED
      BY <3>2, <3>4, <3>5, SetReq
  <2>5. PICK any : any = "last"
    BY Zenon
  <2>6. r = ReadHead(fresh, any, net, msgs)
    BY <1>1, <1>13, <2>5
  <2>7. any # "complete"
    BY <2>5
  <2>8. PICK j : j = i + 1
    BY Zenon
  <2>9. Kept(msgs, S, B, ReadHead(fresh, any, net, msgs), t, j, b)
    BY <2>3, <2>4, <2>7, <2>8, ReadHeadAt
  <2>10. QED
    BY <2>1, <2>6, <2>8, <2>9 DEF r
<1>14. CASE s # "complete"
  <2>1. Turn(old, i) = i
    BY <1>3, <1>4, <1>14, Zenon DEF Turn
  <2>2. Kept(msgs, S, B, r, t, i, b)
    <3>1. CASE s = "header" /\ c.req.header
      <4>1. q.reqlen # 0 /\ Reading(msgs, S, B, c, t, i, b)
        BY <1>4, <1>8, <1>10, <3>1 DEF HttpState
      <4>2. r.c = told /\ r.n = 0 /\ r.out = <<>> /\ r.taken = recv.taken
        BY <1>1, <1>11, <1>14, <3>1, Zenon DEF Returned
      <4>3. /\ told.buf = c.buf /\ told.consumed = c.consumed /\ told.upgrade = c.upgrade
            /\ told.req = [q EXCEPT !.header = FALSE]
        BY <1>2, <1>6, <1>8, ReaderFields DEF Shapes
      <4>4. PICK g : g = told.req
        BY Zenon
      <4>5. /\ g.m = q.m /\ g.reqlen = q.reqlen /\ g.contentlen = q.contentlen
            /\ g.consumed = q.consumed /\ g.chunked = q.chunked /\ g.header = FALSE
        BY <1>9, <4>3, <4>4 DEF RequestFields
      <4>6. SameReader(c, told) /\ (told.req.header => c.req.header)
        BY <1>8, <4>3, <4>4, <4>5, Zenon DEF SameReader
      <4>7. Reading(msgs, S, B, told, t, i, b)
        BY <4>1, <4>6, SameReading
      <4>8. Grows(r, b) = b
        <5>1. PICK y : y = g.consumed
          BY Zenon
        <5>2. y \in Nat /\ r.c.req.consumed = y /\ b = Body(i, 0, y) /\ i \in DOMAIN msgs
          BY <1>9, <4>2, <4>4, <4>5, <4>7, <5>1 DEF Reading
        <5>3. QED
          BY <4>2, <5>2, GrowsNone
      <4>9. r.n >= 0 /\ told.req.reqlen # 0 /\ t + r.taken = t
        BY <1>12, <4>1, <4>2, <4>4, <4>5
      <4>10. QED
        BY <4>2, <4>7, <4>8, <4>9, Zenon DEF Kept, Placed
    <3>2. CASE ~(s = "header" /\ c.req.header) /\ c.req.reqlen = 0
      <4>1. r = ReadHead(c, s, net, msgs)
        BY <1>1, <1>14, <3>2
      <4>2. Idle(msgs, S, B, c, t, i)
        BY <1>7, <3>2 DEF Placed
      <4>3. Kept(msgs, S, B, ReadHead(c, s, net, msgs), t, i, b)
        BY <1>2, <1>14, <3>2, <4>2, ReadHeadAt
      <4>4. QED
        BY <4>1, <4>3
    <3>3. CASE ~(s = "header" /\ c.req.header) /\ c.req.reqlen # 0
      <4>1. /\ i \in DOMAIN msgs /\ q.m = i /\ q.consumed <= q.contentlen
            /\ b = Body(i, 0, q.consumed)
            /\ \/ \E p \in Int : /\ At(S, c, t, p)
                                 /\ \/ Plain(msgs[i], q, B[i], p)
                                    \/ InChunks(msgs[i], q, B[i], p) /\ c.upgrade = 0
               \/ ChunksEnded(S, msgs[i], c, t, B[i + 1])
        BY <1>8, <1>10, <3>3, Zenon DEF Reading
      <4>2. CASE c.req.chunked
        <5>1. r = ReadChunked(c, s, len, net)
          BY <1>1, <1>14, <3>3, <4>2
        <5>2. \A p : ~Plain(msgs[i], q, B[i], p)
          BY <1>8, <4>2, Zenon DEF Plain
        <5>3. ~ChunksEnded(S, msgs[i], c, t, B[i + 1])
          BY <4>2, Zenon DEF ChunksEnded
        <5>4. PICK p \in Int : At(S, c, t, p) /\ InChunks(msgs[i], q, B[i], p) /\ c.upgrade = 0
          BY <4>1, <5>2, <5>3
        <5>5. s \notin {"complete", "error"}
          BY <1>4, <1>14 DEF HttpState
        <5>6. Kept(msgs, S, B, ReadChunked(c, s, len, net), t, i, b)
          BY <1>2, <1>8, <3>3, <4>1, <5>4, <5>5, ReadChunkedKept
        <5>7. QED
          BY <5>1, <5>6
      <4>3. CASE ~c.req.chunked
        <5>1. r = ReadBody(c, len, net, recv)
          BY <1>1, <1>11, <1>14, <3>3, <4>3, Zenon
        <5>2. q.consumed < q.contentlen
          BY <1>4, <1>8, <1>9, <1>14, <3>3, <4>1, <4>3 DEF HttpState
        <5>3. \A p : ~InChunks(msgs[i], q, B[i], p)
          BY <1>8, <4>3, Zenon DEF InChunks
        <5>4. ~ChunksEnded(S, msgs[i], c, t, B[i + 1])
          BY <1>8, <1>9, <5>2 DEF ChunksEnded
        <5>5. PICK p \in Int : At(S, c, t, p) /\ Plain(msgs[i], q, B[i], p)
          BY <4>1, <5>3, <5>4
        <5>6. Kept(msgs, S, B, ReadBody(c, len, net, recv), t, i, b)
          BY <1>2, <1>8, <1>12, <3>3, <4>1, <5>2, <5>5, ReadPlainKept
        <5>7. QED
          BY <5>1, <5>6
      <4>4. QED
        BY <4>2, <4>3
    <3>4. QED
      BY <3>1, <3>2, <3>3
  <2>3. QED
    BY <2>1, <2>2 DEF r
<1>15. QED
  BY <1>13, <1>14

-----------------------------------------------------------------------------
(***************************************************************************)
(* One connection (XsConn).                                                *)
(***************************************************************************)
Writes == [data : Seq(Tokens), file : BOOLEAN]

\* What the peer sends is made of tokens, and each message of it has its place.
LEMMA StreamTyped ==
  ASSUME script \in Scripts
  PROVE  Stream \in Seq(Arriving(script)) /\ \E B : Laid(script, Stream, B)
<1>1. PICK s : s = script
  BY Zenon
<1>2. s \in Scripts /\ s \in Seq(Messages)
  BY <1>1, ScriptsAssumption
<1>3. Stream = FlattenSeq([i \in DOMAIN s |-> Encode(i, s[i])])
  <2>1. Stream = Streams[s]
    BY <1>1 DEF Stream
  <2>2. QED
    BY <1>2, <2>1, Zenon DEF Streams
<1>4. Stream \in Seq(Arriving(s)) /\ \E B : Laid(s, Stream, B)
  BY <1>2, <1>3, StreamLaid
<1>5. QED
  BY <1>1, <1>4, Zenon

\* What the peer sends, and what of it waits in the socket.
LEMMA NetTyped ==
  ASSUME TypeOK
  PROVE  /\ script \in Seq(Messages) /\ Stream \in Seq(Arriving(script)) /\ Len(Stream) \in Nat
         /\ Net \in Nets(script) /\ Len(Net.data) = arrived - taken
         /\ taken \in Nat /\ arrived \in Nat /\ taken <= arrived /\ arrived <= Len(Stream)
<1>1. script \in Seq(Messages) /\ Stream \in Seq(Arriving(script))
  BY ScriptsAssumption, StreamTyped DEF TypeOK
<1>2. /\ Len(Stream) \in Nat /\ taken \in Nat /\ arrived \in Nat /\ taken <= arrived
      /\ arrived <= Len(Stream) /\ fin \in BOOLEAN /\ gone \in BOOLEAN
  BY <1>1 DEF TypeOK
<1>3. /\ SubSeq(Stream, taken + 1, arrived) \in Seq(Arriving(script))
      /\ Len(SubSeq(Stream, taken + 1, arrived)) = arrived - taken
  BY <1>1, <1>2, PartOf
<1>4. QED
  BY <1>1, <1>2, <1>3 DEF Net, Nets

\* What arrives is made of tokens.
LEMMA ArrivingTokens ==
  ASSUME NEW msgs \in Seq(Messages)
  PROVE  \A s \in Seq(Arriving(msgs)) : s \in Seq(Tokens)
<1>1. Arriving(msgs) \subseteq Tokens
  BY DEF Arriving, Tokens
<1>2. QED
  BY <1>1

\* A token.
LEMMA TokenTyped ==
  ASSUME NEW i \in Nat, NEW p \in Parts \union Answers, NEW k \in Nat
  PROVE  Token(i, p, k) \in Tokens
BY DEF Token, Tokens

\* The writes of a response, and of a frame.
LEMMA ResponseTyped ==
  ASSUME TypeOK, NEW i \in DOMAIN script
  PROVE  Response(i) \in Seq(Writes)
<1>1. script[i] \in Messages /\ i \in Nat
  BY NetTyped
<1>2. script[i].len \in Nat
  BY <1>1 DEF Messages
<1>3. PICK head : head = [data |-> <<Token(i, "head", 0)>>, file |-> FALSE]
  BY Zenon
<1>4. head \in Writes
  <2>1. Token(i, "head", 0) \in Tokens
    <3>1. "head" \in Parts \union Answers /\ 0 \in Nat
      BY DEF Answers
    <3>2. QED
      BY <1>1, <3>1, TokenTyped
  <2>2. QED
    BY <1>3, <2>1 DEF Writes
<1>5. PICK file : file = [data |-> [k \in 1 .. script[i].len |-> Token(i, "file", k)], file |-> TRUE]
  BY Zenon
<1>6. file \in Writes
  <2>1. \A k \in 1 .. script[i].len : Token(i, "file", k) \in Tokens
    <3>1. "file" \in Parts \union Answers /\ \A k \in 1 .. script[i].len : k \in Nat
      BY <1>2 DEF Answers
    <3>2. QED
      BY <1>1, <3>1, TokenTyped
  <2>2. [k \in 1 .. script[i].len |-> Token(i, "file", k)] \in Seq(Tokens)
    BY <1>2, <2>1
  <2>3. QED
    BY <1>5, <2>2 DEF Writes
<1>7. PICK text : text = [data |-> <<Token(i, "text", 0)>>, file |-> FALSE]
  BY Zenon
<1>8. text \in Writes
  <2>1. Token(i, "text", 0) \in Tokens
    <3>1. "text" \in Parts \union Answers /\ 0 \in Nat
      BY DEF Answers
    <3>2. QED
      BY <1>1, <3>1, TokenTyped
  <2>2. QED
    BY <1>7, <2>1 DEF Writes
<1>9. Response(i) \in {<<head, file>>, <<head, text>>, <<>>}
  BY <1>3, <1>5, <1>7, Zenon DEF Response
<1>10. <<head, file>> \in Seq(Writes) /\ <<head, text>> \in Seq(Writes) /\ <<>> \in Seq(Writes)
  BY <1>4, <1>6, <1>8
<1>11. QED
  BY <1>9, <1>10

\* A frame is two writes.
LEMMA FrameTyped ==
  ASSUME NEW i \in Nat, NEW name \in Parts \union Answers, NEW data \in Seq(Tokens)
  PROVE  Frame(i, name, data) \in Seq(Writes)
<1>1. Token(i, name, Len(data)) \in Tokens
  BY DEF Token, Tokens
<1>2. PICK h, d : /\ h = [data |-> <<Token(i, name, Len(data))>>, file |-> FALSE]
                  /\ d = [data |-> data, file |-> FALSE]
  BY Zenon
<1>3. h \in Writes /\ d \in Writes
  BY <1>1, <1>2 DEF Writes
<1>4. Frame(i, name, data) = <<h, d>>
  BY <1>2, Zenon DEF Frame
<1>5. QED
  BY <1>3, <1>4

\* The peer's steps.
LEMMA PeerStep ==
  ASSUME ConnInv, PeerCloses \/ PeerResets \/ \E k \in 1 .. Len(Stream) : Arrive(k)
  PROVE  ConnInv' /\ UNCHANGED <<writer, accepted>>
<1>1. /\ UNCHANGED <<script, taken, pc, conn, writer, pollout, last, close, todo, body, accepted>>
      /\ arrived' \in arrived .. Len(Stream) /\ fin' \in BOOLEAN /\ gone' \in BOOLEAN
  <2>1. TypeOK
    BY DEF ConnInv
  <2>2. Len(Stream) \in Nat /\ arrived \in Nat /\ arrived <= Len(Stream)
        /\ fin \in BOOLEAN /\ gone \in BOOLEAN
    BY <2>1, NetTyped DEF TypeOK
  <2>3. CASE PeerCloses
    BY <2>2, <2>3 DEF PeerCloses
  <2>4. CASE PeerResets
    BY <2>2, <2>4 DEF PeerResets
  <2>5. CASE \E k \in 1 .. Len(Stream) : Arrive(k)
    BY <2>2, <2>5 DEF Arrive
  <2>6. QED
    BY <2>3, <2>4, <2>5
<1>2. TypeOK'
  <2>1. TypeOK
    BY DEF ConnInv
  <2>2. taken' \in 0 .. arrived' /\ arrived' \in 0 .. Len(Stream)
    BY <1>1, <2>1, NetTyped
  <2>3. QED
    BY <1>1, <2>1, <2>2 DEF TypeOK, Stream
<1>3. QED
  BY <1>1, <1>2 DEF ConnInv, LastReadOK, StreamOK, CachedIsArmed

\* Steps only add to what is accepted and to the wire, and never restore the
\* stream.
Forward ==
  /\ Grown(writer, writer') /\ (writer'.intact => writer.intact)
  /\ \E d \in Seq(Tokens) : accepted' = accepted \o d

\* A step that accepts nothing.
LEMMA StayingAccepted ==
  ASSUME ConnInv, UNCHANGED accepted
  PROVE  \E d \in Seq(Tokens) : accepted' = accepted \o d
<1>1. accepted \in Seq(Tokens)
  BY DEF ConnInv, TypeOK
<1>2. <<>> \in Seq(Tokens) /\ accepted \o <<>> = accepted
  BY <1>1, ConcatEmptySeq
<1>3. QED
  BY <1>2

\* A step that writes nothing.
LEMMA StayingForward ==
  ASSUME ConnInv, UNCHANGED <<writer, accepted>>
  PROVE  Forward
<1>1. Grown(writer, writer)
  BY Staying DEF ConnInv, TypeOK, Writer
<1>2. QED
  BY <1>1, StayingAccepted DEF Forward

\* The write side after the cache has been purged, or not.
LEMMA PurgeKeepsStream ==
  ASSUME ConnInv, NEW w, w = writer \/ \E p \in PurgeOutcomes(writer, gone) : w = Settled(p)
  PROVE  /\ w \in Writer /\ (w.intact => writer.intact) /\ Grown(writer, w)
         /\ (w.intact => accepted = w.wire \o w.cache)
<1>1. writer \in Writer /\ gone \in BOOLEAN
  BY DEF ConnInv, TypeOK, Writer
<1>2. CASE w = writer
  BY <1>1, <1>2, Staying DEF ConnInv, StreamOK
<1>3. CASE \E p \in PurgeOutcomes(writer, gone) : w = Settled(p)
  <2>1. PICK p \in PurgeOutcomes(writer, gone) : w = Settled(p)
    BY <1>3
  <2>2. Moves(writer, p)
    BY <1>1, PurgeMoves
  <2>3. /\ p \in Writer /\ p.intact = writer.intact /\ Grown(writer, p)
        /\ p.wire \o p.cache = writer.wire \o writer.cache
    BY <2>2 DEF Moves
  <2>4. w \in Writer /\ w.wire = p.wire /\ w.cache = p.cache /\ w.intact = p.intact
    BY <2>1, <2>3, SettledKeeps
  <2>5. Grown(writer, w)
    BY <2>3, <2>4 DEF Grown
  <2>6. QED
    BY <2>3, <2>4, <2>5 DEF ConnInv, StreamOK
<1>4. QED
  BY <1>2, <1>3

\* One call of xs_conn_httpread.
LEMMA ReadCallStep ==
  ASSUME ConnInv, ReadCall
  PROVE  ConnInv' /\ Forward
<1>1. TypeOK
  BY DEF ConnInv
<1>2. PICK r : /\ r = HttpRead(conn, HandlerBuf, Net, script)
               /\ conn' = r.c /\ taken' = taken + r.taken
               /\ last' = [n |-> r.n, reread |-> r.reread, handled |-> FALSE]
               /\ body' = (IF r.c.req.consumed = 0 THEN <<>> ELSE body) \o r.out
               /\ writer' \in PurgedFirst(r.asked)
               /\ todo' = CASE r.control = "none" -> <<>>
                            [] r.control = "101" ->
                                 <<[data |-> <<Token(r.c.req.m, "101", 0)>>, file |-> FALSE]>>
                            [] OTHER -> Frame(r.c.req.m, r.control, <<>>)
  BY Zenon DEF ReadCall
<1>3. /\ pc' = IF todo' = <<>> THEN "dispatch" ELSE "control"
      /\ UNCHANGED <<script, arrived, fin, gone, pollout, close, accepted>>
  BY DEF ReadCall, peer
<1>4. Sound(r, Net, script)
  <2>1. script \in Seq(Messages) /\ Net \in Nets(script) /\ conn \in Readers(script)
        /\ HandlerBuf \in Nat
    BY <1>1, NetTyped, ConnAssumption DEF TypeOK
  <2>2. QED
    BY <1>2, <2>1, HttpReadSound
<1>5. /\ r.c \in Readers(script) /\ r.n \in Int /\ r.reread \in BOOLEAN
      /\ r.out \in Seq(Arriving(script)) /\ r.taken \in Nat /\ r.taken <= arrived - taken
      /\ r.control \in {"none", "101", "pong", "ping"}
      /\ (r.control # "none" => r.n <= 0)
      /\ (r.c.errnum = "ok" /\ r.n > 0 => Len(r.out) = r.n)
  BY <1>1, <1>4, NetTyped DEF Sound, Results
<1>6. /\ body' \in Seq(Arriving(script)) /\ Len(body') \in Nat /\ Len(r.out) <= Len(body')
  <2>1. PICK b : b = IF r.c.req.consumed = 0 THEN <<>> ELSE body
    BY Zenon
  <2>2. b \in Seq(Arriving(script))
    BY <1>1, <2>1 DEF TypeOK
  <2>3. body' = b \o r.out
    BY <1>2, <2>1
  <2>4. /\ b \o r.out \in Seq(Arriving(script)) /\ Len(b \o r.out) = Len(b) + Len(r.out)
        /\ Len(b) \in Nat /\ Len(r.out) \in Nat
    BY <1>5, <2>2, ConcatProperties
  <2>5. QED
    BY <2>3, <2>4
<1>7. /\ writer' \in Writer /\ (writer'.intact => accepted = writer'.wire \o writer'.cache)
      /\ Forward
  <2>1. writer' = writer \/ \E p \in PurgeOutcomes(writer, gone) : writer' = Settled(p)
    BY <1>2 DEF PurgedFirst
  <2>2. PICK w : w = writer'
    BY Zenon
  <2>3. w = writer \/ \E p \in PurgeOutcomes(writer, gone) : w = Settled(p)
    BY <2>1, <2>2, Zenon
  <2>4. /\ w \in Writer /\ (w.intact => accepted = w.wire \o w.cache)
        /\ Grown(writer, w) /\ (w.intact => writer.intact)
    BY <2>3, PurgeKeepsStream
  <2>5. \E d \in Seq(Tokens) : accepted' = accepted \o d
    BY <1>3, StayingAccepted
  <2>6. Forward
    BY <2>2, <2>4, <2>5 DEF Forward
  <2>7. QED
    BY <2>2, <2>4, <2>6
<1>8. todo' \in Seq(Writes)
  <2>1. r.c.req.m \in Nat
    BY <1>5, ReaderFields, RequestTypes
  <2>2. CASE r.control = "none"
    BY <1>2, <2>2
  <2>3. CASE r.control = "101"
    <3>1. Token(r.c.req.m, "101", 0) \in Tokens
      <4>1. "101" \in Parts \union Answers /\ 0 \in Nat
        BY DEF Answers
      <4>2. QED
        BY <2>1, <4>1, TokenTyped
    <3>2. PICK w : w = [data |-> <<Token(r.c.req.m, "101", 0)>>, file |-> FALSE]
      BY Zenon
    <3>3. w \in Writes
      BY <3>1, <3>2 DEF Writes
    <3>4. todo' = <<w>>
      BY <1>2, <2>3, <3>2
    <3>5. QED
      BY <3>3, <3>4
  <2>4. CASE r.control \notin {"none", "101"}
    <3>1. todo' = Frame(r.c.req.m, r.control, <<>>)
      BY <1>2, <2>4
    <3>2. <<>> \in Seq(Tokens) /\ r.control \in Parts \union Answers
      BY <1>5, <2>4 DEF Answers
    <3>3. QED
      BY <2>1, <3>1, <3>2, FrameTyped
  <2>5. QED
    BY <2>2, <2>3, <2>4
<1>9. todo' = <<>> \/ r.n <= 0
  <2>1. CASE r.control = "none"
    BY <1>2, <2>1
  <2>2. QED
    BY <1>5, <2>1
<1>10. TypeOK'
  <2>1. taken' \in 0 .. arrived'
    BY <1>1, <1>2, <1>3, <1>5, NetTyped
  <2>2. last' \in [n : Int, reread : BOOLEAN, handled : BOOLEAN]
    BY <1>2, <1>5
  <2>3. pc' \in {"dispatch", "control"}
    BY <1>3
  <2>4. conn' \in Readers(script')
    BY <1>2, <1>3, <1>5
  <2>5. QED
    BY <1>1, <1>3, <1>6, <1>7, <1>8, <2>1, <2>2, <2>3, <2>4 DEF TypeOK, Stream, Writer, Writes
<1>11. LastReadOK'
  <2>1. last'.n = r.n /\ conn'.errnum = r.c.errnum
    BY <1>2
  <2>2. pc' = "control" => r.n <= 0
    BY <1>3, <1>9
  <2>3. Len(r.out) \in Nat
    BY <1>5
  <2>4. r.n > 0 /\ r.c.errnum = "ok" => r.n <= Len(body')
    BY <1>5, <1>6
  <2>5. pc' = "control" => last'.n <= Len(body')
    BY <1>5, <1>6, <2>1, <2>2
  <2>6. pc' = "dispatch" /\ conn'.errnum = "ok" => last'.n <= Len(body')
    BY <1>5, <1>6, <2>1, <2>4
  <2>7. QED
    BY <2>5, <2>6 DEF LastReadOK
<1>12. StreamOK' /\ CachedIsArmed'
  BY <1>3, <1>7 DEF StreamOK, CachedIsArmed
<1>13. QED
  BY <1>7, <1>10, <1>11, <1>12 DEF ConnInv

\* A write that is not a file: xs_conn_write_ by the handler or the reader.
LEMMA WriteNextKeeps ==
  ASSUME ConnInv, WriteNext, UNCHANGED script
  PROVE  /\ conn' \in Readers(script') /\ writer' \in Writer /\ accepted' \in Seq(Tokens)
         /\ todo' \in Seq(Writes) /\ StreamOK' /\ Forward
<1>1. writer \in Writer /\ gone \in BOOLEAN /\ conn \in Readers(script) /\ accepted \in Seq(Tokens)
      /\ todo \in Seq(Writes)
  BY DEF ConnInv, TypeOK, Writer, Writes
<1>2. todo # <<>> /\ todo' = Tail(todo)
  BY DEF WriteNext
<1>3. Head(todo) \in Writes /\ Tail(todo) \in Seq(Writes)
  BY <1>1, <1>2, HeadTailProperties
<1>4. PICK data : data = Head(todo).data
  BY Zenon
<1>5. data \in Seq(Tokens)
  BY <1>3, <1>4 DEF Writes
<1>6. PICK w \in WriteOutcomes(writer, data, gone) :
        /\ writer' = Settled(w) /\ conn' = [conn EXCEPT !.errnum = w.err]
        /\ accepted' = accepted \o Before(data, w.ret)
  BY <1>4 DEF WriteNext
<1>7. Accepts(writer, w, data)
  BY <1>1, <1>5, WriteAccepts
<1>8. /\ w \in Writer /\ Grown(writer, w) /\ w.ret \in 0 .. Len(data)
      /\ (w.intact => writer.intact
                      /\ w.wire \o w.cache = (writer.wire \o writer.cache) \o Before(data, w.ret))
  BY <1>7 DEF Accepts
<1>9. /\ writer' \in Writer /\ writer'.wire = w.wire /\ writer'.cache = w.cache
      /\ writer'.intact = w.intact
  BY <1>6, <1>8, SettledKeeps
<1>10. accepted' \in Seq(Tokens)
  <2>1. Before(data, w.ret) \in Seq(Tokens)
    BY <1>5, <1>8, TokenParts
  <2>2. accepted \o Before(data, w.ret) \in Seq(Tokens)
    BY <1>1, <2>1, TokenJoin
  <2>3. QED
    BY <1>6, <2>2
<1>11. conn' \in Readers(script')
  <2>1. w.err \in Errors
    BY <1>8, WriterFields DEF Errors
  <2>2. [conn EXCEPT !.errnum = w.err] \in Readers(script)
    BY <1>1, <2>1, SetErrnum
  <2>3. QED
    BY <1>6, <2>2
<1>12. StreamOK'
  <2>1. writer.intact => accepted = writer.wire \o writer.cache
    BY DEF ConnInv, StreamOK
  <2>2. writer'.intact => accepted' = writer'.wire \o writer'.cache
    BY <1>6, <1>8, <1>9, <2>1
  <2>3. QED
    BY <2>2 DEF StreamOK
<1>13. Forward
  <2>1. Before(data, w.ret) \in Seq(Tokens)
    BY <1>5, <1>8, TokenParts
  <2>2. Grown(writer, writer')
    BY <1>8, <1>9 DEF Grown
  <2>3. QED
    BY <1>6, <1>8, <1>9, <2>1, <2>2 DEF Forward
<1>14. QED
  BY <1>2, <1>3, <1>9, <1>10, <1>11, <1>12, <1>13

\* A reply the reader writes by itself.
LEMMA ControlStep ==
  ASSUME ConnInv, Control
  PROVE  ConnInv' /\ Forward
<1>1. /\ WriteNext /\ pc = "control" /\ pc' \in {"dispatch", "control"}
      /\ UNCHANGED <<script, arrived, fin, gone, taken, pollout, last, close, body>>
  BY DEF Control, peer
<1>2. TypeOK'
  BY <1>1, WriteNextKeeps DEF ConnInv, TypeOK, Stream, Writer, Writes
<1>3. LastReadOK'
  BY <1>1 DEF ConnInv, LastReadOK
<1>4. StreamOK' /\ CachedIsArmed'
  BY <1>1, WriteNextKeeps DEF CachedIsArmed
<1>5. QED
  BY <1>1, <1>2, <1>3, <1>4, WriteNextKeeps DEF ConnInv

\* A write of a response.
LEMMA RespondStep ==
  ASSUME ConnInv, Respond
  PROVE  ConnInv' /\ Forward
<1>1. /\ WriteNext /\ pc = "respond"
      /\ UNCHANGED <<script, arrived, fin, gone, taken, pc, pollout, last, close, body>>
  BY DEF Respond, peer
<1>2. TypeOK'
  BY <1>1, WriteNextKeeps DEF ConnInv, TypeOK, Stream, Writer, Writes
<1>3. StreamOK' /\ LastReadOK' /\ CachedIsArmed'
  BY <1>1, WriteNextKeeps DEF LastReadOK, CachedIsArmed
<1>4. QED
  BY <1>1, <1>2, <1>3, WriteNextKeeps DEF ConnInv

\* The callback's look at what has been read; what it echoes lies in body.
LEMMA DispatchStep ==
  ASSUME ConnInv, Dispatch
  PROVE  ConnInv' /\ UNCHANGED <<writer, accepted>>
<1>1. TypeOK
  BY DEF ConnInv
<1>2. /\ pc = "dispatch" /\ pc' = "respond" /\ close' = (conn.errnum # "ok")
      /\ last' = [last EXCEPT !.handled = Completed /\ conn.upgrade = 0]
      /\ todo' = IF last'.handled THEN Response(conn.req.m)
                 ELSE IF conn.upgrade = 2 /\ ~close' /\ last.n > 0
                   THEN Frame(conn.req.m, "text", LastRead)
                 ELSE <<>>
      /\ UNCHANGED <<script, arrived, fin, gone, taken, conn, writer, pollout, body, accepted>>
  BY DEF Dispatch, peer
<1>3. /\ conn \in Readers(script) /\ last \in [n : Int, reread : BOOLEAN, handled : BOOLEAN]
      /\ body \in Seq(Arriving(script)) /\ conn.req \in Requests(script)
      /\ conn.req.m \in Nat
  BY <1>1, ReaderFields, RequestTypes DEF TypeOK
<1>4. last' \in [n : Int, reread : BOOLEAN, handled : BOOLEAN]
      /\ last'.handled = (Completed /\ conn.upgrade = 0)
  <2>1. PICK h : h = (Completed /\ conn.upgrade = 0) /\ h \in BOOLEAN
    OBVIOUS
  <2>2. last' = [last EXCEPT !.handled = h]
    BY <1>2, <2>1, Zenon
  <2>3. QED
    BY <1>3, <2>1, <2>2
<1>5. todo' \in Seq(Writes)
  <2>1. CASE last'.handled
    <3>1. conn.req.reqlen # 0
      <4>1. ConnState(conn) = "complete"
        BY <1>4, <2>1 DEF Completed
      <4>2. QED
        BY <4>1 DEF ConnState, HttpState
    <3>2. conn.req.m \in DOMAIN script
      BY <1>3, <3>1, RequestTypes
    <3>3. todo' = Response(conn.req.m)
      BY <1>2, <2>1
    <3>4. QED
      BY <1>1, <3>2, <3>3, ResponseTyped
  <2>2. CASE ~last'.handled /\ conn.upgrade = 2 /\ ~close' /\ last.n > 0
    <3>1. last.n \in Int /\ last.n > 0 /\ last.n <= Len(body) /\ Len(body) \in Nat
      <4>1. conn.errnum = "ok"
        BY <1>2, <2>2, Zenon
      <4>2. last.n <= Len(body)
        BY <1>2, <4>1 DEF ConnInv, LastReadOK
      <4>3. QED
        BY <1>3, <2>2, <4>2
    <3>2. LastRead \in Seq(Tokens)
      <4>1. Len(body) - last.n \in Nat /\ Len(body) \in Int /\ Len(body) <= Len(body)
        BY <3>1
      <4>2. SubSeq(body, (Len(body) - last.n) + 1, Len(body)) \in Seq(Arriving(script))
        BY <1>3, <4>1, PartOf
      <4>3. QED
        BY <1>1, <4>2, NetTyped, ArrivingTokens DEF LastRead
    <3>3. "text" \in Parts \union Answers
      BY DEF Answers
    <3>4. todo' = Frame(conn.req.m, "text", LastRead)
      BY <1>2, <2>2
    <3>5. QED
      BY <1>3, <3>2, <3>3, <3>4, FrameTyped
  <2>3. CASE ~last'.handled /\ ~(conn.upgrade = 2 /\ ~close' /\ last.n > 0)
    <3>1. todo' = <<>>
      BY <1>2, <2>3
    <3>2. QED
      BY <3>1
  <2>4. QED
    BY <2>1, <2>2, <2>3
<1>6. TypeOK'
  <2>1. close' \in BOOLEAN
    BY <1>2
  <2>2. QED
    BY <1>1, <1>2, <1>4, <1>5, <2>1 DEF TypeOK, Stream, Writes
<1>7. StreamOK' /\ LastReadOK' /\ CachedIsArmed'
  BY <1>2 DEF ConnInv, StreamOK, LastReadOK, CachedIsArmed
<1>8. QED
  BY <1>2, <1>6, <1>7 DEF ConnInv

\* One turn of xs_conn_write_filedata: what has been accepted is taken off the
\* file, whether it went to the socket, to the cache, or through it.
LEMMA WriteFileStep ==
  ASSUME ConnInv, WriteFile
  PROVE  ConnInv' /\ Forward
<1>1. TypeOK
  BY DEF ConnInv
<1>2. /\ writer \in Writer /\ gone \in BOOLEAN /\ conn \in Readers(script)
      /\ accepted \in Seq(Tokens) /\ todo \in Seq(Writes) /\ pc = "respond" /\ todo # <<>>
      /\ UNCHANGED <<script, arrived, fin, gone, taken, pc, pollout, last, close, body>>
  BY <1>1 DEF TypeOK, Writer, Writes, WriteFile, peer
<1>3. Head(todo) \in Writes /\ Tail(todo) \in Seq(Writes)
  BY <1>2, HeadTailProperties
<1>4. PICK data, piece : data = Head(todo).data /\ piece = Before(data, Piece)
  BY Zenon
<1>5. PICK w \in WriteOutcomes(writer, piece, gone) :
        \E failed :
          /\ failed = (w.err \notin {"ok", "busy"} \/ (w.err = "ok" /\ w.ret = 0))
          /\ \E p \in (IF w.err = "busy" THEN PurgeOutcomes(w, gone) ELSE {w}) :
               /\ writer' = Settled(p)
               /\ conn' = [conn EXCEPT !.errnum = p.err, !.req.keepalive = @ /\ ~failed]
          /\ accepted' = accepted \o Before(data, w.ret)
          /\ todo' = IF failed \/ After(data, w.ret) = <<>> THEN Tail(todo)
                     ELSE <<[Head(todo) EXCEPT !.data = After(data, w.ret)]>> \o Tail(todo)
  BY <1>4, Zenon DEF WriteFile
<1>6. PICK failed :
        /\ failed = (w.err \notin {"ok", "busy"} \/ (w.err = "ok" /\ w.ret = 0))
        /\ \E p \in (IF w.err = "busy" THEN PurgeOutcomes(w, gone) ELSE {w}) :
             /\ writer' = Settled(p)
             /\ conn' = [conn EXCEPT !.errnum = p.err, !.req.keepalive = @ /\ ~failed]
        /\ accepted' = accepted \o Before(data, w.ret)
        /\ todo' = IF failed \/ After(data, w.ret) = <<>> THEN Tail(todo)
                   ELSE <<[Head(todo) EXCEPT !.data = After(data, w.ret)]>> \o Tail(todo)
  BY <1>5, Zenon
<1>7. PICK p : /\ p = w \/ p \in PurgeOutcomes(w, gone)
               /\ writer' = Settled(p)
               /\ conn' = [conn EXCEPT !.errnum = p.err, !.req.keepalive = @ /\ ~failed]
  BY <1>6
<1>8. /\ data \in Seq(Tokens) /\ Len(data) \in Nat /\ piece \in Seq(Tokens)
      /\ Len(piece) <= Len(data) /\ Len(piece) \in Nat
      /\ \A k \in 0 .. Len(piece) : Before(piece, k) = Before(data, k)
  <2>1. data \in Seq(Tokens) /\ Piece \in Nat
    BY <1>3, <1>4, ConnAssumption DEF Writes
  <2>2. /\ Before(data, Piece) \in Seq(Tokens) /\ Len(Before(data, Piece)) <= Len(data)
        /\ \A k \in 0 .. Len(Before(data, Piece)) :
             Before(Before(data, Piece), k) = Before(data, k)
    BY <2>1, BeforeIsShort
  <2>3. QED
    BY <1>4, <2>1, <2>2
<1>9. /\ w \in Writer /\ w.ret \in 0 .. Len(piece) /\ Grown(writer, w)
      /\ (w.intact => writer.intact
                      /\ w.wire \o w.cache = (writer.wire \o writer.cache) \o Before(data, w.ret))
  <2>1. Accepts(writer, w, piece)
    BY <1>2, <1>8, WriteAccepts
  <2>2. w \in Writer /\ w.ret \in 0 .. Len(piece) /\ Grown(writer, w)
        /\ (w.intact => writer.intact
                        /\ w.wire \o w.cache = (writer.wire \o writer.cache) \o Before(piece, w.ret))
    BY <2>1 DEF Accepts
  <2>3. Before(piece, w.ret) = Before(data, w.ret)
    BY <1>8, <2>2
  <2>4. QED
    BY <2>2, <2>3
<1>10. Moves(w, p)
  BY <1>2, <1>7, <1>9, Staying, PurgeMoves
<1>11. p \in Writer /\ p.intact = w.intact /\ Grown(w, p) /\ p.wire \o p.cache = w.wire \o w.cache
  BY <1>10 DEF Moves
<1>12. /\ writer' \in Writer /\ writer'.wire = p.wire /\ writer'.cache = p.cache
       /\ writer'.intact = p.intact
  BY <1>7, <1>11, SettledKeeps
<1>13. /\ Before(data, w.ret) \in Seq(Tokens) /\ After(data, w.ret) \in Seq(Tokens)
  <2>1. w.ret \in 0 .. Len(data)
    BY <1>8, <1>9
  <2>2. QED
    BY <1>8, <2>1, TokenParts
<1>14. accepted' \in Seq(Tokens)
  BY <1>2, <1>6, <1>13, TokenJoin
<1>15. todo' \in Seq(Writes)
  <2>1. PICK rest : rest = [Head(todo) EXCEPT !.data = After(data, w.ret)]
    BY Zenon
  <2>2. rest \in Writes
    BY <1>3, <1>13, <2>1 DEF Writes
  <2>3. <<rest>> \in Seq(Writes)
    BY <2>2
  <2>4. <<rest>> \o Tail(todo) \in Seq(Writes)
    BY <1>3, <2>3, ConcatProperties
  <2>5. todo' = Tail(todo) \/ todo' = <<rest>> \o Tail(todo)
    BY <1>6, <2>1, Zenon
  <2>6. QED
    BY <1>3, <2>4, <2>5
<1>16. conn' \in Readers(script)
  <2>1. PICK keep : keep = (conn.req.keepalive /\ ~failed) /\ keep \in BOOLEAN
    OBVIOUS
  <2>2. PICK q : q = [conn.req EXCEPT !.keepalive = keep]
    BY Zenon
  <2>3. q \in Requests(script)
    <3>1. conn.req \in Requests(script)
      BY <1>2, ReaderFields
    <3>2. QED
      BY <2>1, <2>2, <3>1, SetFlag, Zenon
  <2>4. PICK x : x = [conn EXCEPT !.errnum = p.err]
    BY Zenon
  <2>5. x \in Readers(script)
    <3>1. p.err \in Errors
      BY <1>11, WriterFields DEF Errors
    <3>2. QED
      BY <1>2, <2>4, <3>1, SetErrnum
  <2>6. conn' = [x EXCEPT !.req = q]
    <3>1. conn' = [conn EXCEPT !.errnum = p.err,
                               !.req = [conn.req EXCEPT !.keepalive = conn.req.keepalive /\ ~failed]]
      BY <1>7, Zenon
    <3>2. conn' = [conn EXCEPT !.errnum = p.err, !.req = q]
      BY <2>1, <2>2, <3>1, Zenon
    <3>3. QED
      BY <2>4, <3>2, Zenon
  <2>7. QED
    BY <2>3, <2>5, <2>6, SetReq
<1>17. TypeOK'
  BY <1>1, <1>2, <1>12, <1>14, <1>15, <1>16 DEF TypeOK, Stream, Writer, Writes
<1>18. StreamOK'
  <2>1. writer.intact => accepted = writer.wire \o writer.cache
    BY DEF ConnInv, StreamOK
  <2>2. writer'.intact => accepted' = writer'.wire \o writer'.cache
    BY <1>6, <1>9, <1>11, <1>12, <2>1
  <2>3. QED
    BY <2>2 DEF StreamOK
<1>19. LastReadOK' /\ CachedIsArmed'
  BY <1>2 DEF LastReadOK, CachedIsArmed
<1>20. Forward
  <2>1. Grown(writer, p)
    BY <1>2, <1>9, <1>11, GrownTwice
  <2>2. Grown(writer, writer')
    BY <1>12, <2>1 DEF Grown
  <2>3. QED
    BY <1>6, <1>9, <1>11, <1>12, <1>13, <2>2 DEF Forward
<1>21. QED
  BY <1>17, <1>18, <1>19, <1>20 DEF ConnInv

\* The steps of the thread that only move it on.
LEMMA MovingStep ==
  ASSUME ConnInv, PollRead \/ PollError \/ EndTurn
  PROVE  ConnInv' /\ UNCHANGED <<writer, accepted>>
<1>1. /\ UNCHANGED <<script, arrived, fin, gone, taken, conn, writer, pollout, last, todo, body,
                     accepted>>
      /\ pc' \in {"read", "end"} /\ close' \in BOOLEAN
  BY DEF PollRead, PollError, EndTurn, peer, ConnInv, TypeOK
<1>2. TypeOK'
  BY <1>1 DEF ConnInv, TypeOK, Stream
<1>3. QED
  BY <1>1, <1>2 DEF ConnInv, StreamOK, LastReadOK, CachedIsArmed

\* Waiting for POLLOUT is noted with the data.
LEMMA SetBlocked ==
  ASSUME NEW w \in Writer, NEW b \in BOOLEAN
  PROVE  LET x == [w EXCEPT !.blocked = b]
         IN  /\ x \in Writer /\ x.wire = w.wire /\ x.cache = w.cache /\ x.intact = w.intact
             /\ x.blocked = b
<1>1. PICK x : x = [w EXCEPT !.blocked = b]
  BY Zenon
<1>2. w = [wire |-> w.wire, cache |-> w.cache, blocked |-> w.blocked, err |-> w.err,
           ret |-> w.ret, intact |-> w.intact]
  BY WriterFields
<1>3. x = [wire |-> w.wire, cache |-> w.cache, blocked |-> b, err |-> w.err, ret |-> w.ret,
           intact |-> w.intact]
  BY <1>1, <1>2
<1>4. x \in Writer
  BY <1>3, WriterFields, IsWriter
<1>5. QED
  BY <1>1, <1>3, <1>4

\* The end of xs_async_handler.
LEMMA EndStep ==
  ASSUME ConnInv, End
  PROVE  ConnInv' /\ Forward
<1>1. /\ pc' = IF close THEN "closed" ELSE "poll"
      /\ UNCHANGED <<script, arrived, fin, gone, taken, conn, last, close, todo, body, accepted>>
  BY DEF End, peer
<1>2. writer \in Writer /\ pollout \in BOOLEAN
  BY DEF ConnInv, TypeOK, Writer
<1>3. CASE close
  <2>1. PICK p \in PurgeOutcomes(writer, gone) : writer' = Settled(p)
    BY <1>3 DEF End
  <2>2. pollout' = pollout
    BY <1>3 DEF End
  <2>3. PICK w : w = writer'
    BY Zenon
  <2>4. /\ w \in Writer /\ (w.intact => accepted = w.wire \o w.cache)
        /\ Grown(writer, w) /\ (w.intact => writer.intact)
    BY <2>1, <2>3, PurgeKeepsStream
  <2>5. TypeOK'
    BY <1>1, <1>2, <2>2, <2>3, <2>4 DEF ConnInv, TypeOK, Stream, Writer
  <2>6. StreamOK' /\ LastReadOK' /\ CachedIsArmed'
    BY <1>1, <1>3, <2>3, <2>4 DEF StreamOK, LastReadOK, CachedIsArmed
  <2>7. Forward
    BY <1>1, <2>3, <2>4, StayingAccepted DEF Forward
  <2>8. QED
    BY <2>5, <2>6, <2>7 DEF ConnInv
<1>4. CASE ~close
  <2>1. PICK b : b = (writer.blocked \/ writer.cache # <<>>) /\ b \in BOOLEAN
    OBVIOUS
  <2>2. writer' = [writer EXCEPT !.blocked = b] /\ pollout' = (pollout \/ writer.cache # <<>>)
    BY <1>4, <2>1 DEF End
  <2>3. /\ writer' \in Writer /\ writer'.wire = writer.wire /\ writer'.cache = writer.cache
        /\ writer'.intact = writer.intact /\ writer'.blocked = b
    BY <1>2, <2>1, <2>2, SetBlocked
  <2>4. TypeOK'
    BY <1>1, <1>2, <2>2, <2>3 DEF ConnInv, TypeOK, Stream, Writer
  <2>5. StreamOK' /\ LastReadOK'
    BY <1>1, <1>4, <2>3 DEF ConnInv, StreamOK, LastReadOK
  <2>6. CachedIsArmed'
    BY <2>1, <2>2, <2>3 DEF CachedIsArmed
  <2>7. Grown(writer, writer')
    BY <1>2, <2>3, Staying DEF Grown
  <2>8. Forward
    BY <1>1, <2>3, <2>7, StayingAccepted DEF Forward
  <2>9. QED
    BY <2>4, <2>5, <2>6, <2>8 DEF ConnInv
<1>5. QED
  BY <1>3, <1>4

\* poll reports POLLOUT.
LEMMA PollWriteStep ==
  ASSUME ConnInv, PollWrite
  PROVE  ConnInv' /\ Forward
<1>1. /\ pc = "poll"
      /\ UNCHANGED <<script, arrived, fin, gone, taken, pc, last, close, todo, body, accepted>>
  BY DEF PollWrite, peer
<1>2. PICK p \in PurgeOutcomes(writer, gone) :
        /\ writer' = [Settled(p) EXCEPT !.blocked = @ \/ p.cache # <<>>]
        /\ conn' = [conn EXCEPT !.errnum = IF writer.cache = <<>> THEN @ ELSE p.err]
        /\ pollout' = (p.cache # <<>>)
  BY DEF PollWrite
<1>3. writer \in Writer /\ conn \in Readers(script) /\ gone \in BOOLEAN
  BY DEF ConnInv, TypeOK, Writer
<1>4. p \in Writer
  BY <1>3, PurgeMoves DEF Moves
<1>5. PICK s : s = Settled(p)
  BY Zenon
<1>6. /\ s \in Writer /\ s.cache = p.cache /\ (s.intact => accepted = s.wire \o s.cache)
      /\ Grown(writer, s) /\ (s.intact => writer.intact)
  <2>1. s \in Writer /\ s.cache = p.cache
    BY <1>4, <1>5, SettledKeeps
  <2>2. /\ (s.intact => accepted = s.wire \o s.cache)
        /\ Grown(writer, s) /\ (s.intact => writer.intact)
    BY <1>5, PurgeKeepsStream
  <2>3. QED
    BY <2>1, <2>2
<1>7. PICK b : b = (s.blocked \/ p.cache # <<>>) /\ b \in BOOLEAN
  OBVIOUS
<1>8. writer' = [s EXCEPT !.blocked = b]
  BY <1>2, <1>5, <1>7, Zenon
<1>9. /\ writer' \in Writer /\ writer'.wire = s.wire /\ writer'.cache = s.cache
      /\ writer'.intact = s.intact /\ writer'.blocked = b
  BY <1>6, <1>7, <1>8, SetBlocked
<1>10. conn' \in Readers(script)
  <2>1. PICK e : e = IF writer.cache = <<>> THEN conn.errnum ELSE p.err
    BY Zenon
  <2>2. e \in Errors
    <3>1. conn.errnum \in Errors /\ p.err \in Errors
      BY <1>3, <1>4, ReaderFields, WriterFields DEF Errors
    <3>2. QED
      BY <2>1, <3>1
  <2>3. conn' = [conn EXCEPT !.errnum = e]
    BY <1>2, <2>1, Zenon
  <2>4. QED
    BY <1>3, <2>2, <2>3, SetErrnum
<1>11. TypeOK'
  <2>1. pollout' \in BOOLEAN
    BY <1>2
  <2>2. QED
    BY <1>1, <1>9, <1>10, <2>1 DEF ConnInv, TypeOK, Stream, Writer
<1>12. StreamOK' /\ LastReadOK'
  BY <1>1, <1>6, <1>9 DEF StreamOK, LastReadOK
<1>13. CachedIsArmed'
  BY <1>2, <1>6, <1>7, <1>9 DEF CachedIsArmed
<1>14. Forward
  <2>1. Grown(writer, writer')
    BY <1>6, <1>9 DEF Grown
  <2>2. QED
    BY <1>1, <1>6, <1>9, <2>1, StayingAccepted DEF Forward
<1>15. QED
  BY <1>11, <1>12, <1>13, <1>14 DEF ConnInv

-----------------------------------------------------------------------------
(***************************************************************************)
(* Where the reader of the connection is.                                  *)
(***************************************************************************)
\* Where each message of the script begins in the stream.
Begins == CHOOSE B : Laid(script, Stream, B)

\* The number of the message the reader is about: a message that has been
\* handled stays with it until the next call.
Handling == pc \in {"control", "dispatch"}
Index == IF ~Handling /\ HttpState(conn.req) = "complete" THEN Len(delivered) ELSE Len(delivered) + 1

\* What has been seen complete.
Seen == [m : Nat, body : Seq(Arriving(script))]

\* The reader has come as far as the messages it has delivered and the body
\* of the one it is reading say.
PlaceInv ==
  /\ delivered \in Seq(Seen) /\ RequestsIntact
  /\ close => pc \in {"respond", "end", "closed"}
  /\ Handling /\ HttpState(conn.req) = "complete" => last.n >= 0
  /\ ~close => Placed(script, Stream, Begins, conn, taken, Index, body)

\* The stream of a script.
LEMMA StreamIs ==
  ASSUME TypeOK
  PROVE  Laid(script, Stream, Begins)
<1>1. script \in Scripts
  BY DEF TypeOK
<1>2. QED
  BY <1>1, StreamTyped, Zenon DEF Begins

\* The socket holds what follows in the stream.
LEMMA NetPlace ==
  ASSUME TypeOK
  PROVE  NetAt(Stream, Net, taken) /\ taken + Len(Net.data) <= Len(Stream)
<1>1. /\ script \in Seq(Messages) /\ Stream \in Seq(Arriving(script)) /\ Len(Stream) \in Nat
      /\ Len(Net.data) = arrived - taken
      /\ taken \in Nat /\ arrived \in Nat /\ taken <= arrived /\ arrived <= Len(Stream)
  BY NetTyped
<1>2. PICK S, q : S = Stream /\ q = SubSeq(S, taken + 1, arrived)
  BY Zenon
<1>3. Net.data = q
  BY <1>2 DEF Net
<1>4. \A k \in 1 .. Len(q) : q[k] = S[taken + k]
  <2>1. S \in Seq(Arriving(script)) /\ arrived \in Int /\ arrived <= Len(S)
    BY <1>1, <1>2
  <2>2. QED
    BY <1>1, <1>2, <2>1, PartIs
<1>5. NetAt(Stream, Net, taken)
  BY <1>2, <1>3, <1>4, Zenon DEF NetAt
<1>6. QED
  BY <1>1, <1>5

\* At the start nothing has been read.
LEMMA PlaceInit ==
  ASSUME Init, ConnInv
  PROVE  PlaceInv
<1>1. TypeOK
  BY DEF ConnInv
<1>2. PICK B : B = Begins
  BY Zenon
<1>3. script \in Seq(Messages) /\ Laid(script, Stream, B)
  BY <1>1, <1>2, StreamIs, NetTyped
<1>4. B[1] = 0 /\ 1 \in DOMAIN B
  BY <1>3, LaidParts
<1>5. /\ conn.buf = <<>> /\ conn.consumed = 0 /\ conn.upgrade = 0 /\ conn.req = NoReq /\ taken = 0
      /\ close = FALSE /\ delivered = <<>> /\ pc = "poll"
  BY DEF Init, NewReader
<1>6. conn.req.reqlen = 0 /\ HttpState(conn.req) = "pending"
  BY <1>5 DEF NoReq, HttpState
<1>7. Index = 1
  <2>1. Index = Len(delivered) + 1
    BY <1>6 DEF Index
  <2>2. QED
    BY <1>5, <2>1
<1>8. At(Stream, conn, 0, 0)
  <2>1. PICK c, L : c = conn /\ L = Len(c.buf)
    BY Zenon
  <2>2. L = 0 /\ c.consumed = 0
    BY <1>5, <2>1
  <2>3. c.consumed <= L /\ 0 = (0 - L) + c.consumed /\ 1 .. L - c.consumed = {}
    BY <2>2
  <2>4. QED
    BY <2>1, <2>3 DEF At, Inside, Ahead
<1>9. Idle(script, Stream, B, conn, 0, 1)
  BY <1>4, <1>5, <1>8 DEF Idle
<1>10. Placed(script, Stream, B, conn, taken, Index, body)
  BY <1>5, <1>6, <1>7, <1>9 DEF Placed
<1>11. delivered \in Seq(Seen) /\ DOMAIN delivered = {}
  BY <1>5
<1>12. QED
  BY <1>2, <1>5, <1>10, <1>11 DEF PlaceInv, RequestsIntact, Handling

\* A step that neither reads nor delivers.
LEMMA PlaceStays ==
  ASSUME PlaceInv, UNCHANGED <<script, taken, delivered, body>>,
         SameReader(conn, conn'), conn'.req.header = conn.req.header,
         Handling' <=> Handling, Handling => UNCHANGED last,
         close' => pc' \in {"respond", "end", "closed"}, close => close'
  PROVE  PlaceInv'
<1>1. Stream' = Stream
  BY DEF Stream
<1>2. Begins' = Begins
  BY <1>1 DEF Begins
<1>3. HttpState(conn'.req) = HttpState(conn.req)
  BY Zenon DEF SameReader, HttpState
<1>4. Index' = Index
  BY <1>3 DEF Index
<1>5. RequestsIntact' /\ delivered' \in Seq(Seen')
  BY DEF PlaceInv, RequestsIntact, BodyOf, Seen
<1>6. Handling' /\ HttpState(conn'.req) = "complete" => last'.n >= 0
  BY <1>3 DEF PlaceInv
<1>7. ASSUME ~close' PROVE Placed(script, Stream, Begins, conn', taken, Index, body)
  <2>1. Placed(script, Stream, Begins, conn, taken, Index, body)
    BY <1>7 DEF PlaceInv
  <2>2. PICK c, d : c = conn /\ d = conn'
    BY Zenon
  <2>3. Placed(script, Stream, Begins, c, taken, Index, body)
        /\ SameReader(c, d) /\ (d.req.header => c.req.header)
    BY <2>1, <2>2
  <2>4. Placed(script, Stream, Begins, d, taken, Index, body)
    BY <2>3, SamePlaced
  <2>5. QED
    BY <2>2, <2>4
<1>8. QED
  BY <1>1, <1>2, <1>4, <1>5, <1>6, <1>7 DEF PlaceInv

\* Only errnum has changed.
LEMMA SameIs ==
  ASSUME NEW msgs, NEW c \in Readers(msgs), NEW e
  PROVE  /\ SameReader(c, c)
         /\ LET d == [c EXCEPT !.errnum = e]
            IN  SameReader(c, d) /\ d.req.header = c.req.header
<1>1. c \in Shapes(msgs) /\ c.req \in RequestFields
  BY ReaderFields, RequestTypes
<1>2. SameReader(c, c)
  BY DEF SameReader
<1>3. PICK d : d = [c EXCEPT !.errnum = e]
  BY Zenon
<1>4. SameReader(c, d) /\ d.req.header = c.req.header
  BY <1>1, <1>3 DEF SameReader, Shapes
<1>5. QED
  BY <1>2, <1>3, <1>4, Zenon

\* The steps of the peer, the poll loop and the writes leave the reader where
\* it is.
LEMMA ReaderStays ==
  ASSUME ConnInv, [Next]_vars, ~ReadCall, ~Dispatch
  PROVE  /\ SameReader(conn, conn') /\ conn'.req.header = conn.req.header
         /\ UNCHANGED <<script, taken, last, body, delivered>>
         /\ Handling' <=> Handling
<1>1. conn \in Readers(script)
  BY DEF ConnInv, TypeOK
<1>2. /\ SameReader(conn, conn)
      /\ \A e : /\ SameReader(conn, [conn EXCEPT !.errnum = e])
               /\ [conn EXCEPT !.errnum = e].req.header = conn.req.header
  BY <1>1, SameIs
<1>3. CASE UNCHANGED vars \/ PeerCloses \/ PeerResets \/ \E k \in 1 .. Len(Stream) : Arrive(k)
  <2>1. UNCHANGED <<script, taken, pc, conn, last, body, delivered>>
    BY <1>3 DEF vars, PeerCloses, PeerResets, Arrive
  <2>2. QED
    BY <1>2, <2>1 DEF Handling
<1>4. CASE PollRead \/ PollError \/ EndTurn \/ End
  <2>1. /\ UNCHANGED <<script, taken, conn, last, body, delivered>>
        /\ pc \in {"poll", "respond", "end"} /\ pc' \in {"read", "end", "closed", "poll"}
    BY <1>4 DEF PollRead, PollError, EndTurn, End, peer
  <2>2. QED
    BY <1>2, <2>1 DEF Handling
<1>5. CASE PollWrite
  <2>1. UNCHANGED <<script, taken, pc, last, body, delivered>>
    BY <1>5 DEF PollWrite, peer
  <2>2. \E e : conn' = [conn EXCEPT !.errnum = e]
    <3>1. PICK w : conn' = [conn EXCEPT !.errnum = IF writer.cache = <<>> THEN @ ELSE w.err]
      BY <1>5, Zenon DEF PollWrite
    <3>2. conn' = [conn EXCEPT !.errnum = IF writer.cache = <<>> THEN conn.errnum ELSE w.err]
      BY <3>1, Zenon
    <3>3. QED
      BY <3>2, Zenon
  <2>3. SameReader(conn, conn') /\ conn'.req.header = conn.req.header
    BY <1>2, <2>2
  <2>4. QED
    BY <2>1, <2>3 DEF Handling
<1>6. CASE Control \/ Respond
  <2>1. /\ UNCHANGED <<script, taken, last, body, delivered>> /\ WriteNext
        /\ \/ pc = "respond" /\ pc' = "respond"
           \/ pc = "control" /\ pc' \in {"control", "dispatch"}
    BY <1>6 DEF Control, Respond, peer
  <2>2. PICK w : conn' = [conn EXCEPT !.errnum = w.err]
    BY <2>1, Zenon DEF WriteNext
  <2>3. SameReader(conn, conn') /\ conn'.req.header = conn.req.header
    BY <1>2, <2>2
  <2>4. QED
    BY <2>1, <2>3 DEF Handling
<1>7. CASE WriteFile
  <2>1. UNCHANGED <<script, taken, pc, last, body, delivered>>
    BY <1>7 DEF WriteFile, peer
  <2>2. PICK w, failed, p : conn' = [conn EXCEPT !.errnum = p.err, !.req.keepalive = @ /\ ~failed]
    BY <1>7, Zenon DEF WriteFile
  <2>3. SameReader(conn, conn') /\ conn'.req.header = conn.req.header
    <3>1. PICK c, d, q, g : c = conn /\ d = conn' /\ q = c.req /\ g = d.req
      BY Zenon
    <3>2. c \in Shapes(script) /\ q \in RequestFields
      BY <1>1, <3>1, ReaderFields, RequestTypes
    <3>3. /\ d.buf = c.buf /\ d.consumed = c.consumed /\ d.upgrade = c.upgrade
          /\ g = [q EXCEPT !.keepalive = @ /\ ~failed]
      BY <2>2, <3>1, <3>2 DEF Shapes
    <3>4. /\ g.m = q.m /\ g.reqlen = q.reqlen /\ g.contentlen = q.contentlen
          /\ g.consumed = q.consumed /\ g.chunked = q.chunked /\ g.header = q.header
      BY <3>2, <3>3 DEF RequestFields
    <3>5. QED
      BY <3>1, <3>3, <3>4, Zenon DEF SameReader
  <2>4. QED
    BY <2>1, <2>3 DEF Handling
<1>8. QED
  BY <1>3, <1>4, <1>5, <1>6, <1>7 DEF Next, Thread

\* So they leave it in its place.
LEMMA PlaceMoves ==
  ASSUME ConnInv, PlaceInv, [Next]_vars, ~ReadCall, ~Dispatch
  PROVE  PlaceInv'
<1>1. /\ SameReader(conn, conn') /\ conn'.req.header = conn.req.header
      /\ UNCHANGED <<script, taken, last, body, delivered>> /\ (Handling' <=> Handling)
  BY ReaderStays
<1>2. close => pc \in {"respond", "end", "closed"}
  BY DEF PlaceInv
<1>3. (close' => pc' \in {"respond", "end", "closed"}) /\ (close => close')
  <2>1. CASE UNCHANGED vars \/ PeerCloses \/ PeerResets \/ \E k \in 1 .. Len(Stream) : Arrive(k)
    <3>1. UNCHANGED <<pc, close>>
      BY <2>1 DEF vars, PeerCloses, PeerResets, Arrive
    <3>2. QED
      BY <1>2, <3>1
  <2>2. CASE PollRead \/ PollError \/ EndTurn \/ End
    <3>1. \/ pc = "poll" /\ pc' = "read" /\ close' = close
          \/ pc' = "end" /\ close' = TRUE
          \/ pc = "respond" /\ (close => close') /\ (close' => pc' = "end")
          \/ pc = "end" /\ pc' = (IF close THEN "closed" ELSE "poll") /\ close' = close
      <4>1. PollRead => pc = "poll" /\ pc' = "read" /\ close' = close
        BY DEF PollRead
      <4>2. PollError => pc' = "end" /\ close' = TRUE
        BY DEF PollError
      <4>3. EndTurn => pc = "respond" /\ (close => close') /\ (close' => pc' = "end")
        BY DEF EndTurn
      <4>4. End => pc = "end" /\ pc' = (IF close THEN "closed" ELSE "poll") /\ close' = close
        BY DEF End
      <4>5. QED
        BY <2>2, <4>1, <4>2, <4>3, <4>4, Zenon
    <3>2. QED
      BY <1>2, <3>1
  <2>3. CASE PollWrite \/ Respond \/ WriteFile
    <3>1. UNCHANGED <<pc, close>>
      BY <2>3 DEF PollWrite, Respond, WriteFile
    <3>2. QED
      BY <1>2, <3>1
  <2>4. CASE Control
    BY <1>2, <2>4 DEF Control
  <2>5. QED
    BY <2>1, <2>2, <2>3, <2>4 DEF Next, Thread
<1>4. QED
  BY <1>1, <1>3, PlaceStays

\* A call of xs_conn_httpread goes on in the message that is next.
LEMMA PlaceRead ==
  ASSUME ConnInv, PlaceInv, ReadCall
  PROVE  PlaceInv'
<1>1. TypeOK
  BY DEF ConnInv
<1>2. PICK r : /\ r = HttpRead(conn, HandlerBuf, Net, script)
               /\ conn' = r.c /\ taken' = taken + r.taken
               /\ last' = [n |-> r.n, reread |-> r.reread, handled |-> FALSE]
               /\ body' = (IF r.c.req.consumed = 0 THEN <<>> ELSE body) \o r.out
  BY Zenon DEF ReadCall
<1>3. /\ pc = "read" /\ Handling' /\ ~Handling /\ UNCHANGED <<script, close, delivered>> /\ ~close
  <2>1. pc = "read" /\ pc' \in {"dispatch", "control"} /\ UNCHANGED <<script, close, delivered>>
    BY DEF ReadCall, peer
  <2>2. ~close
    BY <2>1 DEF PlaceInv
  <2>3. QED
    BY <2>1, <2>2 DEF Handling
<1>4. Stream' = Stream /\ Begins' = Begins
  <2>1. Stream' = Stream
    BY <1>3 DEF Stream
  <2>2. QED
    BY <1>3, <2>1 DEF Begins
<1>5. PICK i, n, b, S, B : /\ i = Index /\ n = Len(delivered) + 1 /\ b = body /\ S = Stream
                           /\ B = Begins
  BY Zenon
<1>6. Placed(script, S, B, conn, taken, i, b)
  BY <1>3, <1>5 DEF PlaceInv
<1>7. Kept(script, S, B, r, taken, Turn(conn, i), b)
  <2>1. /\ script \in Seq(Messages) /\ conn \in Readers(script) /\ HandlerBuf \in Nat \ {0}
        /\ Net \in Nets(script) /\ Laid(script, S, B) /\ Len(S) \in Nat /\ taken \in Nat
        /\ taken + Len(Net.data) <= Len(S) /\ NetAt(S, Net, taken)
    BY <1>1, <1>5, NetTyped, NetPlace, StreamIs, ConnAssumption DEF TypeOK
  <2>2. PICK c, net, t : c = conn /\ net = Net /\ t = taken
    BY Zenon
  <2>3. Kept(script, S, B, HttpRead(c, HandlerBuf, net, script), t, Turn(c, i), b)
    BY <1>6, <2>1, <2>2, HttpReadKept
  <2>4. QED
    BY <1>2, <2>2, <2>3
<1>8. Turn(conn, i) = n
  <2>1. delivered \in Seq(Seen)
    BY DEF PlaceInv
  <2>2. i = IF HttpState(conn.req) = "complete" THEN Len(delivered) ELSE Len(delivered) + 1
    BY <1>3, <1>5 DEF Index
  <2>3. QED
    BY <1>5, <2>1, <2>2 DEF Turn
<1>9. body' = Grows(r, b)
  BY <1>2, <1>5, Zenon DEF Grows
<1>10. /\ Placed(script, S, B, conn', taken', n, body')
       /\ HttpState(conn'.req) = "complete" => last'.n >= 0
  <2>1. last'.n = r.n
    BY <1>2
  <2>2. QED
    BY <1>2, <1>7, <1>8, <1>9, <2>1, Zenon DEF Kept
<1>11. Index' = n
  BY <1>3, <1>5 DEF Index
<1>12. RequestsIntact' /\ delivered' \in Seq(Seen')
  BY <1>3 DEF PlaceInv, RequestsIntact, BodyOf, Seen
<1>13. QED
  BY <1>3, <1>4, <1>5, <1>10, <1>11, <1>12, Zenon DEF PlaceInv

\* What has been read to its end is handed on.
LEMMA PlaceDispatch ==
  ASSUME ConnInv, PlaceInv, Dispatch
  PROVE  PlaceInv'
<1>1. /\ pc = "dispatch" /\ pc' = "respond" /\ UNCHANGED <<script, taken, conn, body>>
      /\ close' = (conn.errnum # "ok")
      /\ delivered' = IF Completed THEN Append(delivered, [m |-> conn.req.m, body |-> body])
                      ELSE delivered
  BY DEF Dispatch, peer
<1>2. /\ TypeOK /\ conn \in Readers(script) /\ body \in Seq(Arriving(script))
  BY DEF ConnInv, TypeOK
<1>3. Handling /\ ~Handling' /\ ~close
  <2>1. ~close
    BY <1>1 DEF PlaceInv
  <2>2. QED
    BY <1>1, <2>1 DEF Handling
<1>4. Stream' = Stream /\ Begins' = Begins
  <2>1. Stream' = Stream
    BY <1>1 DEF Stream
  <2>2. QED
    BY <1>1, <2>1 DEF Begins
<1>5. PICK i, S, B, D : i = Index /\ S = Stream /\ B = Begins /\ D = delivered
  BY Zenon
<1>6. D \in Seq(Seen) /\ \A j \in DOMAIN D : D[j] = [m |-> j, body |-> BodyOf(j)]
  BY <1>5 DEF PlaceInv, RequestsIntact
<1>7. i = Len(D) + 1 /\ Len(D) \in Nat /\ i \in Nat
  BY <1>3, <1>5, <1>6 DEF Index
<1>8. Placed(script, S, B, conn, taken, i, body)
  BY <1>3, <1>5 DEF PlaceInv
<1>9. HttpState(conn.req) = "complete" => last.n >= 0
  BY <1>3 DEF PlaceInv
<1>10. Seen' = Seen /\ \A j : BodyOf(j)' = BodyOf(j)
  BY <1>1 DEF Seen, BodyOf
<1>11. CASE Completed
  <2>1. conn.errnum = "ok" /\ HttpState(conn.req) = "complete"
    BY <1>11 DEF Completed, ConnState, HttpState
  <2>2. conn.req.reqlen # 0
    BY <2>1 DEF HttpState
  <2>3. Reading(script, S, B, conn, taken, i, body)
    BY <1>8, <2>2, Zenon DEF Placed
  <2>4. conn.req.m = i /\ i \in DOMAIN script
    BY <2>3, Zenon DEF Reading
  <2>5. body = BodyOf(i)
    <3>1. script \in Seq(Messages) /\ Laid(script, S, B) /\ taken \in Nat
      BY <1>2, <1>5, StreamIs, NetTyped
    <3>2. PICK c, t, b : c = conn /\ t = taken /\ b = body
      BY Zenon
    <3>3. b = Body(i, 0, IF script[i].kind = "chunked" THEN Total(script[i].chunks)
                         ELSE PlainLen(script[i]))
      BY <1>2, <2>1, <2>2, <2>3, <3>1, <3>2, ReadToTheEnd
    <3>4. QED
      BY <3>2, <3>3, Zenon DEF BodyOf, PlainLen
  <2>6. PICK x : x = [m |-> i, body |-> body]
    BY Zenon
  <2>7. delivered' = Append(D, x) /\ x \in Seen /\ x = [m |-> i, body |-> BodyOf(i)]
    BY <1>1, <1>2, <1>5, <1>7, <1>11, <2>4, <2>5, <2>6 DEF Seen
  <2>8. PICK E : E = Append(D, x)
    BY Zenon
  <2>9. E \in Seq(Seen) /\ Len(E) = i /\ DOMAIN E = 1 .. i /\ E[i] = x
        /\ \A j \in 1 .. Len(D) : E[j] = D[j]
    BY <1>6, <1>7, <2>7, <2>8
  <2>10. \A j \in DOMAIN E : E[j] = [m |-> j, body |-> BodyOf(j)]
    <3>1. \A j \in 1 .. i : j = i \/ j \in 1 .. Len(D)
      BY <1>7
    <3>2. DOMAIN D = 1 .. Len(D)
      BY <1>6
    <3>3. QED
      BY <1>6, <2>7, <2>9, <3>1, <3>2, Zenon
  <2>11. RequestsIntact' /\ delivered' \in Seq(Seen')
    BY <1>10, <2>7, <2>8, <2>9, <2>10 DEF RequestsIntact
  <2>12. Index' = i
    <3>1. HttpState(conn'.req) = "complete" /\ Len(delivered') = i
      BY <1>1, <2>1, <2>7, <2>8, <2>9
    <3>2. QED
      BY <1>3, <3>1 DEF Index
  <2>13. QED
    BY <1>1, <1>3, <1>4, <1>5, <1>8, <2>11, <2>12 DEF PlaceInv
<1>12. CASE ~Completed
  <2>1. delivered' = delivered
    BY <1>1, <1>12
  <2>2. RequestsIntact' /\ delivered' \in Seq(Seen')
    BY <1>5, <1>6, <1>10, <2>1 DEF RequestsIntact
  <2>3. ASSUME ~close' PROVE Index' = i
    <3>1. conn.errnum = "ok"
      BY <1>1, <2>3
    <3>2. ConnState(conn) = HttpState(conn.req)
      BY <3>1 DEF ConnState
    <3>3. HttpState(conn.req) # "complete"
      BY <1>9, <1>12, <3>2, Zenon DEF Completed
    <3>4. QED
      BY <1>1, <1>5, <1>7, <2>1, <3>3 DEF Index
  <2>4. QED
    BY <1>1, <1>3, <1>4, <1>5, <1>8, <2>2, <2>3 DEF PlaceInv
<1>13. QED
  BY <1>11, <1>12

-----------------------------------------------------------------------------
(***************************************************************************)
(* Why a connection is closed.                                             *)
(***************************************************************************)
\* What errnum says after a recv.
From(net, e) == e = "ok" \/ (e = "io" /\ net.gone) \/ (e = "close" /\ net.fin)

LEMMA RecvFrom ==
  ASSUME NEW net, NEW len
  PROVE  From(net, Recv(net, len).err)
BY DEF Recv, From

\* Making room does not touch errnum.
LEMMA BufResizeErrnum ==
  ASSUME NEW msgs, NEW c \in Readers(msgs)
  PROVE  BufResize(c).errnum = c.errnum
<1> DEFINE a == [c EXCEPT !.bufsize = InitBuf]
           b == [c EXCEPT !.buf = <<>>, !.consumed = 0]
           d == [c EXCEPT !.bufsize = 2 * @]
<1>1. /\ a.errnum = c.errnum /\ b.errnum = c.errnum /\ d.errnum = c.errnum
      /\ Shift(c).errnum = c.errnum
  BY ReaderFields DEF Shapes, Shift
<1>2. BufResize(c) = IF c.bufsize = 0 THEN a ELSE IF c.consumed >= Len(c.buf) THEN b
                     ELSE IF c.consumed > (c.bufsize \div 4) * 3 THEN Shift(c)
                     ELSE IF Len(c.buf) = c.bufsize THEN d ELSE c
  BY Zenon DEF BufResize
<1> HIDE DEF a, b, d
<1>3. QED
  BY <1>1, <1>2, Zenon

\* Nor does a recv that is not asked for.
LEMMA FillFrom ==
  ASSUME NEW msgs, NEW c \in Readers(msgs), NEW ready, NEW net, From(net, c.errnum)
  PROVE  From(net, Fill(c, ready, net).c.errnum)
<1>1. PICK r : r = Recv(net, c.bufsize - Len(c.buf))
  BY Zenon
<1>2. From(net, r.err)
  BY <1>1, RecvFrom
<1>3. PICK d : d = [c EXCEPT !.errnum = r.err, !.buf = @ \o Got(net, r)]
  BY Zenon
<1>4. d.errnum = r.err
  BY <1>3, ReaderFields DEF Shapes
<1>5. Fill(c, ready, net).c = IF ready THEN c ELSE d
  BY <1>1, <1>3, Zenon DEF Fill, Received
<1>6. QED
  BY <1>2, <1>4, <1>5

\* Reading a body changes neither the protocol nor which request it is, and
\* writes nothing.
Quiet(c, r, net) ==
  /\ r.c.upgrade = c.upgrade /\ r.c.req.reqlen = c.req.reqlen
  /\ r.control = "none" /\ From(net, r.c.errnum)

\* A piece of the body.
LEMMA ReadBodyQuiet ==
  ASSUME NEW msgs, NEW c \in Readers(msgs), NEW len, NEW net, NEW recv, From(net, c.errnum)
  PROVE  Quiet(c, ReadBody(c, len, net, recv), net)
<1> DEFINE want == Smaller(len, c.req.contentlen - c.req.consumed)
           n == Smaller(want, Len(c.buf) - c.consumed)
           r == Recv(net, want)
           got == Got(net, r)
           buffered == [c EXCEPT !.consumed = @ + n, !.req.consumed = @ + n]
           received == [c EXCEPT !.errnum = r.err, !.req.consumed = @ + Len(got)]
           a == Returned(buffered, n, Buffered(buffered), recv)
           b == Returned(received, r.n, r.n = want, [asked |-> TRUE, taken |-> recv.taken + Len(got)])
<1>1. ReadBody(c, len, net, recv) =
        IF n > 0 THEN [a EXCEPT !.out = SubSeq(c.buf, c.consumed + 1, c.consumed + n)]
        ELSE [b EXCEPT !.out = got]
  BY Zenon DEF ReadBody
<1>2. From(net, r.err)
  BY RecvFrom
<1>3. PICK x : x = IF n > 0 THEN buffered ELSE received
  BY Zenon
<1>4. /\ x.upgrade = c.upgrade /\ x.req.reqlen = c.req.reqlen
      /\ x.errnum = IF n > 0 THEN c.errnum ELSE r.err
  <2>1. c \in Shapes(msgs) /\ c.req \in RequestFields
    BY ReaderFields, RequestTypes
  <2>2. PICK m, e, k : m = c.consumed + n /\ e = r.err /\ k = c.req.consumed + Len(got)
    BY Zenon
  <2>3. PICK m2 : m2 = c.req.consumed + n
    BY Zenon
  <2>4. PICK q1, q2 : q1 = [c.req EXCEPT !.consumed = m2] /\ q2 = [c.req EXCEPT !.consumed = k]
    BY Zenon
  <2>5. q1.reqlen = c.req.reqlen /\ q2.reqlen = c.req.reqlen
    BY <2>1, <2>4 DEF RequestFields
  <2>6. buffered = [c EXCEPT !.consumed = m, !.req = q1] /\ received = [c EXCEPT !.errnum = e, !.req = q2]
    BY <2>2, <2>3, <2>4, Zenon
  <2>7. /\ buffered.upgrade = c.upgrade /\ buffered.req = q1 /\ buffered.errnum = c.errnum
        /\ received.upgrade = c.upgrade /\ received.req = q2 /\ received.errnum = e
    BY <2>1, <2>6 DEF Shapes
  <2>8. CASE n > 0
    <3>1. x = buffered
      BY <1>3, <2>8, Zenon
    <3>2. QED
      BY <2>5, <2>7, <2>8, <3>1, Zenon
  <2>9. CASE ~(n > 0)
    <3>1. x = received
      BY <1>3, <2>9, Zenon
    <3>2. QED
      BY <2>2, <2>5, <2>7, <2>9, <3>1, Zenon
  <2>10. QED
    BY <2>8, <2>9, Zenon
<1>5. ReadBody(c, len, net, recv).c = x /\ ReadBody(c, len, net, recv).control = "none"
  <2> HIDE DEF n, got, buffered, received
  <2>1. a.c = buffered /\ a.control = "none" /\ DOMAIN a = {"c", "n", "reread", "out", "asked", "taken", "control"}
    BY DEF Returned
  <2>2. b.c = received /\ b.control = "none"
    BY DEF Returned
  <2>3. \A o : [a EXCEPT !.out = o].c = buffered /\ [a EXCEPT !.out = o].control = "none"
    BY DEF Returned
  <2>4. \A o : [b EXCEPT !.out = o].c = received /\ [b EXCEPT !.out = o].control = "none"
    BY DEF Returned
  <2> HIDE DEF a, b
  <2>5. QED
    BY <1>1, <1>3, <2>3, <2>4, Zenon
<1>6. QED
  BY <1>2, <1>4, <1>5, Zenon DEF Quiet

\* The next chunk, or a piece of it.
LEMMA ReadChunkedQuiet ==
  ASSUME NEW msgs, NEW c \in Readers(msgs), NEW s, NEW len, NEW net \in Nets(msgs),
         From(net, c.errnum)
  PROVE  Quiet(c, ReadChunked(c, s, len, net), net)
<1>1. CASE c.req.consumed < c.req.contentlen
  <2>1. PICK recv : recv = NotAsked
    BY Zenon
  <2>2. ReadChunked(c, s, len, net) = ReadBody(c, len, net, recv)
    BY <1>1, <2>1, Zenon DEF ReadChunked
  <2>3. QED
    BY <2>2, ReadBodyQuiet
<1>2. CASE ~(c.req.consumed < c.req.contentlen)
  <2>1. PICK k : k = ChunkReady(c, net)
    BY Zenon
  <2>2. k.c \in Readers(msgs)
    BY <2>1, ChunkReadyTyped DEF Filled
  <2>3. PICK d : d = BufResize(c)
    BY Zenon
  <2>4. d \in Readers(msgs) /\ d.req = c.req /\ d.upgrade = c.upgrade /\ From(net, d.errnum)
    BY <2>3, BufResizeTyped, BufResizeErrnum
  <2>5. PICK f : f = FillChunk(d, net)
    BY Zenon
  <2>6. f.c \in Readers(msgs) /\ f.c.req = c.req /\ f.c.upgrade = c.upgrade /\ From(net, f.c.errnum)
    <3>1. (ScanChunk(d.buf, d.consumed).n >= 0) \in BOOLEAN
      BY <2>4, ReaderFields, ScanChunkTyped
    <3>2. PICK ready : ready = (ScanChunk(d.buf, d.consumed).n >= 0) /\ ready \in BOOLEAN
      BY <3>1, Zenon
    <3>3. f = Fill(d, ready, net)
      BY <2>5, <3>2, Zenon DEF FillChunk
    <3>4. /\ Filled(f, net, msgs) /\ f.c.req = d.req /\ f.c.upgrade = d.upgrade
      <4>1. \A rdy \in BOOLEAN : /\ Filled(Fill(d, rdy, net), net, msgs)
                                /\ Fill(d, rdy, net).c.req = d.req
                                /\ Fill(d, rdy, net).c.upgrade = d.upgrade
        BY <2>4, FillTyped
      <4>2. QED
        BY <3>2, <3>3, <4>1, Zenon
    <3>5. From(net, f.c.errnum)
      <4>1. \A rdy : From(net, Fill(d, rdy, net).c.errnum)
        BY <2>4, FillFrom
      <4>2. QED
        BY <3>3, <4>1, Zenon
    <3>6. QED
      BY <2>4, <3>4, <3>5 DEF Filled
  <2>7. PICK scan : scan = ScanChunk(f.c.buf, f.c.consumed)
    BY Zenon
  <2>8. PICK q, x : q = [f.c.req EXCEPT !.contentlen = @ + scan.n]
                    /\ x = [f.c EXCEPT !.consumed = scan.next, !.req = q]
    BY Zenon
  <2>9. k.c = IF scan.n < 0 THEN f.c ELSE x
    BY <2>1, <2>3, <2>5, <2>7, <2>8, Zenon DEF ChunkReady, ChunkFound
  <2>10. k.c.upgrade = c.upgrade /\ k.c.req.reqlen = c.req.reqlen /\ From(net, k.c.errnum)
    <3>1. q.reqlen = c.req.reqlen
      BY <2>6, <2>8, ReaderFields, RequestTypes DEF RequestFields
    <3>2. x.upgrade = c.upgrade /\ x.req = q /\ x.errnum = f.c.errnum
      BY <2>6, <2>8, ReaderFields DEF Shapes
    <3>3. QED
      BY <2>6, <2>9, <3>1, <3>2
  <2>11. PICK ended : ended = [k.c EXCEPT !.req.chunked = (k.n # 0)]
    BY Zenon
  <2>12. ReadChunked(c, s, len, net) =
           IF k.n > 0 THEN ReadBody(k.c, len, Left(net, k.taken), k)
           ELSE Returned(ended, RetValue(s, ended), Buffered(ended), k)
    BY <1>2, <2>1, <2>11, Zenon DEF ReadChunked, NextChunk
  <2>13. CASE k.n > 0
    <3>1. PICK rest : rest = Left(net, k.taken)
      BY Zenon
    <3>2. rest.gone = net.gone /\ rest.fin = net.fin
      BY <3>1 DEF Left, Nets
    <3>3. Quiet(k.c, ReadBody(k.c, len, rest, k), rest)
      BY <2>2, <2>10, <3>2, ReadBodyQuiet DEF From
    <3>4. QED
      BY <2>10, <2>12, <2>13, <3>1, <3>2, <3>3 DEF Quiet, From
  <2>14. CASE ~(k.n > 0)
    <3>1. PICK r : r = Returned(ended, RetValue(s, ended), Buffered(ended), k)
      BY Zenon
    <3>2. r.c = ended /\ r.control = "none"
      BY <3>1 DEF Returned
    <3>3. PICK g : g = [k.c.req EXCEPT !.chunked = (k.n # 0)]
      BY Zenon
    <3>4. ended = [k.c EXCEPT !.req = g]
      BY <2>11, <3>3, Zenon
    <3>5. g.reqlen = k.c.req.reqlen
      BY <2>2, <3>3, ReaderFields, RequestTypes DEF RequestFields
    <3>6. ended.upgrade = k.c.upgrade /\ ended.req = g /\ ended.errnum = k.c.errnum
      BY <2>2, <3>4, ReaderFields DEF Shapes
    <3>7. QED
      BY <2>10, <2>12, <2>14, <3>1, <3>2, <3>5, <3>6 DEF Quiet
  <2>15. QED
    BY <2>13, <2>14
<1>3. QED
  BY <1>1, <1>2

\* An upgrade is among the first n messages.
Switched(msgs, n) == \E j \in DOMAIN msgs : j <= n /\ msgs[j].kind = "upgrade"

\* conn->upgrade says so, up to the message that is being read.
Agreed(msgs, c, i) == c.upgrade # 0 <=> Switched(msgs, IF c.req.reqlen = 0 THEN i - 1 ELSE i)

\* Why the parser refuses what comes where message i should.
Trails(msgs, i) == i - 1 \in DOMAIN msgs /\ msgs[i - 1].kind = "chunked"
Continues(msgs, i) == msgs[i].kind = "frame" /\ msgs[i].op \notin Opcodes

\* One message more.
LEMMA SwitchedMore ==
  ASSUME NEW msgs \in Seq(Messages), NEW i \in DOMAIN msgs
  PROVE  Switched(msgs, i) <=> Switched(msgs, i - 1) \/ msgs[i].kind = "upgrade"
<1>1. \A j \in DOMAIN msgs : j <= i <=> j <= i - 1 \/ j = i
  OBVIOUS
<1>2. i <= i
  OBVIOUS
<1>3. QED
  BY <1>1, <1>2, Zenon DEF Switched

\* In an orderly script frames come when the protocol has been switched.
LEMMA FramesWhenSwitched ==
  ASSUME NEW msgs \in Seq(Messages), Orderly(msgs), NEW i \in DOMAIN msgs
  PROVE  msgs[i].kind = "frame" <=> Switched(msgs, i - 1)
<1>1. \A j : j \in 1 .. i - 1 <=> j \in DOMAIN msgs /\ j <= i - 1
  OBVIOUS
<1>2. QED
  BY <1>1, Zenon DEF Orderly, Switched

\* Where message i should come there is its head, or a line end before it: it
\* is found in the first three tokens, and what the parser refuses is that line
\* end or a frame whose opcode it does not know.
LEMMA HeadThere ==
  ASSUME NEW msgs \in Seq(Messages), Orderly(msgs), NEW d \in Readers(msgs), NEW S, NEW B,
         Laid(msgs, S, B), NEW t \in Nat, t <= Len(S), Len(S) \in Nat, NEW i,
         Idle(msgs, S, B, d, t, i), d.upgrade # 0 <=> Switched(msgs, i - 1)
  PROVE  /\ Len(d.buf) >= 3 => HeadLength(d) \in 1 .. 3
         /\ HeadLength(d) > 0 /\ ParseFails(d, msgs) => Trails(msgs, i) \/ Continues(msgs, i)
<1>1. PICK L, buf, b, n : L = Len(d.buf) /\ buf = d.buf /\ b = B[i] /\ n = HeadLength(d)
  BY Zenon
<1>2. L \in Nat /\ buf \in Seq(Arriving(msgs)) /\ L = Len(buf) /\ d.upgrade \in {0, 2}
  BY <1>1, ReaderFields
<1>3. PICK p \in Int : At(S, d, t, p) /\ (p = b \/ (p + 1 = b /\ LateEnd(msgs, S, d, i - 1, b)))
  BY <1>1, Zenon DEF Idle
<1>4. d.consumed = 0 /\ i \in DOMAIN B
  BY Zenon DEF Idle
<1>5. b \in Nat
  BY <1>1, <1>4, LaidParts
<1>6. t = p + L /\ \A k \in 1 .. L : buf[k] = S[p + k]
  <2>1. p = (t - L) + 0 /\ \A k \in 1 .. L - 0 : buf[0 + k] = S[p + k]
    BY <1>1, <1>3, <1>4 DEF At, Ahead
  <2>2. L - 0 = L /\ \A k \in 1 .. L : 0 + k = k
    BY <1>2
  <2>3. t = p + L
    BY <1>2, <2>1
  <2>4. QED
    BY <2>1, <2>2, <2>3, Zenon
<1>7. n \in 0 .. L
  BY <1>1, HeadLengthInside
\* Whenever the stream goes on after position b, message i is there.
<1>8. ASSUME b < Len(S)
      PROVE  /\ i \in DOMAIN msgs /\ (msgs[i].kind = "frame" <=> d.upgrade # 0)
             /\ d.upgrade # 0 => S[b + 1].p = "fhdr" /\ S[b + 1].m = i
             /\ d.upgrade = 0 => S[b + 1].p = "line" /\ S[b + 2].p = "end"
  <2>1. i # Len(msgs) + 1
    BY <1>1, <1>5, <1>8, LaidParts
  <2>2. i \in DOMAIN msgs
    BY <1>4, <2>1, LaidParts
  <2>3. msgs[i].kind = "frame" <=> d.upgrade # 0
    BY <2>2, FramesWhenSwitched
  <2>4. MessageLaid(S, i, msgs[i], b, B[i + 1])
    BY <1>1, <2>2, LaidParts
  <2>5. QED
    BY <2>2, <2>3, <2>4, TokenFields DEF MessageLaid
<1>9. ASSUME L >= 3 PROVE n \in 1 .. 3
  <2>1. CASE d.upgrade # 0
    BY <1>1, <1>9, <2>1 DEF HeadLength, FrameValid
  <2>2. CASE d.upgrade = 0
    <3>1. b < Len(S) /\ b >= p /\ b <= p + 1
      BY <1>2, <1>3, <1>5, <1>6, <1>9
    <3>2. S[b + 2].p = "end"
      BY <1>8, <2>2, <3>1
    <3>3. PICK k : k = (b - p) + 2
      BY Zenon
    <3>4. k \in 1 .. L /\ k <= 3 /\ p + k = b + 2
      BY <1>2, <1>5, <1>9, <3>1, <3>3
    <3>5. buf[k].p = "end"
      BY <1>6, <3>2, <3>4
    <3>6. n = First(buf, "end")
      BY <1>1, <2>2, ValidRequestIs DEF HeadLength
    <3>7. First(buf, "end") > 0 /\ First(buf, "end") <= k
      BY <1>2, <3>4, <3>5, FirstIs
    <3>8. QED
      BY <1>7, <3>4, <3>6, <3>7
  <2>3. QED
    BY <2>1, <2>2
<1>10. ASSUME n > 0, ParseFails(d, msgs) PROVE Trails(msgs, i) \/ Continues(msgs, i)
  <2>1. L >= 1 /\ 1 \in 1 .. L /\ buf[1] = S[p + 1]
    <3>1. L >= 1 /\ 1 \in 1 .. L
      BY <1>2, <1>7, <1>10
    <3>2. QED
      BY <1>6, <3>1
  <2>2. CASE p = b
    <3>1. b < Len(S)
      BY <1>2, <1>5, <1>6, <2>1, <2>2
    <3>2. d.upgrade # 0
      BY <1>1, <1>8, <1>10, <2>1, <2>2, <3>1 DEF ParseFails
    <3>3. buf[1].p = "fhdr" /\ buf[1].m = i /\ msgs[i].kind = "frame"
      BY <1>8, <2>1, <2>2, <3>1, <3>2
    <3>4. msgs[i].op \notin Opcodes
      BY <1>1, <1>10, <3>2, <3>3 DEF ParseFails
    <3>5. QED
      BY <3>3, <3>4 DEF Continues
  <2>3. CASE p + 1 = b /\ LateEnd(msgs, S, d, i - 1, b)
    BY <2>3, Zenon DEF LateEnd, Trails
  <2>4. QED
    BY <1>3, <2>2, <2>3
<1>11. QED
  BY <1>1, <1>9, <1>10

\* What xs_conn_headerready leaves in errnum.
LEMMA HeaderReadyErrnum ==
  ASSUME NEW msgs, NEW c \in Readers(msgs), NEW net \in Nets(msgs), From(net, c.errnum)
  PROVE  LET h == HeaderReady(c, net)
         IN  From(net, h.c.errnum) \/ (h.c.errnum = "toolarge" /\ Len(h.c.buf) > MaxHeader)
<1>1. PICK d, f : d = BufResize(c) /\ f = FillHead(d, net)
  BY Zenon
<1>2. d \in Readers(msgs) /\ From(net, d.errnum)
  BY <1>1, BufResizeTyped, BufResizeErrnum
<1>3. f.c \in Readers(msgs) /\ From(net, f.c.errnum)
  <2>1. (HeadLength(d) > 0) \in BOOLEAN
    BY <1>2, HeadLengthInside
  <2>2. PICK ready : ready = (HeadLength(d) > 0) /\ ready \in BOOLEAN
    BY <2>1, Zenon
  <2>3. f = Fill(d, ready, net)
    BY <1>1, <2>2, Zenon DEF FillHead
  <2>4. /\ \A rdy \in BOOLEAN : Filled(Fill(d, rdy, net), net, msgs)
        /\ \A rdy : From(net, Fill(d, rdy, net).c.errnum)
    BY <1>2, FillTyped, FillFrom
  <2>5. Filled(f, net, msgs) /\ From(net, f.c.errnum)
    BY <2>2, <2>3, <2>4, Zenon
  <2>6. QED
    BY <2>5 DEF Filled
<1>4. PICK rlen, L, e : rlen = HeadLength(f.c) /\ L = Len(f.c.buf) /\ e = [f.c EXCEPT !.errnum = "toolarge"]
  BY Zenon
<1>5. rlen \in 0 .. L /\ L \in Nat /\ MaxHeader \in Nat
  BY <1>3, <1>4, HeadLengthInside, ReaderFields, BufAssumption
<1>6. e.errnum = "toolarge" /\ e.buf = f.c.buf
  BY <1>3, <1>4, ReaderFields DEF Shapes
<1>7. PICK h : h = HeaderReady(c, net)
  BY Zenon
<1>8. h.c = IF rlen > MaxHeader \/ L > MaxHeader THEN e ELSE f.c
  BY <1>1, <1>4, <1>7, Zenon DEF HeaderReady, HeadFound
<1>9. rlen > MaxHeader \/ L > MaxHeader => L > MaxHeader
  BY <1>5
<1>10. QED
  BY <1>3, <1>4, <1>6, <1>7, <1>8, <1>9

\* errnum after a call that is about message i: the socket, a head that is
\* there and short enough, or what comes before or instead of a message.
Caused(msgs, net, c, i) ==
  \/ From(net, c.errnum)
  \/ c.errnum = "toolarge" /\ HeadLength(c) \in 1 .. MaxHeader
  \/ c.errnum = "invalid" /\ (Trails(msgs, i) \/ Continues(msgs, i))

\* What the reader writes by itself.
Replies(r) == r.control # "none" => r.c.req.upgrade = 1 \/ r.c.req.opcode \in {9, 10}

Blamed(msgs, net, r, i) == Caused(msgs, net, r.c, i) /\ Agreed(msgs, r.c, i) /\ Replies(r)

\* A new request or frame that is read.
LEMMA CreateReqAgreed ==
  ASSUME NEW msgs \in Seq(Messages), NEW d \in Readers(msgs), NEW S, NEW B, Laid(msgs, S, B),
         NEW t \in Nat, t <= Len(S), Len(S) \in Nat, NEW i, Idle(msgs, S, B, d, t, i),
         HeadLength(d) > 0, ~ParseFails(d, msgs), d.upgrade # 0 <=> Switched(msgs, i - 1)
  PROVE  LET e == CreateReq(d, HeadLength(d), msgs)
         IN  /\ e.errnum = d.errnum /\ e.req.reqlen # 0
             /\ e.upgrade # 0 <=> Switched(msgs, i)
<1>1. PICK n, e : n = HeadLength(d) /\ e = CreateReq(d, n, msgs)
  BY Zenon
<1>2. /\ i \in DOMAIN msgs /\ n = 2 /\ d.buf[1].m = i
      /\ (msgs[i].kind = "frame" <=> d.upgrade # 0)
  BY <1>1, HeadAt
<1>3. e.req.reqlen # 0
  BY <1>1, CreateReqAt
<1>4. PICK q : q = IF d.upgrade = 0 THEN HttpParse(d, n, msgs) ELSE FrameParse(d, msgs)
  BY Zenon
<1>5. PICK h, k : h = (q.upgrade = 0 /\ q.contentlen = 0 /\ ~q.chunked) /\ k = d.consumed + n
  BY Zenon
<1>6. PICK r, up : r = [q EXCEPT !.header = h] /\ up = IF q.upgrade = 1 THEN 2 ELSE d.upgrade
  BY Zenon
<1>7. e = [d EXCEPT !.req = r, !.consumed = k, !.upgrade = up]
  BY <1>1, <1>4, <1>5, <1>6, Zenon DEF CreateReq, TakeReq
<1>8. e.errnum = d.errnum /\ e.upgrade = up
  BY <1>7, ReaderFields DEF Shapes
<1>9. up # 0 <=> d.upgrade # 0 \/ msgs[i].kind = "upgrade"
  <2>1. d.upgrade \in {0, 2}
    BY ReaderFields
  <2>2. CASE d.upgrade = 0
    <3>1. PICK u : u = IF msgs[i].kind = "upgrade" THEN 1 ELSE 0
      BY Zenon
    <3>2. q.upgrade = u
      BY <1>2, <1>4, <2>2, <3>1 DEF HttpParse, NoReq
    <3>3. QED
      BY <1>6, <2>2, <3>1, <3>2
  <2>3. CASE d.upgrade # 0
    <3>1. q.upgrade = d.upgrade
      BY <1>4, <2>3 DEF FrameParse, NoReq
    <3>2. QED
      BY <1>6, <2>1, <2>3, <3>1
  <2>4. QED
    BY <2>2, <2>3
<1>10. Switched(msgs, i) <=> Switched(msgs, i - 1) \/ msgs[i].kind = "upgrade"
  BY <1>2, SwitchedMore
<1>11. QED
  BY <1>1, <1>3, <1>8, <1>9, <1>10, Zenon

\* Looking for the head of message i.
LEMMA ReadHeadBlamed ==
  ASSUME MaxHeader >= 3, NEW msgs \in Seq(Messages), Orderly(msgs), NEW c \in Readers(msgs),
         NEW net \in Nets(msgs), NEW S, NEW B, Laid(msgs, S, B), Len(S) \in Nat, NEW t \in Nat,
         t + Len(net.data) <= Len(S), NetAt(S, net, t), c.req.reqlen = 0,
         NEW i, Idle(msgs, S, B, c, t, i), NEW s, c.errnum = "ok", Agreed(msgs, c, i)
  PROVE  Blamed(msgs, net, ReadHead(c, s, net, msgs), i)
<1>1. PICK h : h = HeaderReady(c, net)
  BY Zenon
<1>2. Filled(h, net, msgs)
  BY <1>1, HeaderReadyTyped
<1>3. h.c \in Readers(msgs) /\ h.n \in Int /\ h.taken \in Nat /\ t + h.taken <= Len(S)
      /\ t + h.taken \in Nat
  BY <1>2 DEF Filled, Nets
<1>4. c.consumed = 0
  BY Zenon DEF Idle
<1>5. /\ \A p : At(S, c, t, p) => At(S, h.c, t + h.taken, p)
      /\ h.c.consumed = 0 /\ h.c.req = c.req /\ h.c.upgrade = c.upgrade
      /\ h.n > 0 => h.n = HeadLength(h.c)
  <2>1. ASSUME NEW p, At(S, c, t, p)
        PROVE  /\ At(S, h.c, t + h.taken, p) /\ h.c.consumed = 0
               /\ h.c.req = c.req /\ h.c.upgrade = c.upgrade
               /\ h.n > 0 => h.n = HeadLength(h.c)
    BY <1>1, <1>4, <2>1, HeaderReadyAt
  <2>2. \E p : At(S, c, t, p)
    BY Zenon DEF Idle
  <2>3. QED
    BY <2>1, <2>2
<1>6. PICK d : d = [h.c EXCEPT !.req = NoReq]
  BY Zenon
<1>7. /\ d \in Readers(msgs) /\ d.buf = h.c.buf /\ d.consumed = 0 /\ d.req = NoReq
      /\ d.upgrade = c.upgrade /\ d.errnum = h.c.errnum
  <2>1. NoReq \in Requests(msgs)
    BY DEF NoReq, Requests
  <2>2. d \in Readers(msgs)
    BY <1>3, <1>6, <2>1, SetReq
  <2>3. /\ d.buf = h.c.buf /\ d.consumed = h.c.consumed /\ d.req = NoReq /\ d.upgrade = h.c.upgrade
        /\ d.errnum = h.c.errnum
    BY <1>3, <1>6, ReaderFields DEF Shapes
  <2>4. QED
    BY <1>5, <2>2, <2>3
<1>8. PICK e : e = CreateReq(d, h.n, msgs)
  BY Zenon
<1>9. PICK r : r = ReadHead(c, s, net, msgs)
  BY Zenon
<1>10. r = IF h.n <= 0 \/ h.c.errnum # "ok"
             THEN Returned(h.c, IF h.n # 0 THEN h.n ELSE RetValue(s, h.c), FALSE, h)
           ELSE IF e.errnum # "ok" THEN Returned(e, -1, FALSE, h)
           ELSE [Returned(e, RetValue(s, e), e.req.header \/ Buffered(e), h)
                   EXCEPT !.control = ControlReply(e)]
  BY <1>1, <1>6, <1>8, <1>9, Zenon DEF ReadHead, NewRequest
<1>11. PICK t2 : t2 = t + h.taken
  BY Zenon
<1>12. Idle(msgs, S, B, d, t2, i)
  <2>1. \A p \in Int : At(S, c, t, p) => At(S, h.c, t2, p)
    BY <1>5, <1>11
  <2>2. \A p \in Int : At(S, c, t, p) => At(S, d, t2, p)
    BY <1>5, <1>7, <2>1, SamePlace
  <2>3. QED
    BY <1>7, <2>2, IdleKept
<1>13. d.upgrade # 0 <=> Switched(msgs, i - 1)
  BY <1>7 DEF Agreed
<1>14. /\ Len(d.buf) >= 3 => HeadLength(d) \in 1 .. 3
       /\ HeadLength(d) > 0 /\ ParseFails(d, msgs) => Trails(msgs, i) \/ Continues(msgs, i)
  BY <1>3, <1>7, <1>11, <1>12, <1>13, HeadThere
<1>15. HeadLength(d) = HeadLength(h.c)
  BY <1>5, <1>7, Zenon DEF HeadLength
<1>16. From(net, h.c.errnum) \/ (h.c.errnum = "toolarge" /\ HeadLength(h.c) \in 1 .. MaxHeader)
  <2>1. From(net, h.c.errnum) \/ (h.c.errnum = "toolarge" /\ Len(h.c.buf) > MaxHeader)
    BY <1>1, HeaderReadyErrnum DEF From
  <2>2. Len(h.c.buf) \in Nat /\ MaxHeader \in Nat
    BY <1>3, ReaderFields, BufAssumption
  <2>3. QED
    BY <1>7, <1>14, <1>15, <2>1, <2>2
<1>17. CASE h.n <= 0 \/ h.c.errnum # "ok"
  <2>1. r.c = h.c /\ r.control = "none"
    BY <1>10, <1>17, Zenon DEF Returned
  <2>2. Caused(msgs, net, r.c, i)
    BY <1>16, <2>1, Zenon DEF Caused
  <2>3. Agreed(msgs, r.c, i)
    BY <1>5, <2>1, Zenon DEF Agreed
  <2>4. QED
    BY <1>9, <2>1, <2>2, <2>3 DEF Blamed, Replies
<1>18. CASE ~(h.n <= 0 \/ h.c.errnum # "ok")
  <2>0. h.n > 0 /\ h.n = HeadLength(d) /\ HeadLength(d) > 0
    BY <1>3, <1>5, <1>15, <1>18
  <2>1. CASE ParseFails(d, msgs)
    <3>1. e = [d EXCEPT !.errnum = "invalid"]
      BY <1>8, <2>1, Zenon DEF CreateReq
    <3>2. e.errnum = "invalid" /\ e.req = NoReq /\ e.upgrade = c.upgrade
      BY <1>7, <3>1, ReaderFields DEF Shapes
    <3>3. r.c = e /\ r.control = "none"
      BY <1>10, <1>18, <3>2 DEF Returned
    <3>4. Caused(msgs, net, r.c, i)
      BY <1>14, <2>0, <2>1, <3>2, <3>3, Zenon DEF Caused
    <3>5. Agreed(msgs, r.c, i)
      <4>1. e.req.reqlen = 0
        BY <3>2 DEF NoReq
      <4>2. QED
        BY <3>2, <3>3, <4>1, Zenon DEF Agreed
    <3>6. QED
      BY <1>9, <3>3, <3>4, <3>5 DEF Blamed, Replies
  <2>2. CASE ~ParseFails(d, msgs)
    <3>1. e.errnum = d.errnum /\ e.req.reqlen # 0 /\ (e.upgrade # 0 <=> Switched(msgs, i))
      <4>1. t2 \in Nat /\ t2 <= Len(S)
        BY <1>3, <1>11
      <4>2. e = CreateReq(d, HeadLength(d), msgs)
        BY <1>8, <2>0
      <4>3. QED
        BY <1>7, <1>12, <1>13, <2>0, <2>2, <4>1, <4>2, CreateReqAgreed
    <3>2. e.errnum = "ok"
      BY <1>7, <1>18, <3>1
    <3>3. r.c = e /\ r.control = ControlReply(e)
      <4>1. PICK g : g = Returned(e, RetValue(s, e), e.req.header \/ Buffered(e), h)
        BY Zenon
      <4>2. r = [g EXCEPT !.control = ControlReply(e)]
        BY <1>10, <1>18, <3>2, <4>1, Zenon
      <4>3. QED
        BY <4>1, <4>2 DEF Returned
    <3>4. Caused(msgs, net, r.c, i)
      BY <3>2, <3>3, Zenon DEF Caused, From
    <3>5. Agreed(msgs, r.c, i)
      BY <3>1, <3>3, Zenon DEF Agreed
    <3>6. Replies(r)
      BY <3>3 DEF Replies, ControlReply
    <3>7. QED
      BY <1>9, <3>4, <3>5, <3>6, Zenon DEF Blamed
  <2>3. QED
    BY <2>1, <2>2
<1>19. QED
  BY <1>17, <1>18

\* Reading on in a body leaves the reasons as they are.
LEMMA QuietBlamed ==
  ASSUME NEW msgs, NEW net, NEW c, NEW r, NEW i, Quiet(c, r, net), Agreed(msgs, c, i)
  PROVE  Blamed(msgs, net, r, i)
<1>1. Caused(msgs, net, r.c, i) /\ Replies(r)
  BY Zenon DEF Quiet, Caused, Replies
<1>2. Agreed(msgs, r.c, i)
  BY Zenon DEF Quiet, Agreed
<1>3. QED
  BY <1>1, <1>2, Zenon DEF Blamed

\* One call of xs_conn_httpread.
LEMMA HttpReadBlamed ==
  ASSUME MaxHeader >= 3, NEW msgs \in Seq(Messages), Orderly(msgs), NEW old \in Readers(msgs),
         NEW len, NEW net \in Nets(msgs), NEW S, NEW B, Laid(msgs, S, B), Len(S) \in Nat,
         NEW t \in Nat, t + Len(net.data) <= Len(S), NetAt(S, net, t), NEW i, NEW b,
         Placed(msgs, S, B, old, t, i, b), Agreed(msgs, old, i)
  PROVE  Blamed(msgs, net, HttpRead(old, len, net, msgs), Turn(old, i))
<1> DEFINE c == [old EXCEPT !.errnum = "ok"]
           s == ConnState(c)
           fresh == [Shift(c) EXCEPT !.req.reqlen = 0]
           told == [c EXCEPT !.req.header = FALSE]
           r == HttpRead(old, len, net, msgs)
<1>1. r = IF s = "complete" THEN ReadHead(fresh, "last", net, msgs)
          ELSE IF s = "header" /\ c.req.header THEN Returned(told, 0, Buffered(c), NotAsked)
          ELSE IF c.req.reqlen = 0 THEN ReadHead(c, s, net, msgs)
          ELSE IF c.req.chunked THEN ReadChunked(c, s, len, net)
          ELSE ReadBody(c, len, net, NotAsked)
  BY Zenon DEF HttpRead, ReadOn
<1>2. c \in Readers(msgs)
  <2>1. "ok" \in Errors
    BY DEF Errors
  <2>2. QED
    BY <2>1, SetErrnum
<1>3. /\ c.buf = old.buf /\ c.consumed = old.consumed /\ c.upgrade = old.upgrade
      /\ c.req = old.req /\ c.errnum = "ok"
  BY ReaderFields DEF Shapes
<1> HIDE DEF c
<1>4. s = HttpState(c.req)
  BY <1>3 DEF ConnState
<1>5. fresh = [Shift(c) EXCEPT !.req.reqlen = 0]
  BY Zenon
<1>6. told = [c EXCEPT !.req.header = FALSE]
  BY Zenon
<1> HIDE DEF s, fresh, told, r
<1>7. Placed(msgs, S, B, c, t, i, b)
  <2>1. SameReader(old, c) /\ (c.req.header => old.req.header)
    BY <1>3, Zenon DEF SameReader
  <2>2. QED
    BY <2>1, SamePlaced
<1>8. Agreed(msgs, c, i) /\ From(net, c.errnum)
  BY <1>3, Zenon DEF Agreed, From
<1>9. PICK recv : recv = NotAsked
  BY Zenon
<1>10. CASE s = "complete"
  <2>1. Turn(old, i) = i + 1
    BY <1>3, <1>4, <1>10, Zenon DEF Turn
  <2>2. c.req.reqlen # 0
    BY <1>4, <1>10 DEF HttpState
  <2>3. Reading(msgs, S, B, c, t, i, b)
    BY <1>7, <2>2, Zenon DEF Placed
  <2>4. fresh.req.reqlen = 0 /\ Idle(msgs, S, B, fresh, t, i + 1)
    BY <1>2, <1>4, <1>5, <1>10, <2>2, <2>3, FreshIdle
  <2>5. PICK x, g : x = Shift(c) /\ g = [x.req EXCEPT !.reqlen = 0]
    BY Zenon
  <2>6. x \in Readers(msgs) /\ x.req = c.req /\ x.upgrade = c.upgrade /\ x.errnum = "ok"
    <3>1. x \in Readers(msgs) /\ x.req = c.req /\ x.upgrade = c.upgrade
      BY <1>2, <2>5, ShiftTyped, ShiftAt
    <3>2. x.errnum = c.errnum
      BY <1>2, <2>5, ReaderFields DEF Shift, Shapes
    <3>3. QED
      BY <1>3, <3>1, <3>2
  <2>7. fresh = [x EXCEPT !.req = g]
    BY <1>5, <2>5, Zenon
  <2>8. fresh \in Readers(msgs) /\ fresh.upgrade = c.upgrade /\ fresh.errnum = "ok"
    <3>1. g \in Requests(msgs)
      <4>1. x.req \in Requests(msgs) /\ x.req \in RequestFields
        BY <2>6, ReaderFields, RequestTypes
      <4>2. g \in RequestFields /\ g.reqlen = 0
        BY <2>5, <4>1 DEF RequestFields
      <4>3. QED
        BY <4>2, IsRequest
    <3>2. fresh \in Readers(msgs)
      BY <2>6, <2>7, <3>1, SetReq
    <3>3. fresh.upgrade = x.upgrade /\ fresh.errnum = x.errnum
      BY <2>6, <2>7, ReaderFields DEF Shapes
    <3>4. QED
      BY <2>6, <3>2, <3>3
  <2>9. PICK j, any : j = i + 1 /\ any = "last"
    BY Zenon
  <2>10. Agreed(msgs, fresh, j)
    <3>1. j - 1 = i
      BY <2>3, <2>9, LaidParts DEF Reading
    <3>2. c.upgrade # 0 <=> Switched(msgs, i)
      BY <1>8, <2>2, Zenon DEF Agreed
    <3>3. QED
      BY <2>4, <2>8, <3>1, <3>2, Zenon DEF Agreed
  <2>11. Blamed(msgs, net, ReadHead(fresh, any, net, msgs), j)
    BY <2>4, <2>8, <2>9, <2>10, ReadHeadBlamed
  <2>12. r = ReadHead(fresh, any, net, msgs)
    BY <1>1, <1>10, <2>9
  <2>13. QED
    BY <2>1, <2>9, <2>11, <2>12 DEF r
<1>11. CASE s # "complete"
  <2>1. Turn(old, i) = i
    BY <1>3, <1>4, <1>11, Zenon DEF Turn
  <2>2. Blamed(msgs, net, r, i)
    <3>1. CASE s = "header" /\ c.req.header
      <4>1. r.c = told /\ r.control = "none"
        BY <1>1, <1>11, <3>1, Zenon DEF Returned
      <4>2. PICK g : g = [c.req EXCEPT !.header = FALSE]
        BY Zenon
      <4>3. told = [c EXCEPT !.req = g]
        BY <1>6, <4>2, Zenon
      <4>4. g.reqlen = c.req.reqlen
        BY <1>2, <4>2, ReaderFields, RequestTypes DEF RequestFields
      <4>5. told.upgrade = c.upgrade /\ told.req = g /\ told.errnum = c.errnum
        BY <1>2, <4>3, ReaderFields DEF Shapes
      <4>6. Quiet(c, r, net)
        BY <1>8, <4>1, <4>4, <4>5, Zenon DEF Quiet
      <4>7. QED
        BY <1>8, <4>6, QuietBlamed
    <3>2. CASE ~(s = "header" /\ c.req.header) /\ c.req.reqlen = 0
      <4>1. r = ReadHead(c, s, net, msgs)
        BY <1>1, <1>11, <3>2
      <4>2. Idle(msgs, S, B, c, t, i)
        BY <1>7, <3>2, Zenon DEF Placed
      <4>3. Blamed(msgs, net, ReadHead(c, s, net, msgs), i)
        BY <1>2, <1>3, <1>8, <3>2, <4>2, ReadHeadBlamed
      <4>4. QED
        BY <4>1, <4>3
    <3>3. CASE ~(s = "header" /\ c.req.header) /\ c.req.reqlen # 0
      <4>1. CASE c.req.chunked
        <5>1. r = ReadChunked(c, s, len, net)
          BY <1>1, <1>11, <3>3, <4>1
        <5>2. Quiet(c, ReadChunked(c, s, len, net), net)
          BY <1>2, <1>8, ReadChunkedQuiet
        <5>3. QED
          BY <1>8, <5>1, <5>2, QuietBlamed
      <4>2. CASE ~c.req.chunked
        <5>1. r = ReadBody(c, len, net, recv)
          BY <1>1, <1>9, <1>11, <3>3, <4>2, Zenon
        <5>2. Quiet(c, ReadBody(c, len, net, recv), net)
          BY <1>2, <1>8, ReadBodyQuiet
        <5>3. QED
          BY <1>8, <5>1, <5>2, QuietBlamed
      <4>3. QED
        BY <4>1, <4>2
    <3>4. QED
      BY <3>1, <3>2, <3>3
  <2>3. QED
    BY <2>1, <2>2 DEF r
<1>12. QED
  BY <1>10, <1>11

\* A write blames the socket only when the connection is reset.
LEMMA SendBlames ==
  ASSUME NEW w \in Writer, NEW data, NEW lost, NEW x \in SendOutcomes(w, data, lost)
  PROVE  x.err = "io" => lost \/ w.err = "io"
<1> DEFINE sent(n) == [w EXCEPT !.wire = @ \o Before(data, n), !.ret = n,
                                !.err = SendError(@, n, Len(data), lost)]
<1>1. PICK n :
        x = IF n = Len(data) THEN sent(n)
            ELSE IF Fits(w, After(data, n))
              THEN [sent(n) EXCEPT !.cache = @ \o After(data, n), !.ret = Len(data)]
            ELSE [sent(n) EXCEPT !.intact = FALSE]
  BY Zenon DEF SendOutcomes
<1>2. PICK a, e, s : /\ a = w.wire \o Before(data, n) /\ e = SendError(w.err, n, Len(data), lost)
                     /\ s = sent(n)
  BY Zenon
<1>3. s = [wire |-> a, cache |-> w.cache, blocked |-> w.blocked, err |-> e, ret |-> n,
           intact |-> w.intact]
  <2>1. s = [w EXCEPT !.wire = a, !.ret = n, !.err = e]
    BY <1>2, Zenon
  <2>2. PICK y : y = [w EXCEPT !.wire = a]
    BY Zenon
  <2>3. PICK z : z = [y EXCEPT !.ret = n]
    BY Zenon
  <2>4. s = [z EXCEPT !.err = e]
    BY <2>1, <2>2, <2>3, Zenon
  <2>5. y = [wire |-> a, cache |-> w.cache, blocked |-> w.blocked, err |-> w.err, ret |-> w.ret,
             intact |-> w.intact]
    BY <2>2, WriterFields
  <2>6. z = [wire |-> a, cache |-> w.cache, blocked |-> w.blocked, err |-> w.err, ret |-> n,
             intact |-> w.intact]
    BY <2>3, <2>5
  <2>7. QED
    BY <2>4, <2>6
<1> HIDE DEF sent
<1>4. x.err = e
  <2>1. CASE n = Len(data)
    BY <1>1, <1>2, <1>3, <2>1
  <2>2. CASE n # Len(data) /\ Fits(w, After(data, n))
    <3>1. PICK b, r : b = w.cache \o After(data, n) /\ r = Len(data)
      BY Zenon
    <3>2. s.cache = w.cache
      BY <1>3
    <3>3. x = [s EXCEPT !.cache = b, !.ret = r]
      BY <1>1, <1>2, <2>2, <3>1, <3>2, Zenon
    <3>4. PICK y : y = [s EXCEPT !.cache = b]
      BY Zenon
    <3>5. x = [y EXCEPT !.ret = r]
      BY <3>3, <3>4, Zenon
    <3>6. y = [wire |-> a, cache |-> b, blocked |-> w.blocked, err |-> e, ret |-> n,
               intact |-> w.intact]
      BY <1>3, <3>4
    <3>7. QED
      BY <3>5, <3>6
  <2>3. CASE n # Len(data) /\ ~Fits(w, After(data, n))
    BY <1>1, <1>2, <1>3, <2>3
  <2>4. QED
    BY <2>1, <2>2, <2>3
<1>5. QED
  BY <1>2, <1>4 DEF SendError

\* Nor does what goes into the cache.
LEMMA AddBlames ==
  ASSUME NEW w \in Writer, NEW data
  PROVE  CacheAdd(w, data).err = "io" => w.err = "io"
<1>1. PICK b, r, e : b = w.cache \o data /\ r = Len(data) /\ e = IF w.err = "ok" THEN "busy" ELSE w.err
  BY Zenon
<1>2. PICK y : y = [w EXCEPT !.cache = b]
  BY Zenon
<1>3. PICK z : z = [y EXCEPT !.ret = r]
  BY Zenon
<1>4. CacheAdd(w, data) = [z EXCEPT !.err = e]
  <2>1. CacheAdd(w, data) = [w EXCEPT !.cache = b, !.ret = r, !.err = e]
    BY <1>1, Zenon DEF CacheAdd
  <2>2. QED
    BY <1>2, <1>3, <2>1, Zenon
<1>5. y = [wire |-> w.wire, cache |-> b, blocked |-> w.blocked, err |-> w.err, ret |-> w.ret,
           intact |-> w.intact]
  BY <1>2, WriterFields
<1>6. CacheAdd(w, data).err = e
  BY <1>3, <1>4, <1>5
<1>7. QED
  BY <1>1, <1>6

\* Nor the sending of the cache.
LEMMA PurgeBlames ==
  ASSUME NEW w \in Writer, NEW lost, NEW p \in PurgeOutcomes(w, lost)
  PROVE  p.err = "io" => lost \/ w.err = "io"
<1>1. CASE w.cache = <<>>
  BY <1>1 DEF PurgeOutcomes
<1>2. CASE w.cache # <<>>
  <2>1. PICK n : p = [w EXCEPT !.wire = @ \o Before(w.cache, n), !.cache = After(@, n),
                               !.blocked = @ /\ n < Len(w.cache),
                               !.err = SendError("ok", n, Len(w.cache), lost)]
    BY <1>2, Zenon DEF PurgeOutcomes
  <2>2. PICK a, b, k, e : /\ a = w.wire \o Before(w.cache, n) /\ b = After(w.cache, n)
                          /\ k = (w.blocked /\ n < Len(w.cache))
                          /\ e = SendError("ok", n, Len(w.cache), lost)
    BY Zenon
  <2>3. p = [w EXCEPT !.wire = a, !.cache = b, !.blocked = k, !.err = e]
    BY <2>1, <2>2, Zenon
  <2>4. PICK x, y, z : x = [w EXCEPT !.wire = a] /\ y = [x EXCEPT !.cache = b] /\ z = [y EXCEPT !.blocked = k]
    BY Zenon
  <2>5. p = [z EXCEPT !.err = e]
    BY <2>3, <2>4, Zenon
  <2>6. x = [wire |-> a, cache |-> w.cache, blocked |-> w.blocked, err |-> w.err, ret |-> w.ret,
             intact |-> w.intact]
    BY <2>4, WriterFields
  <2>7. y = [wire |-> a, cache |-> b, blocked |-> w.blocked, err |-> w.err, ret |-> w.ret,
             intact |-> w.intact]
    BY <2>4, <2>6
  <2>8. p.err = e
    BY <2>4, <2>5, <2>7
  <2>9. QED
    BY <2>2, <2>8 DEF SendError
<1>3. QED
  BY <1>1, <1>2

\* Nor data that is kept, or sent past a full cache.
LEMMA KeepBlames ==
  ASSUME NEW w \in Writer, NEW data, NEW lost, NEW x \in KeepOutcomes(w, data, lost)
  PROVE  x.err = "io" => lost \/ w.err = "io"
<1>1. CASE Fits(w, data)
  <2>1. x = CacheAdd(w, data)
    BY <1>1 DEF KeepOutcomes
  <2>2. QED
    BY <2>1, AddBlames
<1>2. CASE ~Fits(w, data)
  <2>1. PICK y : y = [w EXCEPT !.intact = FALSE]
    BY Zenon
  <2>2. PICK v : v = [y EXCEPT !.err = "full"]
    BY Zenon
  <2>3. v = [w EXCEPT !.intact = FALSE, !.err = "full"]
    BY <2>1, <2>2, Zenon
  <2>4. x \in SendOutcomes(v, data, lost)
    <3>1. x \in SendOutcomes([w EXCEPT !.intact = FALSE, !.err = "full"], data, lost)
      BY <1>2 DEF KeepOutcomes
    <3>2. QED
      BY <2>3, <3>1, Zenon
  <2>5. y = [wire |-> w.wire, cache |-> w.cache, blocked |-> w.blocked, err |-> w.err,
             ret |-> w.ret, intact |-> FALSE]
    <3>1. w = [wire |-> w.wire, cache |-> w.cache, blocked |-> w.blocked, err |-> w.err,
               ret |-> w.ret, intact |-> w.intact]
      BY WriterFields
    <3>2. QED
      BY <2>1, <3>1
  <2>6. v = [wire |-> w.wire, cache |-> w.cache, blocked |-> w.blocked, err |-> "full",
             ret |-> w.ret, intact |-> FALSE]
    BY <2>2, <2>5
  <2>7. v \in Writer /\ v.err = "full"
    <3>1. FALSE \in BOOLEAN /\ "full" \in {"ok", "busy", "full", "io"}
      OBVIOUS
    <3>2. QED
      BY <2>6, <3>1, WriterFields, IsWriter
  <2>8. QED
    BY <2>4, <2>7, SendBlames
<1>3. QED
  BY <1>1, <1>2

\* xs_conn_write_.
LEMMA WriteBlames ==
  ASSUME NEW old \in Writer, NEW data, NEW lost \in BOOLEAN, NEW x \in WriteOutcomes(old, data, lost)
  PROVE  x.err = "io" => lost
<1>1. PICK w : w = [old EXCEPT !.err = "ok", !.ret = 0]
  BY Zenon
<1>2. w \in Writer /\ w.err = "ok"
  BY <1>1, Reset
<1>3. x \in WriteOutcomes(old, data, lost)
  OBVIOUS
<1>4. \/ x \in SendOutcomes(w, data, lost)
      \/ x = CacheAdd(w, data)
      \/ x \in KeepOutcomes(w, data, lost)
      \/ \E p \in PurgeOutcomes(w, lost) : x \in KeepOutcomes(p, data, lost)
      \/ \E p \in PurgeOutcomes(w, lost) : x \in SendOutcomes(p, data, lost)
  BY <1>1, <1>3, WriteWays, Zenon
<1>5. ASSUME NEW p \in PurgeOutcomes(w, lost)
      PROVE  p \in Writer /\ (p.err = "io" => lost)
  <2>1. Moves(w, p)
    BY <1>2, PurgeMoves
  <2>2. p.err = "io" => lost \/ w.err = "io"
    BY <1>2, PurgeBlames
  <2>3. QED
    BY <1>2, <2>1, <2>2 DEF Moves
<1>6. \A p \in Writer : (p.err = "io" => lost) /\ x \in KeepOutcomes(p, data, lost) => (x.err = "io" => lost)
  BY KeepBlames
<1>7. \A p \in Writer : (p.err = "io" => lost) /\ x \in SendOutcomes(p, data, lost) => (x.err = "io" => lost)
  BY SendBlames
<1>8. x = CacheAdd(w, data) => (x.err = "io" => lost)
  BY <1>2, AddBlames
<1>9. w \in Writer /\ (w.err = "io" => lost)
  BY <1>2
<1>10. QED
  BY <1>4, <1>5, <1>6, <1>7, <1>8, <1>9, Zenon

-----------------------------------------------------------------------------
(***************************************************************************)
(* Nobody is cut off.                                                      *)
(***************************************************************************)
Excused == fin \/ gone \/ BadFrame \/ SplitTrailer \/ ControlCached \/ Crowded

\* The protocol is what the messages read so far have made it; an error that
\* is about to close the connection, and a close, have one of the reasons.
CutInv ==
  /\ ~close => Agreed(script, conn, Index)
  /\ pc = "control" => conn.req.upgrade = 1 \/ conn.req.opcode \in {9, 10}
  /\ Handling /\ conn.errnum # "ok" => Excused
  /\ close => Excused \/ AskedToClose
  /\ close /\ pc = "respond" => todo = <<>>
  /\ pc = "closed" => close

\* At the start nothing has been read.
LEMMA CutInit ==
  ASSUME Init, ConnInv
  PROVE  CutInv
<1>1. script \in Seq(Messages)
  BY NetTyped DEF ConnInv
<1>2. /\ conn.upgrade = 0 /\ conn.req = NoReq /\ close = FALSE /\ delivered = <<>> /\ pc = "poll"
  BY DEF Init, NewReader
<1>3. conn.req.reqlen = 0 /\ HttpState(conn.req) = "pending"
  BY <1>2 DEF NoReq, HttpState
<1>4. Index - 1 = 0
  <2>1. Index = Len(delivered) + 1
    BY <1>3 DEF Index
  <2>2. QED
    BY <1>2, <2>1
<1>5. ~Switched(script, 0)
  <2>1. \A j \in DOMAIN script : ~(j <= 0)
    BY <1>1
  <2>2. QED
    BY <2>1, Zenon DEF Switched
<1>6. Agreed(script, conn, Index)
  <2>1. PICK i, c, s : i = Index /\ c = conn /\ s = script
    BY Zenon
  <2>2. i - 1 = 0 /\ c.upgrade = 0 /\ c.req.reqlen = 0 /\ ~Switched(s, 0)
    BY <1>2, <1>3, <1>4, <1>5, <2>1
  <2>3. Agreed(s, c, i)
    BY <2>2 DEF Agreed
  <2>4. QED
    BY <2>1, <2>3
<1>7. QED
  BY <1>2, <1>6 DEF CutInv, Handling

\* A step that keeps the reader where it is keeps which message it is about.
LEMMA AgreedStays ==
  ASSUME SameReader(conn, conn'), conn'.req.header = conn.req.header,
         UNCHANGED <<script, delivered>>, Handling' <=> Handling, Agreed(script, conn, Index)
  PROVE  Agreed(script, conn, Index)'
<1>1. HttpState(conn'.req) = HttpState(conn.req)
  BY Zenon DEF SameReader, HttpState
<1>2. Index' = Index
  BY <1>1 DEF Index
<1>3. PICK c, d, i : c = conn /\ d = conn' /\ i = Index
  BY Zenon
<1>4. d.upgrade = c.upgrade /\ d.req.reqlen = c.req.reqlen /\ Agreed(script, c, i)
  BY <1>3 DEF SameReader
<1>5. Agreed(script, d, i)
  BY <1>4, Zenon DEF Agreed
<1>6. Agreed(script, conn, Index)' <=> Agreed(script', conn', Index')
  OBVIOUS
<1>7. QED
  BY <1>2, <1>3, <1>5, <1>6

\* A reason stays one as long as the reader stays as it is.
LEMMA ExcusedStays ==
  ASSUME UNCHANGED <<script, conn, last, delivered>>, fin => fin', gone => gone'
  PROVE  (Excused => Excused') /\ (AskedToClose => AskedToClose')
<1>1. BadFrame' <=> BadFrame
  BY DEF BadFrame
<1>2. SplitTrailer' <=> SplitTrailer
  BY DEF SplitTrailer, AfterChunked
<1>3. ControlCached' <=> ControlCached
  BY DEF ControlCached
<1>4. Crowded' <=> Crowded
  BY DEF Crowded
<1>5. AskedToClose' <=> AskedToClose
  BY DEF AskedToClose
<1>6. QED
  BY <1>1, <1>2, <1>3, <1>4, <1>5, Zenon DEF Excused

\* The steps of the peer and the poll loop.
LEMMA CutMoves ==
  ASSUME ConnInv, PlaceInv, CutInv,
         UNCHANGED vars \/ PeerCloses \/ PeerResets \/ (\E k \in 1 .. Len(Stream) : Arrive(k))
         \/ PollRead \/ PollError \/ EndTurn \/ End
  PROVE  CutInv'
<1>1. /\ SameReader(conn, conn') /\ conn'.req.header = conn.req.header
      /\ Handling' <=> Handling
  <2>1. ~ReadCall /\ ~Dispatch
    <3>1. PollRead \/ PollError \/ EndTurn \/ End => pc \in {"poll", "respond", "end"}
      BY DEF PollRead, PollError, EndTurn, End
    <3>2. UNCHANGED vars \/ PeerCloses \/ PeerResets \/ (\E k \in 1 .. Len(Stream) : Arrive(k))
            => pc' = pc
      BY DEF vars, PeerCloses, PeerResets, Arrive
    <3>3. ReadCall => pc = "read" /\ pc' # pc
      BY DEF ReadCall
    <3>4. Dispatch => pc = "dispatch" /\ pc' # pc
      BY DEF Dispatch
    <3>5. QED
      BY <3>1, <3>2, <3>3, <3>4
  <2>2. [Next]_vars
    BY DEF Next, Thread
  <2>3. QED
    BY <2>1, <2>2, ReaderStays
<1>2. UNCHANGED <<script, conn, last, delivered>> /\ (fin => fin') /\ (gone => gone')
  BY DEF vars, PeerCloses, PeerResets, Arrive, PollRead, PollError, EndTurn, End, peer
<1>3. (Excused => Excused') /\ (AskedToClose => AskedToClose') /\ (gone => Excused')
  <2>1. gone => Excused
    BY DEF Excused
  <2>2. QED
    BY <1>2, <2>1, ExcusedStays
<1>4. ~close => Agreed(script, conn, Index)'
  BY <1>1, <1>2, AgreedStays DEF CutInv
<1>5. CASE UNCHANGED vars \/ PeerCloses \/ PeerResets \/ \E k \in 1 .. Len(Stream) : Arrive(k)
  <2>1. UNCHANGED <<pc, close, todo>>
    BY <1>5 DEF vars, PeerCloses, PeerResets, Arrive
  <2>2. QED
    BY <1>2, <1>3, <1>4, <2>1 DEF CutInv, Handling
<1>6. CASE PollRead
  <2>1. pc = "poll" /\ pc' = "read" /\ close' = close
    BY <1>6 DEF PollRead
  <2>2. QED
    BY <1>3, <1>4, <2>1 DEF CutInv, Handling
<1>7. CASE PollError
  <2>1. gone /\ pc' = "end" /\ close' = TRUE
    BY <1>7 DEF PollError
  <2>2. QED
    BY <1>3, <2>1 DEF CutInv, Handling
<1>8. CASE EndTurn
  <2>1. /\ pc' \in {"read", "end"} /\ close' = (close \/ AskedToClose)
    BY <1>8 DEF EndTurn, AskedToClose
  <2>2. ~close' => ~close
    BY <2>1
  <2>3. close' => Excused' \/ AskedToClose'
    BY <1>3, <2>1 DEF CutInv
  <2>4. QED
    BY <1>4, <2>1, <2>2, <2>3 DEF CutInv, Handling
<1>9. CASE End
  <2>1. pc' = (IF close THEN "closed" ELSE "poll") /\ close' = close
    BY <1>9 DEF End
  <2>2. QED
    BY <1>3, <1>4, <2>1 DEF CutInv, Handling
<1>10. QED
  BY <1>5, <1>6, <1>7, <1>8, <1>9

\* The writes of the poll loop and of the handler: the connection is not being
\* closed.
LEMMA CutWrites ==
  ASSUME ConnInv, PlaceInv, CutInv, PollWrite \/ Respond \/ WriteFile
  PROVE  CutInv'
<1>1. pc' = pc /\ close' = close /\ pc \in {"poll", "respond"} /\ (pc = "respond" => todo # <<>>)
  BY DEF PollWrite, Respond, WriteFile, WriteNext
<1>2. ~close
  BY <1>1 DEF PlaceInv, CutInv
<1>3. /\ SameReader(conn, conn') /\ conn'.req.header = conn.req.header
      /\ UNCHANGED <<script, delivered>> /\ (Handling' <=> Handling)
  <2>1. ~ReadCall /\ ~Dispatch
    BY <1>1 DEF ReadCall, Dispatch
  <2>2. [Next]_vars
    BY DEF Next, Thread
  <2>3. QED
    BY <2>1, <2>2, ReaderStays
<1>4. Agreed(script, conn, Index)'
  BY <1>2, <1>3, AgreedStays DEF CutInv
<1>5. QED
  BY <1>1, <1>2, <1>4 DEF CutInv, Handling

\* What the reader writes by itself: the error that may close the connection
\* comes from a reset or from a reply that is cached.
LEMMA CutControl ==
  ASSUME ConnInv, PlaceInv, CutInv, Control
  PROVE  CutInv'
<1>1. /\ pc = "control" /\ pc' \in {"control", "dispatch"} /\ UNCHANGED <<script, gone, close, delivered>>
      /\ WriteNext
  BY DEF Control, peer
<1>2. ~close
  BY <1>1 DEF PlaceInv
<1>3. /\ SameReader(conn, conn') /\ conn'.req.header = conn.req.header /\ (Handling' <=> Handling)
  <2>1. ~ReadCall /\ ~Dispatch
    BY <1>1 DEF ReadCall, Dispatch
  <2>2. [Next]_vars
    BY DEF Next, Thread
  <2>3. QED
    BY <2>1, <2>2, ReaderStays
<1>4. Agreed(script, conn, Index)'
  BY <1>1, <1>2, <1>3, AgreedStays DEF CutInv
<1>5. PICK data : data = Head(todo).data
  BY Zenon
<1>6. writer \in Writer /\ gone \in BOOLEAN /\ conn \in Readers(script) /\ data \in Seq(Tokens)
  <2>1. writer \in Writer /\ gone \in BOOLEAN /\ conn \in Readers(script) /\ todo \in Seq(Writes)
    BY DEF ConnInv, TypeOK, Writer, Writes
  <2>2. Head(todo) \in Writes
    BY <1>1, <2>1, HeadTailProperties DEF WriteNext
  <2>3. QED
    BY <1>5, <2>1, <2>2 DEF Writes
<1>7. PICK w \in WriteOutcomes(writer, data, gone) : conn' = [conn EXCEPT !.errnum = w.err]
  BY <1>1, <1>5 DEF WriteNext
<1>8. w.err \in {"ok", "busy", "full", "io"} /\ (w.err = "io" => gone)
  <2>1. Accepts(writer, w, data)
    BY <1>6, WriteAccepts
  <2>2. w \in Writer
    BY <2>1 DEF Accepts
  <2>3. w.err \in {"ok", "busy", "full", "io"}
    BY <2>2, WriterFields
  <2>4. w.err = "io" => gone
    BY <1>6, WriteBlames
  <2>5. QED
    BY <2>3, <2>4
<1>9. conn'.errnum = w.err /\ conn'.req = conn.req
  BY <1>6, <1>7, ReaderFields DEF Shapes
<1>10. conn'.req.upgrade = 1 \/ conn'.req.opcode \in {9, 10}
  BY <1>1, <1>9 DEF CutInv
<1>11. conn'.errnum # "ok" => Excused'
  <2>1. w.err = "io" => gone'
    BY <1>1, <1>8
  <2>2. w.err \in {"busy", "full"} => ControlCached'
    BY <1>9, <1>10 DEF ControlCached
  <2>3. QED
    BY <1>8, <1>9, <2>1, <2>2 DEF Excused
<1>12. QED
  BY <1>1, <1>2, <1>4, <1>10, <1>11 DEF CutInv

\* An error closes the connection, and only an error does at this point.
LEMMA CutDispatch ==
  ASSUME ConnInv, PlaceInv, CutInv, Dispatch
  PROVE  CutInv'
<1>1. /\ pc = "dispatch" /\ pc' = "respond" /\ UNCHANGED <<script, fin, gone, conn>>
      /\ close' = (conn.errnum # "ok")
      /\ delivered' = IF Completed THEN Append(delivered, [m |-> conn.req.m, body |-> body])
                      ELSE delivered
      /\ last' = [last EXCEPT !.handled = Completed /\ conn.upgrade = 0]
      /\ todo' = IF last'.handled THEN Response(conn.req.m)
                 ELSE IF conn.upgrade = 2 /\ ~close' /\ last.n > 0
                   THEN Frame(conn.req.m, "text", LastRead)
                 ELSE <<>>
  BY DEF Dispatch, peer
<1>2. Handling /\ ~Handling' /\ ~close
  BY <1>1 DEF PlaceInv, Handling
<1>3. PICK i, n : i = Index /\ n = Len(delivered)
  BY Zenon
<1>4. i = n + 1 /\ Agreed(script, conn, i)
  BY <1>2, <1>3 DEF Index, CutInv
<1>5. delivered \in Seq(Seen) /\ n \in Nat
  BY <1>3 DEF PlaceInv
<1>6. CASE conn.errnum = "ok"
  <2>1. ~close'
    BY <1>1, <1>6
  <2>2. ConnState(conn) = HttpState(conn.req)
    BY <1>6 DEF ConnState
  <2>3. HttpState(conn.req) = "complete" <=> Completed
    BY <1>2, <2>2 DEF PlaceInv, Completed
  <2>4. Index' = i
    <3>1. Index' = IF HttpState(conn.req) = "complete" THEN Len(delivered') ELSE Len(delivered') + 1
      BY <1>1, <1>2 DEF Index
    <3>2. CASE Completed
      <4>1. PICK x : x = [m |-> conn.req.m, body |-> body]
        BY Zenon
      <4>2. delivered' = Append(delivered, x)
        BY <1>1, <3>2, <4>1, Zenon
      <4>3. Len(delivered') = n + 1
        BY <1>3, <1>5, <4>2
      <4>4. QED
        BY <1>4, <2>3, <3>1, <3>2, <4>3
    <3>3. CASE ~Completed
      BY <1>1, <1>3, <1>4, <2>3, <3>1, <3>3
    <3>4. QED
      BY <3>2, <3>3
  <2>5. Agreed(script, conn, Index)'
    <3>1. Agreed(script, conn, Index)' <=> Agreed(script', conn', Index')
      OBVIOUS
    <3>2. QED
      BY <1>1, <1>4, <2>4, <3>1
  <2>6. QED
    BY <1>1, <1>2, <2>1, <2>5 DEF CutInv
<1>7. CASE conn.errnum # "ok"
  <2>1. ~Completed
    BY <1>7 DEF Completed, ConnState
  <2>2. close' /\ delivered' = delivered
    BY <1>1, <1>7, <2>1
  <2>3. ~last'.handled
    <3>1. last \in [n : Int, reread : BOOLEAN, handled : BOOLEAN]
      BY DEF ConnInv, TypeOK
    <3>2. PICK k : k = (Completed /\ conn.upgrade = 0)
      BY Zenon
    <3>3. ~k
      BY <2>1, <3>2, Zenon
    <3>4. last' = [last EXCEPT !.handled = k]
      BY <1>1, <3>2, Zenon
    <3>5. last'.handled = k
      BY <3>1, <3>4
    <3>6. QED
      BY <3>3, <3>5
  <2>4. todo' = <<>>
    BY <1>1, <2>2, <2>3, Zenon
  <2>5. Excused'
    <3>1. Excused
      BY <1>2, <1>7 DEF CutInv
    <3>2. (BadFrame' <=> BadFrame) /\ (ControlCached' <=> ControlCached) /\ (Crowded' <=> Crowded)
      BY <1>1, <2>2 DEF BadFrame, ControlCached, Crowded
    <3>3. SplitTrailer' <=> SplitTrailer
      BY <1>1, <2>2 DEF SplitTrailer, AfterChunked
    <3>4. QED
      BY <1>1, <3>1, <3>2, <3>3, Zenon DEF Excused
  <2>6. QED
    BY <1>1, <1>2, <2>2, <2>4, <2>5 DEF CutInv
<1>8. QED
  BY <1>6, <1>7

\* A call of xs_conn_httpread.
LEMMA CutRead ==
  ASSUME MaxHeader >= 3, \A s \in Scripts : Orderly(s), ConnInv, PlaceInv, CutInv, ReadCall
  PROVE  CutInv'
<1>1. TypeOK
  BY DEF ConnInv
<1>2. PICK r : /\ r = HttpRead(conn, HandlerBuf, Net, script) /\ conn' = r.c
               /\ todo' = CASE r.control = "none" -> <<>>
                            [] r.control = "101" ->
                                 <<[data |-> <<Token(r.c.req.m, "101", 0)>>, file |-> FALSE]>>
                            [] OTHER -> Frame(r.c.req.m, r.control, <<>>)
  BY Zenon DEF ReadCall
<1>3. /\ pc = "read" /\ pc' = (IF todo' = <<>> THEN "dispatch" ELSE "control")
      /\ UNCHANGED <<script, fin, gone, close, delivered>>
  BY DEF ReadCall, peer
<1>4. Handling' /\ ~Handling /\ ~close
  BY <1>3 DEF PlaceInv, Handling
<1>5. PICK i, n, b, S, B : /\ i = Index /\ n = Len(delivered) + 1 /\ b = body /\ S = Stream
                           /\ B = Begins
  BY Zenon
<1>6. Placed(script, S, B, conn, taken, i, b) /\ Agreed(script, conn, i)
  BY <1>4, <1>5 DEF PlaceInv, CutInv
<1>7. Turn(conn, i) = n
  <2>1. delivered \in Seq(Seen)
    BY DEF PlaceInv
  <2>2. i = IF HttpState(conn.req) = "complete" THEN Len(delivered) ELSE Len(delivered) + 1
    BY <1>4, <1>5 DEF Index
  <2>3. QED
    BY <1>5, <2>1, <2>2 DEF Turn
<1>8. Blamed(script, Net, r, n)
  <2>1. /\ script \in Seq(Messages) /\ conn \in Readers(script) /\ Net \in Nets(script)
        /\ Laid(script, S, B) /\ Len(S) \in Nat /\ taken \in Nat
        /\ taken + Len(Net.data) <= Len(S) /\ NetAt(S, Net, taken) /\ Orderly(script)
    BY <1>1, <1>5, NetTyped, NetPlace, StreamIs DEF TypeOK
  <2>2. PICK msgs, c, net, t : msgs = script /\ c = conn /\ net = Net /\ t = taken
    BY Zenon
  <2>3. Blamed(msgs, net, HttpRead(c, HandlerBuf, net, msgs), Turn(c, i))
    BY <1>6, <2>1, <2>2, HttpReadBlamed
  <2>4. QED
    BY <1>2, <1>7, <2>2, <2>3
<1>9. Caused(script, Net, conn', n) /\ Agreed(script, conn', n) /\ Replies(r)
  BY <1>2, <1>8, Zenon DEF Blamed
<1>10. Index' = n
  BY <1>3, <1>4, <1>5 DEF Index
<1>11. Agreed(script, conn, Index)'
  <2>1. Agreed(script, conn, Index)' <=> Agreed(script', conn', Index')
    OBVIOUS
  <2>2. QED
    BY <1>3, <1>9, <1>10, <2>1
<1>12. pc' = "control" => conn'.req.upgrade = 1 \/ conn'.req.opcode \in {9, 10}
  <2>1. pc' = "control" => r.control # "none"
    BY <1>2, <1>3
  <2>2. QED
    BY <1>2, <1>9, <2>1, Zenon DEF Replies
<1>13. conn'.errnum # "ok" => Excused'
  <2>1. CASE From(Net, conn'.errnum)
    <3>1. Net.gone = gone /\ Net.fin = fin
      BY DEF Net
    <3>2. QED
      BY <1>3, <2>1, <3>1 DEF From, Excused
  <2>2. CASE conn'.errnum = "toolarge" /\ HeadLength(conn') \in 1 .. MaxHeader
    BY <2>2 DEF Crowded, Excused
  <2>3. CASE conn'.errnum = "invalid" /\ (Trails(script, n) \/ Continues(script, n))
    <3>1. delivered \in Seq(Seen) /\ n - 1 = Len(delivered) /\ script \in Seq(Messages)
      BY <1>1, <1>5, NetTyped DEF PlaceInv
    <3>2. CASE Trails(script, n)
      <4>1. Len(delivered) \in DOMAIN script /\ script[Len(delivered)].kind = "chunked"
        BY <3>1, <3>2 DEF Trails
      <4>2. delivered # <<>>
        BY <3>1, <4>1
      <4>3. SplitTrailer'
        BY <1>3, <2>3, <4>1, <4>2 DEF SplitTrailer, AfterChunked
      <4>4. QED
        BY <4>3 DEF Excused
    <3>3. CASE Continues(script, n)
      <4>1. BadFrame'
        BY <1>3, <1>5, <2>3, <3>3 DEF BadFrame, Continues
      <4>2. QED
        BY <4>1 DEF Excused
    <3>4. QED
      BY <2>3, <3>2, <3>3
  <2>4. QED
    BY <1>9, <2>1, <2>2, <2>3 DEF Caused
<1>14. pc' \in {"dispatch", "control"} /\ ~close'
  BY <1>3, <1>4
<1>15. QED
  BY <1>11, <1>12, <1>13, <1>14 DEF CutInv

-----------------------------------------------------------------------------
(***************************************************************************)
(* Theorems.                                                               *)
(***************************************************************************)
\* The invariant holds at the start.
LEMMA InitHolds == Init => ConnInv
<1> SUFFICES ASSUME Init PROVE ConnInv
  OBVIOUS
<1>1. script \in Seq(Messages) /\ Stream \in Seq(Arriving(script)) /\ Len(Stream) \in Nat
  BY ScriptsAssumption, StreamTyped DEF Init
<1>2. conn \in Readers(script)
  <2>1. NoReq \in Requests(script)
    BY DEF NoReq, Requests
  <2>2. NewReader \in Shapes(script)
    BY <2>1 DEF NewReader, Shapes, Errors
  <2>3. NewReader.buf = <<>> /\ NewReader.bufsize = 0
    BY DEF NewReader
  <2>4. NewReader \in Readers(script)
    BY <2>2, <2>3, IsReader
  <2>5. QED
    BY <2>4 DEF Init
<1>3. writer \in Writer /\ writer.wire \o writer.cache = <<>>
  <2>1. TRUE \in BOOLEAN /\ FALSE \in BOOLEAN /\ <<>> \in Seq(Tokens) /\ Len(<<>>) <= MaxCache
    BY MaxCacheAssumption
  <2>2. "ok" \in {"ok", "busy", "full", "io"} /\ 0 \in Nat
    OBVIOUS
  <2>3. NewWriter \in Writer
    BY <2>1, <2>2, IsWriter DEF NewWriter
  <2>4. NewWriter.wire \o NewWriter.cache = <<>>
    BY DEF NewWriter
  <2>5. QED
    BY <2>3, <2>4 DEF Init
<1>4. TypeOK
  <2>1. taken \in 0 .. arrived /\ arrived \in 0 .. Len(Stream)
    BY <1>1 DEF Init
  <2>2. /\ last \in [n : Int, reread : BOOLEAN, handled : BOOLEAN]
        /\ todo \in Seq(Writes) /\ body \in Seq(Arriving(script)) /\ accepted \in Seq(Tokens)
    BY DEF Init
  <2>3. QED
    BY <1>2, <1>3, <2>1, <2>2 DEF Init, TypeOK, Writer, Writes
<1>5. StreamOK
  BY <1>3 DEF Init, StreamOK
<1>6. LastReadOK /\ CachedIsArmed
  BY DEF Init, NewWriter, LastReadOK, CachedIsArmed
<1>7. QED
  BY <1>4, <1>5, <1>6 DEF ConnInv

\* Every step keeps the invariant and only adds to the stream.
LEMMA EveryStep == ConnInv /\ [Next]_vars => ConnInv' /\ Forward
<1> SUFFICES ASSUME ConnInv, [Next]_vars PROVE ConnInv' /\ Forward
  OBVIOUS
<1>1. CASE PeerCloses \/ PeerResets \/ \E k \in 1 .. Len(Stream) : Arrive(k)
  BY <1>1, PeerStep, StayingForward
<1>2. CASE ReadCall
  BY <1>2, ReadCallStep
<1>3. CASE Control
  BY <1>3, ControlStep
<1>4. CASE Respond
  BY <1>4, RespondStep
<1>5. CASE WriteFile
  BY <1>5, WriteFileStep
<1>6. CASE Dispatch
  BY <1>6, DispatchStep, StayingForward
<1>7. CASE PollRead \/ PollError \/ EndTurn
  BY <1>7, MovingStep, StayingForward
<1>8. CASE End
  BY <1>8, EndStep
<1>9. CASE PollWrite
  BY <1>9, PollWriteStep
<1>10. CASE UNCHANGED vars
  <2>1. ConnInv'
    BY <1>10 DEF ConnInv, TypeOK, Stream, LastReadOK, StreamOK, CachedIsArmed, vars
  <2>2. UNCHANGED <<writer, accepted>>
    BY <1>10 DEF vars
  <2>3. QED
    BY <2>1, <2>2, StayingForward
<1>11. QED
  BY <1>1, <1>2, <1>3, <1>4, <1>5, <1>6, <1>7, <1>8, <1>9, <1>10 DEF Next, Thread

\* Buffer and cache keep to their sizes, a request that is answered is one the
\* peer has sent, and nothing that was accepted is lost (xs_conn_httpread,
\* xs_conn_write_).
THEOREM ConnInvariant == Spec => []ConnInv
<1>1. ConnInv /\ [Next]_vars => ConnInv'
  BY EveryStep
<1>2. QED
  BY <1>1, InitHolds, PTL DEF Spec

\* While the thread waits in poll, cached data waits for POLLOUT
\* (xs_async_handler).
THEOREM CachedStaysArmed == Spec => []CachedIsArmed
<1>1. ConnInv => CachedIsArmed
  BY DEF ConnInv
<1>2. QED
  BY <1>1, ConnInvariant, PTL

\* The handler sees the messages in the order sent, none twice and none left
\* out, each with exactly its body, however the stream is cut into segments
\* (xs_conn_httpread).
THEOREM RequestsStayIntact == Spec => []RequestsIntact
<1>1. Init => ConnInv /\ PlaceInv
  BY InitHolds, PlaceInit
<1>2. (ConnInv /\ PlaceInv) /\ [Next]_vars => (ConnInv /\ PlaceInv)'
  BY EveryStep, PlaceMoves, PlaceRead, PlaceDispatch
<1>3. ConnInv /\ PlaceInv => RequestsIntact
  BY DEF PlaceInv
<1>4. QED
  BY <1>1, <1>2, <1>3, PTL DEF Spec

\* A peer that is there and sends frames only after an upgrade is not cut off,
\* but for what is named in NotCutOff: a continuation frame, a line end that
\* comes late, a reply that is cached, a head behind which much is pipelined
\* (server_handler, xs_conn_httpread).
THEOREM NobodyCutOff ==
  ASSUME MaxHeader >= 3, \A s \in Scripts : Orderly(s)
  PROVE  Spec => []NotCutOff
<1>1. Init => ConnInv /\ PlaceInv /\ CutInv
  BY InitHolds, PlaceInit, CutInit
<1>2. (ConnInv /\ PlaceInv) /\ [Next]_vars => (ConnInv /\ PlaceInv)'
  BY EveryStep, PlaceMoves, PlaceRead, PlaceDispatch
<1>3. (ConnInv /\ PlaceInv /\ CutInv) /\ [Next]_vars => CutInv'
  BY CutMoves, CutWrites, CutControl, CutDispatch, CutRead DEF Next, Thread
<1>4. CutInv => NotCutOff
  BY DEF CutInv, NotCutOff, Excused
<1>5. QED
  BY <1>1, <1>2, <1>3, <1>4, PTL DEF Spec

\* What write calls accept reaches the wire in their order, none of it twice
\* and none left out, until the cache overflows (xs_conn_write_,
\* xs_conn_cachefill, xs_conn_cachepurge).
THEOREM WritesStreamInOrder == Spec => StreamInOrder
<1>1. Init => ByteStream!Init
  BY DEF Init, NewWriter, ByteStream!Init
<1>2. ConnInv /\ [Next]_vars => [ByteStream!Next]_ByteStream!vars
  <2> SUFFICES ASSUME ConnInv, [Next]_vars
               PROVE  ByteStream!Next
    BY DEF ByteStream!vars
  <2>1. ConnInv' /\ Forward
    BY EveryStep
  <2>2. /\ writer \in Writer /\ writer.intact \in BOOLEAN /\ accepted \in Seq(Tokens)
        /\ writer.wire \in Seq(Tokens)
    BY WriterFields DEF ConnInv, TypeOK, Writer
  <2>3. writer' \in Writer /\ writer'.intact \in BOOLEAN
    <3>1. PICK w : w = writer'
      BY Zenon
    <3>2. w \in Writer
      BY <2>1, <3>1 DEF ConnInv, TypeOK, Writer
    <3>3. QED
      BY <3>1, <3>2, WriterFields
  <2>4. IsPrefix(accepted, accepted') /\ IsPrefix(writer.wire, writer'.wire)
    <3>1. PICK d \in Seq(Tokens), s \in Seq(Tokens) :
            accepted' = accepted \o d /\ writer'.wire = writer.wire \o s
      BY <2>1 DEF Forward, Grown
    <3>2. IsPrefix(accepted, accepted \o d) /\ IsPrefix(writer.wire, writer.wire \o s)
      BY <2>2, PrefixOfConcat
    <3>3. QED
      BY <3>1, <3>2
  <2>5. CASE writer'.intact
    <3>1. writer.intact /\ accepted' = writer'.wire \o writer'.cache
      BY <2>1, <2>5 DEF Forward, ConnInv, StreamOK
    <3>2. ByteStream!AcceptOrTransmit
      BY <2>4, <2>5, <3>1, Zenon
      DEF ByteStream!AcceptOrTransmit, ByteStream!IsPrefix, IsPrefix
    <3>3. QED
      BY <3>2 DEF ByteStream!Next
  <2>6. CASE ~writer'.intact
    BY <2>6 DEF ByteStream!Next, ByteStream!Overflow, ByteStream!AnythingGoes
  <2>7. QED
    BY <2>5, <2>6
<1>3. QED
  BY <1>1, <1>2, ConnInvariant, PTL DEF Spec, StreamInOrder, ByteStream!Spec
=============================================================================
