---------------------------- MODULE XsPollProofs ----------------------------
(***************************************************************************)
(* What the poll layer keeps to, for any threads, any listeners, clients   *)
(* and scenarios of them, and any sizes of the arrays and of the queue, as *)
(* long as no listener is added over a connection and no stop cuts a pass  *)
(* short (Ordinary).                                                       *)
(*                                                                         *)
(* The argument has two parts.  Of each array: the tokens in use lead to   *)
(* their entries, those on the free list are others, and together they are *)
(* so few that a token that was never given out is free (Tokens); adding,  *)
(* clearing, moving and cutting keep that (AddTidy, ClearTidy, MoveTidy,   *)
(* CutTidy).  Of all of them: the clients in the arrays, in the queue and  *)
(* in the hands are those that are open, and each is there once (Apart).   *)
(***************************************************************************)
EXTENDS XsPoll, SequenceTheorems, FiniteSetTheorems, WellFoundedInduction, TLAPS

-----------------------------------------------------------------------------
(***************************************************************************)
(* The arrays of one xs_pollfd.                                            *)
(***************************************************************************)
Sockets == Clients \union Listeners \union {NoSock}

\* The types of the arrays with T entries.
ArraysOf(T) ==
  [total : {T}, listen : 0 .. T, count : 0 .. T, max : 0 .. T, free : -1 .. T - 1,
   sidmap : [0 .. T - 1 -> -1 .. T - 1],
   pfd : [0 .. T - 1 -> [fd : Sockets, cfd : Sockets, sid : 0 .. T - 1]]]

\* The arrays have their types, and the two places for a socket agree.
Typed(y) ==
  /\ y.total \in Nat \ {0} /\ y \in ArraysOf(y.total)
  /\ \A k \in 0 .. y.total - 1 : y.pfd[k].fd = y.pfd[k].cfd

\* The positions of the pass, and the listeners, which come first and stay.
Shape(y, at, kept) ==
  /\ Typed(y) /\ y.max = y.count
  /\ at \in 0 .. y.count /\ kept \in 0 .. at
  /\ y.listen <= y.count /\ (y.listen <= kept \/ kept = at)
  /\ \A k \in 0 .. y.listen - 1 : y.pfd[k].fd \in Listeners

\* map2 leads from the token sid to v, and is map for the others; tok2 is tok on L.
Leads(map2, map, T, sid, v) == \A t \in 0 .. T - 1 : map2[t] = IF t = sid THEN v ELSE map[t]

\* On the positions L the tokens are the same.
Agree(tok2, tok, L) == \A k \in L : tok2[k] = tok[k]

\* The token of position N is now that of K, and the others are the same.
Carried(tok2, tok, L, N, K) ==
  K \notin L \ {N} /\ tok2[K] = tok[N] /\ Agree(tok2, tok, L \ {N})

\* list[1 .. n] are the tokens of the free list, the one to be taken last.
Stacked(map, free, T, n, list) ==
  /\ list \in [0 .. n -> -1 .. T - 1] /\ list[0] = -1 /\ list[n] = free
  /\ \A m \in 1 .. n : list[m] # -1 /\ map[list[m]] = list[m - 1]
  /\ \A l, m \in 1 .. n : list[l] = list[m] => l = m

\* The entries at the positions L have tokens of their own, tok: they lead to
\* them, have been given out (are below given) and are not on the free list.
Entered(map, tok, L, T, n, list, given) ==
  \A k \in L : /\ tok[k] \in 0 .. T - 1 /\ tok[k] < given /\ map[tok[k]] = k
               /\ \A m \in 1 .. n : tok[k] # list[m]

\* The free list and the entries share the tokens below given between them.
Accounted(map, free, tok, L, T, n, list, given) ==
  /\ Stacked(map, free, T, n, list) /\ Entered(map, tok, L, T, n, list, given)
  /\ given <= T /\ \A m \in 1 .. n : list[m] < given

\* The token of each position.
SidsOf(y) == [k \in DOMAIN y.pfd |-> y.pfd[k].sid]

\* Tokens below a number have been given out: those of the free list and those
\* of the entries, and there are just as many.
InOrder(map, free, tok, L, T, size) ==
  \E n \in Nat : \E list \in [0 .. n -> -1 .. T - 1] : Accounted(map, free, tok, L, T, n, list, n + size)

\* The tokens of the arrays are in order when the pass is at at and has kept kept.
Tokens(y, at, kept) ==
  InOrder(y.sidmap, y.free, SidsOf(y), Live(y, at, kept), y.total, kept + (y.count - at))

\* What every operation on the arrays keeps.
Tidy(y, at, kept) == Shape(y, at, kept) /\ Tokens(y, at, kept)

\* Every client has one entry at most.
Once(y, at, kept) ==
  \A k, l \in Live(y, at, kept) : y.pfd[k].cfd = y.pfd[l].cfd /\ y.pfd[k].cfd \in Clients => k = l

\* The clients that have entries.
ClientsIn(y, at, kept) == {y.pfd[k].cfd : k \in Live(y, at, kept)} \intersect Clients

-----------------------------------------------------------------------------
(***************************************************************************)
(* The invariant.                                                          *)
(***************************************************************************)
ThreadOK(x) ==
  /\ Typed(slots[x])
  /\ pc[x] \notin {"none", "done"} => Tidy(slots[x], i[x], ip[x])
  /\ pc[x] \in {"none", "done"} => slots[x].count = 0
  /\ IF InPass(x) THEN i[x] < slots[x].count ELSE i[x] = 0 /\ ip[x] = 0
  /\ hand[x] # NoSock <=> pc[x] = "push"
  /\ pc[x] \notin {"none", "start", "done"} => running[x] # 0

\* The clients among the elements of a queue or in the hands of threads, and
\* that each is there once.
Among(f) == {f[k] : k \in DOMAIN f} \intersect Clients
Single(f) == \A k, l \in DOMAIN f : f[k] = f[l] /\ f[k] \in Clients => k = l

\* The clients in the arrays of each thread, and the clients that are open.
Entries == [x \in Xps |-> ClientsIn(slots[x], i[x], ip[x])]
Open == {c \in Clients : client[c] \in {"accepted", "quit"}}

\* Every open client is in just one of the entries H of a thread, the queue Q
\* and the hands N.
Spread(H, Q, N, O) ==
  /\ \A x, y \in Xps : x # y => H[x] \intersect H[y] = {}
  /\ \A x \in Xps : H[x] \intersect (Q \union N) = {}
  /\ Q \intersect N = {}
  /\ O = Q \union N \union UNION {H[x] : x \in Xps}

\* No client is in two places, and those in some place are the open ones.
Apart ==
  /\ \A x \in Xps : Once(slots[x], i[x], ip[x])
  /\ Single(queue) /\ Single(hand)
  /\ Spread(Entries, Among(queue), Among(hand), Open)

\* The places of a thread.
PCs == {"none", "start", "pop", "expand", "poll", "pass", "push", "tail", "again", "sleep", "wait",
        "exit", "done"}

\* The types of everything but the arrays.
Basic ==
  /\ running \in [Xps -> -2 .. 2] /\ pc \in [Xps -> PCs]
  /\ DOMAIN slots = Xps /\ i \in [Xps -> Nat] /\ ip \in [Xps -> Nat]
  /\ hand \in [Xps -> Clients \union {NoSock}]
  /\ awake \subseteq Xps /\ pool \in Seq(Pool)
  /\ queue \in Seq(Clients \union Listeners) /\ Len(queue) <= QueueCap
  /\ expandlock \in {0, 2}
  /\ client \in [Clients -> {"never", "away", "backlog", "accepted", "quit", "closed"}]
  /\ main \in {"listen", "run", "again", "kick", "root", "join", "joined"}
  /\ toListen \in Seq(Listeners) /\ (main = "listen" => toListen # <<>>)

\* The invariant of an ordinary run.
Sound == Basic /\ Apart /\ \A x \in Xps : ThreadOK(x)

\* The inductive invariant.
PollInv == incidents \subseteq Incident /\ (Ordinary => Sound)

-----------------------------------------------------------------------------
(***************************************************************************)
(* Adding, clearing, moving and cutting.                                   *)
(***************************************************************************)

\* The fields of arrays.
LEMMA ArrayFields ==
  ASSUME NEW y, Typed(y)
  PROVE  /\ y.total \in Nat \ {0} /\ y.listen \in 0 .. y.total /\ y.count \in 0 .. y.total
         /\ y.max \in 0 .. y.total /\ y.free \in -1 .. y.total - 1
         /\ y.sidmap \in [0 .. y.total - 1 -> -1 .. y.total - 1]
         /\ y.pfd \in [0 .. y.total - 1 -> [fd : Sockets, cfd : Sockets, sid : 0 .. y.total - 1]]
         /\ \A k \in 0 .. y.total - 1 : y.pfd[k].fd = y.pfd[k].cfd
BY DEF Typed, ArraysOf

\* Arrays with another entry.
LEMMA StillTyped ==
  ASSUME NEW y, Typed(y), NEW z \in ArraysOf(y.total), NEW k \in 0 .. y.total - 1, NEW e,
         e.fd = e.cfd, z.pfd = [y.pfd EXCEPT ![k] = e]
  PROVE  Typed(z) /\ z.total = y.total
<1>1. z.total = y.total
  BY Zenon DEF ArraysOf
<1>2. ASSUME NEW l \in 0 .. y.total - 1 PROVE z.pfd[l].fd = z.pfd[l].cfd
  <2>1. y.pfd[l].fd = y.pfd[l].cfd /\ DOMAIN y.pfd = 0 .. y.total - 1
    BY ArrayFields
  <2>2. z.pfd[l] = IF l = k THEN e ELSE y.pfd[l]
    BY <2>1
  <2>3. QED
    BY <2>1, <2>2
<1>3. QED
  BY <1>1, <1>2 DEF Typed

\* What Add makes of the fields of arrays, where the entry goes to the end.
LEMMA AddFields ==
  ASSUME NEW y, Typed(y), NEW s \in Sockets, y.max = y.count, y.count < y.total,
         s \in Listeners => y.listen = y.count
  PROVE  LET z == Add(y, s, s \in Listeners)
             sid == IF y.free < 0 THEN y.count ELSE y.free
         IN  /\ Typed(z) /\ z.total = y.total
             /\ z.listen = IF s \in Listeners THEN y.listen + 1 ELSE y.listen
             /\ z.count = y.count + 1 /\ z.max = y.count + 1
             /\ z.free = IF y.free < 0 THEN y.free ELSE y.sidmap[y.free]
             /\ z.sidmap = [y.sidmap EXCEPT ![sid] = y.count]
             /\ z.pfd = [y.pfd EXCEPT ![y.count] = [fd |-> s, cfd |-> s, sid |-> sid]]
<1> DEFINE z == Add(y, s, s \in Listeners)
           sid == IF y.free < 0 THEN y.count ELSE y.free
           n == y.count
           e == [fd |-> s, cfd |-> s, sid |-> sid]
           T == y.total
           K == 0 .. T - 1
           E == [fd : Sockets, cfd : Sockets, sid : K]
           l == IF s \in Listeners THEN y.listen + 1 ELSE y.listen
           f == IF y.free < 0 THEN y.free ELSE y.sidmap[y.free]
<1>1. /\ T \in Nat /\ n \in K /\ sid \in K /\ n + 1 \in 0 .. T /\ l \in 0 .. T /\ f \in -1 .. T - 1
      /\ n \in -1 .. T - 1
  BY ArrayFields
<1>2. e \in E
  BY <1>1
<1>3. y \in [total : {T}, listen : 0 .. T, count : 0 .. T, max : 0 .. T, free : -1 .. T - 1,
             sidmap : [K -> -1 .. T - 1], pfd : [K -> E]]
  BY DEF Typed, ArraysOf
<1>4. z = [y EXCEPT !.listen = l, !.count = n + 1, !.max = n + 1, !.free = f,
                    !.sidmap[sid] = n, !.pfd[n] = e]
  BY DEF Add
<1> HIDE DEF z
<1>5. /\ z \in [total : {T}, listen : 0 .. T, count : 0 .. T, max : 0 .. T, free : -1 .. T - 1,
                sidmap : [K -> -1 .. T - 1], pfd : [K -> E]]
      /\ z.total = T /\ z.listen = l /\ z.count = n + 1 /\ z.max = n + 1 /\ z.free = f
      /\ z.sidmap = [y.sidmap EXCEPT ![sid] = n] /\ z.pfd = [y.pfd EXCEPT ![n] = e]
  <2> HIDE DEF T, K, E, l, f, sid, e, n
  <2> QED BY <1>1, <1>2, <1>3, <1>4
<1>6. Typed(z)
  <2>1. z \in ArraysOf(y.total) /\ e.fd = e.cfd /\ n \in 0 .. y.total - 1
        /\ z.pfd = [y.pfd EXCEPT ![n] = e]
    BY <1>1, <1>5 DEF ArraysOf
  <2> HIDE DEF e, n, K, E, T, sid
  <2>2. QED
    BY <2>1, StillTyped
<1>7. QED
  BY <1>5, <1>6, Zenon DEF z

\* What clearing the entry k and moving the entry at come to.
IsCleared(z, y, k) ==
  /\ Typed(z) /\ z.total = y.total /\ z.listen = y.listen /\ z.count = y.count
  /\ z.max = y.max /\ z.free = y.free /\ z.sidmap = y.sidmap
  /\ \A l \in 0 .. y.total - 1 : l # k => z.pfd[l] = y.pfd[l]
  /\ z.pfd[k].fd = NoSock /\ z.pfd[k].cfd = NoSock /\ z.pfd[k].sid = y.pfd[k].sid
  /\ DOMAIN z.pfd = 0 .. y.total - 1

\* The arrays z are y with the entry e moved to kept, or its token freed.
IsMoved(z, y, e, kept) ==
  /\ Typed(z) /\ z.total = y.total /\ z.listen = y.listen /\ z.count = y.count
  /\ z.max = y.max
  /\ z.free = IF e.fd = NoSock THEN e.sid ELSE y.free
  /\ Leads(z.sidmap, y.sidmap, y.total, e.sid, IF e.fd = NoSock THEN y.free ELSE kept)
  /\ z.pfd[kept] = e /\ DOMAIN z.pfd = 0 .. y.total - 1
  /\ \A k \in 0 .. y.total - 1 : k # kept => z.pfd[k] = y.pfd[k]

\* What Clear makes of them, for a token that leads to an entry.
LEMMA ClearFields ==
  ASSUME NEW y, Typed(y), NEW sid \in 0 .. y.total - 1, NEW k \in 0 .. y.count - 1, y.sidmap[sid] = k
  PROVE  IsCleared(Clear(y, sid), y, k)
<1> DEFINE z == Clear(y, sid)
           e == [fd |-> NoSock, cfd |-> NoSock, sid |-> y.pfd[k].sid]
           d == [y.pfd[k] EXCEPT !.fd = NoSock, !.cfd = NoSock]
           T == y.total
           K == 0 .. T - 1
           E == [fd : Sockets, cfd : Sockets, sid : K]
<1>1. T \in Nat /\ k \in K /\ NoSock \in Sockets
  BY ArrayFields DEF Sockets
<1>2. y \in [total : {T}, listen : 0 .. T, count : 0 .. T, max : 0 .. T, free : -1 .. T - 1,
             sidmap : [K -> -1 .. T - 1], pfd : [K -> E]]
  BY DEF Typed, ArraysOf
<1>3. d \in E /\ d.fd = NoSock /\ d.cfd = NoSock /\ d.sid = y.pfd[k].sid
  <2>1. y.pfd[k] \in E
    BY <1>1, <1>2
  <2> HIDE DEF K, T
  <2>2. QED
    BY <1>1, <2>1
<1>4. d = e
  <2> HIDE DEF d
  <2> QED BY <1>3
<1>5. z = [y EXCEPT !.pfd[k] = d]
  <2>1. TokenIndex(y, sid) = k /\ ~(k < 0)
    BY ArrayFields DEF TokenIndex
  <2>2. QED
    BY <2>1, Zenon DEF Clear
<1> HIDE DEF z
<1>6. /\ z \in [total : {T}, listen : 0 .. T, count : 0 .. T, max : 0 .. T, free : -1 .. T - 1,
                sidmap : [K -> -1 .. T - 1], pfd : [K -> E]]
      /\ z.listen = y.listen /\ z.count = y.count /\ z.max = y.max /\ z.free = y.free
      /\ z.sidmap = y.sidmap /\ z.pfd = [y.pfd EXCEPT ![k] = d]
  <2> HIDE DEF T, K, E, d
  <2> QED BY <1>1, <1>2, <1>3, <1>5
<1>7. z.pfd = [y.pfd EXCEPT ![k] = e]
  <2> HIDE DEF d, e
  <2> QED BY <1>4, <1>6
<1>8. Typed(z) /\ z.total = y.total
  <2>1. z \in ArraysOf(y.total) /\ e.fd = e.cfd /\ k \in 0 .. y.total - 1
    BY <1>1, <1>6 DEF ArraysOf
  <2> HIDE DEF e, K, E, T
  <2>2. QED
    BY <1>7, <2>1, StillTyped
<1>9. /\ z.pfd[k] = e /\ DOMAIN z.pfd = 0 .. y.total - 1
      /\ \A l \in 0 .. y.total - 1 : l # k => z.pfd[l] = y.pfd[l]
  <2>1. DOMAIN y.pfd = 0 .. y.total - 1 /\ k \in 0 .. y.total - 1
    BY <1>1, <1>2
  <2> HIDE DEF e
  <2>2. QED
    BY <1>7, <2>1
<1>10. e.fd = NoSock /\ e.cfd = NoSock /\ e.sid = y.pfd[k].sid
  OBVIOUS
<1> HIDE DEF e
<1>11. QED
  BY <1>6, <1>8, <1>9, <1>10, Zenon DEF IsCleared, z

\* What Move makes of them.
LEMMA MoveFields ==
  ASSUME NEW y, Typed(y), NEW at \in 0 .. y.total - 1, NEW kept \in 0 .. y.total - 1
  PROVE  IsMoved(Move(y, at, kept), y, y.pfd[at], kept)
<1> DEFINE z == Move(y, at, kept)
           e == y.pfd[at]
           sid == e.sid
           T == y.total
           K == 0 .. T - 1
           E == [fd : Sockets, cfd : Sockets, sid : K]
           f == IF e.fd = NoSock THEN sid ELSE y.free
           a == IF e.fd = NoSock THEN y.free ELSE kept
<1>1. y \in [total : {T}, listen : 0 .. T, count : 0 .. T, max : 0 .. T, free : -1 .. T - 1,
             sidmap : [K -> -1 .. T - 1], pfd : [K -> E]]
  BY DEF Typed, ArraysOf
<1>2. e \in E /\ sid \in K
  BY <1>1
<1>3. f \in -1 .. T - 1 /\ a \in -1 .. T - 1
  <2>1. y.free \in -1 .. T - 1 /\ T \in Nat
    BY ArrayFields
  <2> HIDE DEF sid, e
  <2>2. QED
    BY <1>2, <2>1
<1>4. z = [y EXCEPT !.pfd[kept] = e, !.sidmap[sid] = a, !.free = f]
  BY DEF Move
<1> HIDE DEF z
<1>5. /\ z \in [total : {T}, listen : 0 .. T, count : 0 .. T, max : 0 .. T, free : -1 .. T - 1,
                sidmap : [K -> -1 .. T - 1], pfd : [K -> E]]
      /\ z.listen = y.listen /\ z.count = y.count /\ z.max = y.max /\ z.free = f
      /\ z.sidmap = [y.sidmap EXCEPT ![sid] = a] /\ z.pfd = [y.pfd EXCEPT ![kept] = e]
  <2>1. kept \in K
    OBVIOUS
  <2> HIDE DEF T, K, E, a, f, sid, e
  <2>2. QED
    BY <1>1, <1>2, <1>3, <1>4, <2>1
<1>6. Typed(z) /\ z.total = y.total
  <2>1. z \in ArraysOf(y.total) /\ e.fd = e.cfd /\ z.pfd = [y.pfd EXCEPT ![kept] = e]
    BY <1>5, ArrayFields DEF ArraysOf
  <2> HIDE DEF K, E, T, e
  <2>2. QED
    BY <2>1, StillTyped
<1>7. /\ z.pfd[kept] = e /\ DOMAIN z.pfd = 0 .. y.total - 1
      /\ \A k \in 0 .. y.total - 1 : k # kept => z.pfd[k] = y.pfd[k]
  <2>1. DOMAIN y.pfd = 0 .. y.total - 1 /\ z.pfd = [y.pfd EXCEPT ![kept] = e]
    BY <1>1, <1>5
  <2>2. QED
    BY <2>1
<1>8. Leads(z.sidmap, y.sidmap, y.total, sid, a)
  <2>1. DOMAIN y.sidmap = 0 .. y.total - 1 /\ z.sidmap = [y.sidmap EXCEPT ![sid] = a]
    BY <1>1, <1>5
  <2> HIDE DEF a, sid
  <2>2. QED
    BY <2>1 DEF Leads
<1>9. QED
  BY <1>5, <1>6, <1>7, <1>8, Zenon DEF IsMoved, z

\* And cutting the arrays.
LEMMA CutFields ==
  ASSUME NEW y, Typed(y), NEW n \in 0 .. y.total
  PROVE  LET z == [y EXCEPT !.count = n, !.max = n]
         IN  /\ Typed(z) /\ z.total = y.total /\ z.listen = y.listen /\ z.count = n /\ z.max = n
             /\ z.free = y.free /\ z.sidmap = y.sidmap /\ z.pfd = y.pfd
<1> DEFINE z == [y EXCEPT !.count = n, !.max = n]
           T == y.total
           K == 0 .. T - 1
           E == [fd : Sockets, cfd : Sockets, sid : K]
<1>1. y \in [total : {T}, listen : 0 .. T, count : 0 .. T, max : 0 .. T, free : -1 .. T - 1,
             sidmap : [K -> -1 .. T - 1], pfd : [K -> E]]
  BY DEF Typed, ArraysOf
<1>2. /\ z \in [total : {T}, listen : 0 .. T, count : 0 .. T, max : 0 .. T, free : -1 .. T - 1,
                sidmap : [K -> -1 .. T - 1], pfd : [K -> E]]
      /\ z.total = T /\ z.listen = y.listen /\ z.count = n /\ z.max = n /\ z.free = y.free
      /\ z.sidmap = y.sidmap /\ z.pfd = y.pfd
  <2>1. n \in 0 .. T
    OBVIOUS
  <2> HIDE DEF T, K, E
  <2>2. QED
    BY <1>1, <2>1
<1> HIDE DEF z
<1>3. Typed(z)
  BY <1>2 DEF Typed, ArraysOf
<1>4. QED
  BY <1>2, <1>3, Zenon DEF z

\* A free list with some tokens leads somewhere, one without does not.
LEMMA FreeList ==
  ASSUME NEW T \in Nat, NEW map, NEW free \in -1 .. T - 1, NEW n \in Nat, NEW list,
         Stacked(map, free, T, n, list)
  PROVE  /\ free < 0 => n = 0 
         /\ free >= 0 => n > 0 /\ n \in 1 .. n /\ map[free] = list[n - 1]
         /\ \A m \in 1 .. n : list[m] \in 0 .. T - 1
<1>1. /\ list \in [0 .. n -> -1 .. T - 1] /\ list[0] = -1 /\ list[n] = free
      /\ \A m \in 1 .. n : list[m] # -1 /\ map[list[m]] = list[m - 1]
  BY DEF Stacked
<1>3. \A m \in 1 .. n : list[m] \in 0 .. T - 1
  BY <1>1
<1>4. n # 0 => n \in 1 .. n
  OBVIOUS
<1>5. QED
  BY <1>1, <1>3, <1>4

\* What the arrays are like when the free list has become shorter by one token.
Shorter(map, free, tok, L, T, n, given) ==
  \E r \in Nat : /\ r + 1 = n
                  /\ \E rest \in [0 .. r -> -1 .. T - 1] : Accounted(map, free, tok, L, T, r, rest, given)

\* xs_pollfd_internaladd takes the first token of the free list for its entry.
LEMMA TakeToken ==
  ASSUME NEW T \in Nat, NEW map, NEW free \in 0 .. T - 1, NEW tok, NEW L, NEW n \in Nat, NEW list,
         NEW given \in Int, Accounted(map, free, tok, L, T, n, list, given),
         NEW N, N \notin L, NEW map2, Leads(map2, map, T, free, N),
         NEW tok2, tok2[N] = free, Agree(tok2, tok, L)
  PROVE  Shorter(map2, map[free], tok2, L \union {N}, T, n, given)
<1> DEFINE r == n - 1
           rest == [m \in 0 .. r |-> list[m]]
<1>1. /\ list \in [0 .. n -> -1 .. T - 1] /\ list[0] = -1 /\ list[n] = free
      /\ \A m \in 1 .. n : list[m] # -1 /\ map[list[m]] = list[m - 1]
      /\ \A l, m \in 1 .. n : list[l] = list[m] => l = m
      /\ given <= T /\ \A m \in 1 .. n : list[m] < given
      /\ Stacked(map, free, T, n, list)
  BY DEF Accounted, Stacked
<1>2. /\ n > 0 /\ n \in 1 .. n /\ map[free] = list[r]
      /\ \A m \in 1 .. n : list[m] \in 0 .. T - 1
  BY <1>1, FreeList
<1>3. /\ r \in Nat /\ r < n /\ rest \in [0 .. r -> -1 .. T - 1]
      /\ \A m \in 0 .. r : rest[m] = list[m]
  BY <1>1, <1>2
<1> HIDE DEF r, rest
<1>4. \A m \in 1 .. r : m \in 1 .. n /\ m \in 0 .. r /\ m - 1 \in 0 .. r /\ list[m] # free
  BY <1>1, <1>2, <1>3
<1>5. Stacked(map2, map[free], T, r, rest)
  <2>1. rest[0] = -1 /\ rest[r] = map[free]
    BY <1>1, <1>2, <1>3
  <2>2. ASSUME NEW m \in 1 .. r PROVE rest[m] # -1 /\ map2[rest[m]] = rest[m - 1]
    <3>1. rest[m] = list[m] /\ rest[m - 1] = list[m - 1] /\ m \in 1 .. n /\ list[m] # free
      BY <1>3, <1>4
    <3>2. list[m] # -1 /\ map[list[m]] = list[m - 1] /\ list[m] \in 0 .. T - 1
      BY <1>1, <1>2, <3>1 DEF Agree
    <3>3. QED
      BY <3>1, <3>2 DEF Leads
  <2>3. ASSUME NEW l \in 1 .. r, NEW m \in 1 .. r, rest[l] = rest[m] PROVE l = m
    <3>1. l \in 1 .. n /\ m \in 1 .. n /\ list[l] = list[m]
      BY <1>3, <1>4, <2>3
    <3>2. QED
      BY <1>1, <3>1
  <2>4. QED
    BY <1>3, <2>1, <2>2, <2>3 DEF Stacked
<1>6. Entered(map2, tok2, L \union {N}, T, r, rest, given)
  <2>1. ASSUME NEW k \in L
        PROVE  tok2[k] \in 0 .. T - 1 /\ tok2[k] < given /\ map2[tok2[k]] = k
               /\ \A m \in 1 .. r : tok2[k] # rest[m]
    <3>1. /\ tok[k] \in 0 .. T - 1 /\ tok[k] < given /\ map[tok[k]] = k
          /\ \A m \in 1 .. n : tok[k] # list[m]
      BY DEF Accounted, Entered
    <3>2. tok2[k] = tok[k] /\ tok[k] # free
      BY <1>1, <1>2, <3>1 DEF Agree
    <3>3. \A m \in 1 .. r : tok[k] # rest[m]
      BY <1>3, <1>4, <3>1
    <3>4. QED
      BY <3>1, <3>2, <3>3 DEF Leads
  <2>2. /\ tok2[N] \in 0 .. T - 1 /\ tok2[N] < given /\ map2[tok2[N]] = N
        /\ \A m \in 1 .. r : tok2[N] # rest[m]
    BY <1>1, <1>2, <1>3, <1>4 DEF Leads
  <2>3. QED
    BY <2>1, <2>2 DEF Entered
<1>7. \A m \in 1 .. r : rest[m] < given
  BY <1>1, <1>3, <1>4
<1>8. Accounted(map2, map[free], tok2, L \union {N}, T, r, rest, given)
  BY <1>1, <1>5, <1>6, <1>7 DEF Accounted
<1>9. r + 1 = n
  BY <1>2 DEF r
<1>10. QED
  BY <1>3, <1>8, <1>9, Zenon DEF Shorter

\* Or, if the list is empty, it is one that has never been given out.
LEMMA MakeToken ==
  ASSUME NEW T \in Nat, NEW map, NEW tok, NEW L, NEW n \in Nat, NEW list,
         NEW given \in 0 .. T - 1, Accounted(map, -1, tok, L, T, n, list, given),
         given \notin L, NEW map2, Leads(map2, map, T, given, given),
         NEW tok2, tok2[given] = given, Agree(tok2, tok, L)
  PROVE  n = 0 /\ list \in [0 .. n -> -1 .. T - 1]
         /\ Accounted(map2, -1, tok2, L \union {given}, T, n, list, given + 1)
<1>1. n = 0 /\ list \in [0 .. n -> -1 .. T - 1]
  BY FreeList DEF Accounted, Stacked
<1>2. Stacked(map2, -1, T, n, list)
  BY <1>1 DEF Accounted, Stacked
<1>3. Entered(map2, tok2, L \union {given}, T, n, list, given + 1)
  <2>1. ASSUME NEW k \in L
        PROVE  tok2[k] \in 0 .. T - 1 /\ tok2[k] < given + 1 /\ map2[tok2[k]] = k
    <3>1. tok[k] \in 0 .. T - 1 /\ tok[k] < given /\ map[tok[k]] = k /\ tok2[k] = tok[k]
      BY DEF Accounted, Entered, Agree
    <3>2. QED
      BY <3>1 DEF Leads
  <2>2. 1 .. n = {}
    BY <1>1
  <2>3. QED
    BY <2>1, <2>2 DEF Entered, Leads
<1>4. QED
  BY <1>1, <1>2, <1>3 DEF Accounted

\* The token of an entry that goes is put on the free list.
LEMMA GiveBack ==
  ASSUME NEW T \in Nat, NEW map, NEW free \in -1 .. T - 1, NEW tok, NEW L, NEW n \in Nat, NEW list,
         NEW given \in Int, Accounted(map, free, tok, L, T, n, list, given),
         NEW N \in L, NEW map2, Leads(map2, map, T, tok[N], free),
         NEW tok2, Agree(tok2, tok, L \ {N})
  PROVE  \E more \in [0 .. n + 1 -> -1 .. T - 1] :
           Accounted(map2, tok[N], tok2, L \ {N}, T, n + 1, more, given)
<1> DEFINE sid == tok[N]
           more == [m \in 0 .. n + 1 |-> IF m = n + 1 THEN sid ELSE list[m]]
<1>1. /\ list \in [0 .. n -> -1 .. T - 1] /\ list[0] = -1 /\ list[n] = free
      /\ \A m \in 1 .. n : list[m] # -1 /\ map[list[m]] = list[m - 1]
      /\ \A l, m \in 1 .. n : list[l] = list[m] => l = m
      /\ given <= T /\ \A m \in 1 .. n : list[m] < given
      /\ \A m \in 1 .. n : list[m] \in 0 .. T - 1
  BY FreeList DEF Accounted, Stacked
<1>2. sid \in 0 .. T - 1 /\ sid < given /\ map[sid] = N /\ \A m \in 1 .. n : sid # list[m]
  BY DEF Accounted, Entered
<1> HIDE DEF sid
<1>3. /\ more \in [0 .. n + 1 -> -1 .. T - 1] /\ more[n + 1] = sid
      /\ \A m \in 0 .. n : more[m] = list[m]
  BY <1>1, <1>2
<1> HIDE DEF more
<1>4. ASSUME NEW m \in 1 .. n + 1
      PROVE  m = n + 1 \/ (m \in 1 .. n /\ more[m] = list[m] /\ more[m - 1] = list[m - 1])
  BY <1>3
<1>5. Stacked(map2, sid, T, n + 1, more)
  <2>1. more[0] = -1 /\ more[n] = free
    BY <1>1, <1>3
  <2>2. ASSUME NEW m \in 1 .. n + 1 PROVE more[m] # -1 /\ map2[more[m]] = more[m - 1]
    <3>1. CASE m = n + 1
      BY <1>2, <1>3, <2>1, <3>1 DEF sid, Leads
    <3>2. CASE m \in 1 .. n
      <4>1. more[m] = list[m] /\ more[m - 1] = list[m - 1]
        BY <1>4, <3>2
      <4>2. list[m] # -1 /\ map[list[m]] = list[m - 1] /\ list[m] \in 0 .. T - 1 /\ list[m] # sid
        BY <1>1, <1>2, <3>2
      <4>3. QED
        BY <4>1, <4>2 DEF sid, Leads
    <3>3. QED
      BY <3>1, <3>2
  <2>3. ASSUME NEW l \in 1 .. n + 1, NEW m \in 1 .. n + 1, more[l] = more[m] PROVE l = m
    <3>1. CASE l \in 1 .. n /\ m \in 1 .. n
      BY <1>1, <1>3, <2>3, <3>1
    <3>2. CASE l \in 1 .. n /\ m = n + 1
      BY <1>2, <1>3, <2>3, <3>2
    <3>3. CASE l = n + 1 /\ m \in 1 .. n
      BY <1>2, <1>3, <2>3, <3>3
    <3>4. QED
      BY <3>1, <3>2, <3>3
  <2>4. QED
    BY <1>3, <2>1, <2>2, <2>3 DEF Stacked
<1>6. Entered(map2, tok2, L \ {N}, T, n + 1, more, given)
  <2>1. ASSUME NEW k \in L \ {N}
        PROVE  tok2[k] \in 0 .. T - 1 /\ tok2[k] < given /\ map2[tok2[k]] = k
               /\ \A m \in 1 .. n + 1 : tok2[k] # more[m]
    <3>1. /\ tok[k] \in 0 .. T - 1 /\ tok[k] < given /\ map[tok[k]] = k
          /\ \A m \in 1 .. n : tok[k] # list[m]
      BY DEF Accounted, Entered
    <3>2. tok2[k] = tok[k] /\ tok[k] # sid
      BY <1>2, <3>1 DEF Agree
    <3>3. \A m \in 1 .. n + 1 : tok[k] # more[m]
      BY <1>3, <1>4, <3>1, <3>2
    <3>4. QED
      BY <3>1, <3>2, <3>3 DEF sid, Leads
  <2>2. QED
    BY <2>1 DEF Entered
<1>7. \A m \in 1 .. n + 1 : more[m] < given
  BY <1>1, <1>2, <1>3, <1>4
<1>8. Accounted(map2, sid, tok2, L \ {N}, T, n + 1, more, given)
  BY <1>1, <1>5, <1>6, <1>7 DEF Accounted
<1>9. QED
  BY <1>3, <1>8, Zenon DEF sid

\* An entry that moves from N to K takes its token along.
LEMMA TakeAlong ==
  ASSUME NEW T \in Nat, NEW map, NEW free \in -1 .. T - 1, NEW tok, NEW L, NEW n \in Nat, NEW list,
         NEW given \in Int, Accounted(map, free, tok, L, T, n, list, given),
         NEW N \in L, NEW K,
         NEW map2, Leads(map2, map, T, tok[N], K),
         NEW tok2, Carried(tok2, tok, L, N, K)
  PROVE  list \in [0 .. n -> -1 .. T - 1]
         /\ Accounted(map2, free, tok2, (L \ {N}) \union {K}, T, n, list, given)
<1> DEFINE sid == tok[N]
<1>1. /\ list \in [0 .. n -> -1 .. T - 1] /\ list[0] = -1 /\ list[n] = free
      /\ \A m \in 1 .. n : list[m] # -1 /\ map[list[m]] = list[m - 1]
      /\ \A l, m \in 1 .. n : list[l] = list[m] => l = m
      /\ given <= T /\ \A m \in 1 .. n : list[m] < given
      /\ \A m \in 1 .. n : list[m] \in 0 .. T - 1
  BY FreeList DEF Accounted, Stacked
<1>2. sid \in 0 .. T - 1 /\ sid < given /\ map[sid] = N /\ \A m \in 1 .. n : sid # list[m]
  BY DEF Accounted, Entered
<1> HIDE DEF sid
<1>3. Stacked(map2, free, T, n, list)
  <2>1. ASSUME NEW m \in 1 .. n PROVE map2[list[m]] = list[m - 1]
    BY <1>1, <1>2 DEF sid, Leads
  <2>2. QED
    BY <1>1, <2>1 DEF Stacked
<1>a. K \notin L \ {N} /\ tok2[K] = tok[N] /\ Agree(tok2, tok, L \ {N})
  BY Zenon DEF Carried
<1>4. Entered(map2, tok2, (L \ {N}) \union {K}, T, n, list, given)
  <2>1. ASSUME NEW k \in L \ {N}
        PROVE  tok2[k] \in 0 .. T - 1 /\ tok2[k] < given /\ map2[tok2[k]] = k
               /\ \A m \in 1 .. n : tok2[k] # list[m]
    <3>1. /\ tok[k] \in 0 .. T - 1 /\ tok[k] < given /\ map[tok[k]] = k
          /\ \A m \in 1 .. n : tok[k] # list[m]
      BY DEF Accounted, Entered
    <3>2. tok2[k] = tok[k] /\ tok[k] # sid
      BY <1>2, <1>a, <3>1 DEF Agree
    <3>3. QED
      BY <3>1, <3>2 DEF sid, Leads
  <2>2. /\ tok2[K] \in 0 .. T - 1 /\ tok2[K] < given /\ map2[tok2[K]] = K
        /\ \A m \in 1 .. n : tok2[K] # list[m]
    BY <1>2, <1>a DEF sid, Leads
  <2>3. QED
    BY <2>1, <2>2 DEF Entered
<1>5. QED
  BY <1>1, <1>3, <1>4 DEF Accounted

\* The same for some free list.
LEMMA InOrderAdded ==
  ASSUME NEW T \in Nat, NEW map, NEW free \in -1 .. T - 1, NEW tok, NEW L, NEW N \in 0 .. T - 1,
         InOrder(map, free, tok, L, T, N), N \notin L, NEW sid, sid = IF free < 0 THEN N ELSE free,
         NEW map2, Leads(map2, map, T, sid, N),
         NEW tok2, tok2[N] = sid, Agree(tok2, tok, L)
  PROVE  InOrder(map2, IF free < 0 THEN free ELSE map[free], tok2, L \union {N}, T, N + 1)
<1>0. PICK n \in Nat :
        \E l \in [0 .. n -> -1 .. T - 1] : Accounted(map, free, tok, L, T, n, l, n + N)
  BY DEF InOrder
<1>1. PICK list \in [0 .. n -> -1 .. T - 1] : Accounted(map, free, tok, L, T, n, list, n + N)
  BY <1>0
<1>2. CASE free < 0
  <2>1. free = -1 /\ sid = N
    BY <1>2
  <2>a. Stacked(map, free, T, n, list)
    BY <1>1, Zenon DEF Accounted
  <2>2. n = 0
    <3>1. n # 0 => n \in 1 .. n
      OBVIOUS
    <3>2. QED
      BY <2>1, <2>a, <3>1 DEF Stacked
  <2>3. n + N = N /\ n + (N + 1) = N + 1
    BY <2>2
  <2>4. Accounted(map, -1, tok, L, T, n, list, N)
    BY <1>1, <2>1, <2>3
  <2>5. Accounted(map2, -1, tok2, L \union {N}, T, n, list, N + 1)
    BY <2>1, <2>4, MakeToken
  <2>6. QED
    BY <1>2, <2>1, <2>3, <2>5 DEF InOrder
<1>3. CASE free >= 0
  <2>1. free \in 0 .. T - 1 /\ sid = free /\ n + N \in Int
    BY <1>3
  <2>2. Leads(map2, map, T, free, N) /\ tok2[N] = free
    BY <2>1
  <2>3. PICK given \in Int : given = n + N
    BY <2>1
  <2>4. Accounted(map, free, tok, L, T, n, list, given)
    BY <1>1, <2>3
  <2>5. PICK r \in Nat : /\ r + 1 = n
                         /\ \E rest \in [0 .. r -> -1 .. T - 1] :
                              Accounted(map2, map[free], tok2, L \union {N}, T, r, rest, given)
    <3>1. free \in 0 .. T - 1 /\ N \notin L /\ Agree(tok2, tok, L)
      BY <2>1
    <3>2. Shorter(map2, map[free], tok2, L \union {N}, T, n, given)
      BY <2>2, <2>4, <3>1, TakeToken
    <3>3. QED
      BY <3>2, Zenon DEF Shorter
  <2>6. \E rest \in [0 .. r -> -1 .. T - 1] :
          Accounted(map2, map[free], tok2, L \union {N}, T, r, rest, r + (N + 1))
    <3>1. r + (N + 1) = given
      BY <2>3, <2>5
    <3>2. QED
      BY <2>5, <3>1
  <2>7. InOrder(map2, map[free], tok2, L \union {N}, T, N + 1)
    BY <2>6, Zenon DEF InOrder
  <2>8. QED
    BY <1>3, <2>7
<1>4. QED
  BY <1>2, <1>3

\* The tokens stay in order when an entry goes and its token leads the free list.
LEMMA InOrderGone ==
  ASSUME NEW T \in Nat, NEW map, NEW free \in -1 .. T - 1, NEW tok, NEW L, NEW size \in Int,
         InOrder(map, free, tok, L, T, size), NEW N \in L,
         NEW map2, Leads(map2, map, T, tok[N], free),
         NEW tok2, Agree(tok2, tok, L \ {N})
  PROVE  InOrder(map2, tok[N], tok2, L \ {N}, T, size - 1)
<1>0. PICK n \in Nat :
        \E l \in [0 .. n -> -1 .. T - 1] : Accounted(map, free, tok, L, T, n, l, n + size)
  BY DEF InOrder
<1>1. PICK list \in [0 .. n -> -1 .. T - 1] : Accounted(map, free, tok, L, T, n, list, n + size)
  BY <1>0
<1>2. n + size \in Int /\ n + 1 + (size - 1) = n + size /\ n + 1 \in Nat
  OBVIOUS
<1>3. \E more \in [0 .. n + 1 -> -1 .. T - 1] :
        Accounted(map2, tok[N], tok2, L \ {N}, T, n + 1, more, n + size)
  BY <1>1, <1>2, GiveBack
<1>4. QED
  BY <1>2, <1>3 DEF InOrder

\* The tokens stay in order when an entry moves and its token follows it.
LEMMA InOrderMoved ==
  ASSUME NEW T \in Nat, NEW map, NEW free \in -1 .. T - 1, NEW tok, NEW L, NEW size \in Int,
         InOrder(map, free, tok, L, T, size), NEW N \in L, NEW K,
         NEW map2, Leads(map2, map, T, tok[N], K),
         NEW tok2, Carried(tok2, tok, L, N, K)
  PROVE  InOrder(map2, free, tok2, (L \ {N}) \union {K}, T, size)
<1>0. PICK n \in Nat :
        \E l \in [0 .. n -> -1 .. T - 1] : Accounted(map, free, tok, L, T, n, l, n + size)
  BY DEF InOrder
<1>1. PICK list \in [0 .. n -> -1 .. T - 1] : Accounted(map, free, tok, L, T, n, list, n + size)
  BY <1>0
<1>2. n + size \in Int
  OBVIOUS
<1>3. Accounted(map2, free, tok2, (L \ {N}) \union {K}, T, n, list, n + size)
  BY <1>1, <1>2, TakeAlong
<1>4. QED
  BY <1>1, <1>3 DEF InOrder

\* And where only what is not at issue differs.
LEMMA InOrderSame ==
  ASSUME NEW T \in Nat, NEW map, NEW free \in -1 .. T - 1, NEW tok, NEW L, NEW size \in Int,
         InOrder(map, free, tok, L, T, size), NEW tok2, Agree(tok2, tok, L)
  PROVE  InOrder(map, free, tok2, L, T, size)
<1>0. PICK n \in Nat :
        \E l \in [0 .. n -> -1 .. T - 1] : Accounted(map, free, tok, L, T, n, l, n + size)
  BY DEF InOrder
<1>1. PICK list \in [0 .. n -> -1 .. T - 1] : Accounted(map, free, tok, L, T, n, list, n + size)
  BY <1>0
<1>2. Accounted(map, free, tok2, L, T, n, list, n + size)
  BY <1>1 DEF Accounted, Entered, Agree
<1>3. QED
  BY <1>2 DEF InOrder

\* What tidy arrays are like.
LEMMA TidyFields ==
  ASSUME NEW y, NEW at, NEW kept, Tidy(y, at, kept)
  PROVE  /\ Typed(y) /\ y.max = y.count /\ at \in 0 .. y.count /\ kept \in 0 .. at
         /\ y.listen <= y.count /\ (y.listen <= kept \/ kept = at)
         /\ \A k \in 0 .. y.listen - 1 : y.pfd[k].fd \in Listeners
         /\ y.total \in Nat \ {0} /\ y.listen \in 0 .. y.total /\ y.count \in 0 .. y.total
         /\ y.free \in -1 .. y.total - 1
         /\ y.sidmap \in [0 .. y.total - 1 -> -1 .. y.total - 1]
         /\ DOMAIN y.pfd = 0 .. y.total - 1
         /\ \A k \in 0 .. y.total - 1 : SidsOf(y)[k] = y.pfd[k].sid /\ y.pfd[k].sid \in 0 .. y.total - 1
<1>1. Typed(y)
  BY DEF Tidy, Shape
<1>2. y.pfd \in [0 .. y.total - 1 -> [fd : Sockets, cfd : Sockets, sid : 0 .. y.total - 1]]
  BY <1>1, ArrayFields
<1>3. \A k \in 0 .. y.total - 1 : SidsOf(y)[k] = y.pfd[k].sid /\ y.pfd[k].sid \in 0 .. y.total - 1
  BY <1>2 DEF SidsOf
<1>4. QED
  BY <1>1, <1>2, <1>3, ArrayFields DEF Tidy, Shape

\* Adding an entry at the end.
LEMMA AddTidy ==
  ASSUME NEW y, Tidy(y, 0, 0), NEW s \in Clients \union Listeners, y.count < y.total,
         ~(s \in Listeners /\ y.max > y.listen)
  PROVE  LET z == Add(y, s, s \in Listeners)
         IN  /\ Tidy(z, 0, 0) /\ z.total = y.total /\ z.count = y.count + 1
             /\ \A k \in 0 .. y.count - 1 : z.pfd[k] = y.pfd[k]
             /\ z.pfd[y.count].cfd = s
<1> DEFINE z == Add(y, s, s \in Listeners)
           N == y.count
           sid == IF y.free < 0 THEN N ELSE y.free
           e == [fd |-> s, cfd |-> s, sid |-> sid]
<1>1. /\ Typed(y) /\ y.max = N /\ y.listen <= N
      /\ \A k \in 0 .. y.listen - 1 : y.pfd[k].fd \in Listeners
      /\ y.total \in Nat \ {0} /\ y.listen \in 0 .. y.total /\ N \in 0 .. y.total - 1
      /\ y.free \in -1 .. y.total - 1 /\ sid \in 0 .. y.total - 1
      /\ DOMAIN y.sidmap = 0 .. y.total - 1 /\ DOMAIN y.pfd = 0 .. y.total - 1
      /\ \A k \in 0 .. y.total - 1 : SidsOf(y)[k] = y.pfd[k].sid
  BY TidyFields
<1>2. s \in Listeners => y.listen = N
  BY <1>1
<1>3. /\ Typed(z) /\ z.total = y.total
      /\ z.listen = IF s \in Listeners THEN y.listen + 1 ELSE y.listen
      /\ z.count = N + 1 /\ z.max = N + 1
      /\ z.free = IF y.free < 0 THEN y.free ELSE y.sidmap[y.free]
      /\ z.sidmap = [y.sidmap EXCEPT ![sid] = N]
      /\ z.pfd = [y.pfd EXCEPT ![N] = e]
  <2>1. s \in Sockets
    BY DEF Sockets
  <2>2. y.max = y.count /\ y.count < y.total /\ (s \in Listeners => y.listen = y.count)
    BY <1>1, <1>2
  <2>3. QED
    BY <1>1, <2>1, <2>2, AddFields, Zenon
<1> HIDE DEF z
<1>4. /\ \A k \in 0 .. N - 1 : z.pfd[k] = y.pfd[k]
      /\ z.pfd[N].fd = s /\ z.pfd[N].cfd = s /\ z.pfd[N].sid = sid
      /\ DOMAIN z.pfd = 0 .. y.total - 1
  <2>1. e.fd = s /\ e.cfd = s /\ e.sid = sid
    OBVIOUS
  <2> HIDE DEF e, sid
  <2>2. N \in 0 .. y.total - 1 /\ DOMAIN y.pfd = 0 .. y.total - 1 /\ z.pfd = [y.pfd EXCEPT ![N] = e]
    BY <1>1, <1>3
  <2> HIDE DEF N
  <2>3. z.pfd[N] = e /\ DOMAIN z.pfd = 0 .. y.total - 1
    BY <2>2
  <2>4. ASSUME NEW k \in 0 .. N - 1 PROVE z.pfd[k] = y.pfd[k]
    BY <2>2
  <2>5. QED
    BY <2>1, <2>3, <2>4
<1>5. Shape(z, 0, 0)
  <2> HIDE DEF N, e, sid
  <2>1. ASSUME NEW k \in 0 .. z.listen - 1 PROVE z.pfd[k].fd \in Listeners
    <3>1. k \in 0 .. y.listen - 1 \/ (s \in Listeners /\ k = N)
      BY <1>1, <1>2, <1>3
    <3>2. CASE k \in 0 .. y.listen - 1
      <4>1. k \in 0 .. N - 1 /\ y.pfd[k].fd \in Listeners
        BY <1>1, <3>2
      <4>2. QED
        BY <1>4, <4>1, Zenon
    <3>3. QED
      BY <1>4, <3>1, <3>2, Zenon
  <2>2. QED
    BY <1>1, <1>3, <2>1 DEF Shape
<1>6. Tokens(z, 0, 0)
  <2> DEFINE L == 0 .. N - 1
  <2> HIDE DEF e, sid
  <2>1. InOrder(y.sidmap, y.free, SidsOf(y), L, y.total, N)
    <3>1. Live(y, 0, 0) = L /\ 0 + (y.count - 0) = N
      BY <1>1 DEF Live
    <3>2. QED
      BY <3>1, Zenon DEF Tidy, Tokens
  <2>2. N \notin L
    BY <1>1
  <2>3. Leads(z.sidmap, y.sidmap, y.total, sid, N)
    BY <1>1, <1>3 DEF Leads
  <2>4. SidsOf(z)[N] = sid
    BY <1>1, <1>4 DEF SidsOf
  <2>5. ASSUME NEW k \in L PROVE SidsOf(z)[k] = SidsOf(y)[k]
    <3>1. k \in 0 .. y.total - 1 /\ k \in 0 .. N - 1
      BY <1>1
    <3>2. QED
      BY <1>1, <1>4, <3>1 DEF SidsOf
  <2>a. Agree(SidsOf(z), SidsOf(y), L)
    BY <2>5 DEF Agree
  <2>6. Live(z, 0, 0) = L \union {N} /\ 0 + (z.count - 0) = N + 1
    BY <1>1, <1>3 DEF Live
  <2>7. y.total \in Nat /\ N \in 0 .. y.total - 1 /\ y.free \in -1 .. y.total - 1
        /\ sid = IF y.free < 0 THEN N ELSE y.free
    BY <1>1 DEF sid
  <2> HIDE DEF L, N
  <2>8. InOrder(z.sidmap, IF y.free < 0 THEN y.free ELSE y.sidmap[y.free], SidsOf(z), L \union {N}, y.total, N + 1)
    BY <2>1, <2>2, <2>3, <2>4, <2>a, <2>7, InOrderAdded
  <2>9. QED
    BY <1>3, <2>6, <2>8, Zenon DEF Tokens
<1>7. QED
  BY <1>3, <1>4, <1>5, <1>6 DEF Tidy, z

\* Positions before and after a turn.
LEMMA Turned ==
  ASSUME NEW at \in Nat, NEW kept \in Nat, NEW n \in Nat, kept <= at, at < n
  PROVE  LET L == 0 .. kept - 1 \union at .. n - 1
         IN  /\ 0 .. kept - 1 \union at + 1 .. n - 1 = L \ {at}
             /\ 0 .. (kept + 1) - 1 \union at + 1 .. n - 1 = (L \ {at}) \union {kept}
             /\ at \in L /\ kept \notin L \ {at} /\ L \subseteq 0 .. n - 1
             /\ kept + (n - (at + 1)) = (kept + (n - at)) - 1
             /\ (kept + 1) + (n - (at + 1)) = kept + (n - at)
<1>1. \A k \in 0 .. (kept + 1) - 1 : k \in 0 .. kept - 1 \/ k = kept
  OBVIOUS
<1>2. \A k \in at .. n - 1 : k = at \/ k \in at + 1 .. n - 1
  OBVIOUS
<1>3. /\ 0 .. kept - 1 \subseteq 0 .. (kept + 1) - 1 /\ kept \in 0 .. (kept + 1) - 1
      /\ at + 1 .. n - 1 \subseteq at .. n - 1 /\ at \notin at + 1 .. n - 1
      /\ at \notin 0 .. kept - 1 /\ kept \notin 0 .. kept - 1
  OBVIOUS
<1>4. at \in at .. n - 1 /\ (kept # at => kept \notin at .. n - 1)
  OBVIOUS
<1>5. 0 .. kept - 1 \subseteq 0 .. n - 1 /\ at .. n - 1 \subseteq 0 .. n - 1
  OBVIOUS
<1>6. kept + (n - (at + 1)) = (kept + (n - at)) - 1 /\ (kept + 1) + (n - (at + 1)) = kept + (n - at)
  OBVIOUS
<1>7. PICK A, B, C, D : /\ A = 0 .. kept - 1 /\ B = 0 .. (kept + 1) - 1
                        /\ C = at .. n - 1 /\ D = at + 1 .. n - 1
  OBVIOUS
<1>8. B = A \union {kept} /\ C = D \union {at} /\ at \notin A /\ at \notin D /\ kept \notin A
  BY <1>1, <1>2, <1>3, <1>4, <1>7
<1>9. /\ A \union D = (A \union C) \ {at}
      /\ B \union D = ((A \union C) \ {at}) \union {kept}
      /\ at \in A \union C
  BY <1>8
<1>10. kept \notin (A \union C) \ {at}
  BY <1>4, <1>7, <1>8
<1>11. QED
  BY <1>5, <1>6, <1>7, <1>9, <1>10

\* Live entries and the listeners that are among them.
LEMMA LiveEntries ==
  ASSUME NEW y, NEW at, NEW kept, Tidy(y, at, kept)
  PROVE  /\ Live(y, at, kept) \subseteq 0 .. y.count - 1 /\ y.count <= y.total
         /\ \A k \in Live(y, at, kept) :
              k \in 0 .. y.total - 1 /\ y.sidmap[y.pfd[k].sid] = k
              /\ SidsOf(y)[k] = y.pfd[k].sid /\ y.pfd[k].sid \in 0 .. y.total - 1
<1>1. /\ y.count \in 0 .. y.total /\ at \in 0 .. y.count /\ kept \in 0 .. at /\ y.total \in Nat
      /\ \A k \in 0 .. y.total - 1 : SidsOf(y)[k] = y.pfd[k].sid /\ y.pfd[k].sid \in 0 .. y.total - 1
  BY TidyFields
<1>2. PICK n \in Nat : \E l \in [0 .. n -> -1 .. y.total - 1] :
        Accounted(y.sidmap, y.free, SidsOf(y), Live(y, at, kept), y.total, n, l,
                  n + (kept + (y.count - at)))
  BY Zenon DEF Tidy, Tokens, InOrder
<1>3. \A k \in Live(y, at, kept) : y.sidmap[SidsOf(y)[k]] = k
  BY <1>2 DEF Accounted, Entered
<1>4. Live(y, at, kept) \subseteq 0 .. y.count - 1 /\ 0 .. y.count - 1 \subseteq 0 .. y.total - 1
  BY <1>1 DEF Live
<1>5. QED
  BY <1>1, <1>3, <1>4

\* Clearing the entry of the turn.
LEMMA ClearTidy ==
  ASSUME NEW y, NEW at, NEW kept, Tidy(y, at, kept), at < y.count, y.pfd[at].fd \notin Listeners,
         NEW sid, sid = y.pfd[at].sid, NEW z, z = Clear(y, sid)
  PROVE  /\ Tidy(z, at, kept) /\ z.total = y.total /\ z.count = y.count
         /\ \A k \in 0 .. y.total - 1 : k # at => z.pfd[k] = y.pfd[k]
         /\ z.pfd[at].fd = NoSock /\ z.pfd[at].cfd = NoSock
<1>1. /\ Typed(y) /\ y.max = y.count /\ at \in 0 .. y.count - 1 /\ kept \in 0 .. at
      /\ y.listen <= y.count /\ (y.listen <= kept \/ kept = at)
      /\ \A k \in 0 .. y.listen - 1 : y.pfd[k].fd \in Listeners
      /\ y.total \in Nat \ {0} /\ y.listen \in 0 .. y.total /\ y.count \in 0 .. y.total
      /\ y.free \in -1 .. y.total - 1 /\ at \in 0 .. y.total - 1
      /\ DOMAIN y.pfd = 0 .. y.total - 1 /\ sid \in 0 .. y.total - 1
  BY TidyFields
<1>2. at \in Live(y, at, kept)
  BY <1>1 DEF Live
<1>3. y.sidmap[sid] = at
  BY <1>2, LiveEntries
<1>4. /\ Typed(z) /\ z.total = y.total /\ z.listen = y.listen /\ z.count = y.count
      /\ z.max = y.max /\ z.free = y.free /\ z.sidmap = y.sidmap
      /\ \A k \in 0 .. y.total - 1 : k # at => z.pfd[k] = y.pfd[k]
      /\ z.pfd[at].fd = NoSock /\ z.pfd[at].cfd = NoSock /\ z.pfd[at].sid = sid
      /\ DOMAIN z.pfd = 0 .. y.total - 1
  <2>1. at \in 0 .. y.count - 1 /\ Typed(y) /\ sid \in 0 .. y.total - 1
    BY <1>1
  <2>2. IsCleared(z, y, at)
    <3>1. y.sidmap[sid] = at
      BY <1>3, Zenon
    <3>2. PICK k : k = at
      OBVIOUS
    <3>3. k \in 0 .. y.count - 1 /\ y.sidmap[sid] = k
      BY <2>1, <3>1, <3>2, Zenon
    <3>4. IsCleared(Clear(y, sid), y, k)
      BY <2>1, <3>3, ClearFields, Zenon
    <3>5. QED
      BY <3>2, <3>4, Zenon
  <2>3. QED
    BY <2>2 DEF IsCleared
<1>7. Shape(z, at, kept)
  <2>1. ASSUME NEW k \in 0 .. z.listen - 1 PROVE z.pfd[k].fd \in Listeners
    <3>1. y.pfd[k].fd \in Listeners /\ k \in 0 .. y.total - 1
      <4>1. /\ y.listen \in Nat /\ y.total \in Nat /\ y.listen <= y.total /\ z.listen = y.listen
            /\ \A l \in 0 .. y.listen - 1 : y.pfd[l].fd \in Listeners
        BY <1>1, <1>4
      <4>2. QED
        BY <4>1
    <3>2. k # at
      BY <3>1
    <3>3. QED
      BY <1>4, <3>1, <3>2
  <2>2. QED
    BY <1>1, <1>4, <2>1 DEF Shape
<1>8. Tokens(z, at, kept)
  <2> DEFINE L == Live(y, at, kept)
             size == kept + (y.count - at)
  <2>1. InOrder(y.sidmap, y.free, SidsOf(y), L, y.total, size)
    BY Zenon DEF Tidy, Tokens
  <2>2. L \subseteq 0 .. y.total - 1 /\ y.total \in Nat /\ size \in Int
    <3>1. /\ kept \in Nat /\ at \in Nat /\ y.count \in Nat /\ y.total \in Nat
          /\ kept <= at /\ at < y.count /\ y.count <= y.total
      BY <1>1
    <3>2. L \subseteq 0 .. y.count - 1
      BY <3>1 DEF Live
    <3>3. 0 .. y.count - 1 \subseteq 0 .. y.total - 1
      BY <3>1
    <3>4. kept + (y.count - at) \in Int
      <4>1. PICK n, a : n = y.count /\ a = at
        OBVIOUS
      <4>2. n \in Nat /\ a \in Nat /\ kept \in Nat
        BY <3>1, <4>1, Zenon
      <4>3. QED
        BY <4>1, <4>2
    <3> HIDE DEF L
    <3>5. QED
      BY <3>1, <3>2, <3>3, <3>4, Zenon
  <2>3. Agree(SidsOf(z), SidsOf(y), L)
    <3>1. ASSUME NEW k \in 0 .. y.total - 1 PROVE z.pfd[k].sid = y.pfd[k].sid
      BY <1>4
    <3>2. QED
      BY <1>1, <1>4, <2>2, <3>1 DEF Agree, SidsOf
  <2>4. Live(z, at, kept) = L /\ kept + (z.count - at) = size
    BY <1>4 DEF Live
  <2> HIDE DEF L, size
  <2>5. InOrder(y.sidmap, y.free, SidsOf(z), L, y.total, size)
    BY <1>1, <2>1, <2>2, <2>3, InOrderSame
  <2>6. QED
    BY <1>4, <2>4, <2>5, Zenon DEF Tokens
<1>9. Tidy(z, at, kept)
  BY <1>7, <1>8 DEF Tidy
<1>10. QED
  BY <1>4, <1>9

\* A turn that moves the entry on, or leaves it behind.
LEMMA MoveTidy ==
  ASSUME NEW y, NEW at, NEW kept, Tidy(y, at, kept), at < y.count,
         NEW z, z = Move(y, at, kept), NEW e, e = y.pfd[at]
  PROVE  /\ z.total = y.total /\ z.count = y.count
         /\ \A k \in 0 .. y.total - 1 : k # kept => z.pfd[k] = y.pfd[k]
         /\ z.pfd[kept] = e
         /\ Tidy(z, at + 1, IF e.fd = NoSock THEN kept ELSE kept + 1)
<1> DEFINE sid == e.sid
           to == IF e.fd = NoSock THEN kept ELSE kept + 1
           L == Live(y, at, kept)
           size == kept + (y.count - at)
<1>1. /\ Typed(y) /\ y.max = y.count /\ at \in 0 .. y.count - 1 /\ kept \in 0 .. at
      /\ y.listen <= y.count /\ (y.listen <= kept \/ kept = at)
      /\ \A k \in 0 .. y.listen - 1 : y.pfd[k].fd \in Listeners
      /\ y.total \in Nat \ {0} /\ y.listen \in 0 .. y.total /\ y.count \in 0 .. y.total
      /\ y.free \in -1 .. y.total - 1 /\ at \in 0 .. y.total - 1 /\ kept \in 0 .. y.total - 1
      /\ DOMAIN y.pfd = 0 .. y.total - 1 /\ sid \in 0 .. y.total - 1
      /\ DOMAIN y.sidmap = 0 .. y.total - 1
      /\ \A k \in 0 .. y.total - 1 : SidsOf(y)[k] = y.pfd[k].sid
  <2>1. /\ Typed(y) /\ y.max = y.count /\ at \in 0 .. y.count - 1 /\ kept \in 0 .. at
        /\ y.listen <= y.count /\ (y.listen <= kept \/ kept = at)
        /\ y.total \in Nat \ {0} /\ y.listen \in 0 .. y.total /\ y.count \in 0 .. y.total
    BY TidyFields
  <2>2. /\ y.free \in -1 .. y.total - 1 /\ DOMAIN y.pfd = 0 .. y.total - 1
        /\ y.sidmap \in [0 .. y.total - 1 -> -1 .. y.total - 1]
        /\ \A k \in 0 .. y.listen - 1 : y.pfd[k].fd \in Listeners
    BY TidyFields
  <2>3. \A k \in 0 .. y.total - 1 : SidsOf(y)[k] = y.pfd[k].sid /\ y.pfd[k].sid \in 0 .. y.total - 1
    BY TidyFields
  <2>4. DOMAIN y.sidmap = 0 .. y.total - 1
    BY <2>2
  <2>5. at \in 0 .. y.total - 1 /\ kept \in 0 .. y.total - 1
    BY <2>1
  <2>6. QED
    BY <2>1, <2>2, <2>3, <2>4, <2>5
<1>2. /\ Typed(z) /\ z.total = y.total /\ z.listen = y.listen /\ z.count = y.count
      /\ z.max = y.max
      /\ z.free = IF e.fd = NoSock THEN sid ELSE y.free
      /\ Leads(z.sidmap, y.sidmap, y.total, sid, IF e.fd = NoSock THEN y.free ELSE kept)
      /\ z.pfd[kept] = e /\ DOMAIN z.pfd = 0 .. y.total - 1
      /\ \A k \in 0 .. y.total - 1 : k # kept => z.pfd[k] = y.pfd[k]
  <2>1. at \in 0 .. y.total - 1 /\ kept \in 0 .. y.total - 1 /\ Typed(y)
    BY <1>1
  <2>2. IsMoved(z, y, e, kept)
    BY <2>1, MoveFields
  <2>3. QED
    BY <2>2 DEF IsMoved
<1>4. NoSock \notin Listeners
  BY PollAssumption
<1>5. to \in Nat /\ to <= at + 1 /\ (y.listen <= to \/ to = at + 1)
  <2>1. CASE e.fd = NoSock
    <3>1. ~(at < y.listen)
      BY <1>1, <1>4, <2>1
    <3>2. QED
      BY <1>1, <2>1, <3>1
  <2>2. CASE e.fd # NoSock
    BY <1>1, <2>2
  <2>3. QED
    BY <2>1, <2>2
<1>6. Shape(z, at + 1, to)
  <2>1. ASSUME NEW k \in 0 .. z.listen - 1 PROVE z.pfd[k].fd \in Listeners
    <3>1. y.pfd[k].fd \in Listeners /\ k \in 0 .. y.total - 1
      BY <1>1, <1>2
    <3>2. k = kept => k = at
      BY <1>1, <1>2
    <3>3. QED
      BY <1>2, <3>1, <3>2
  <2> HIDE DEF to
  <2>2. QED
    BY <1>1, <1>2, <1>5, <2>1 DEF Shape
<1>7. Tokens(z, at + 1, to)
  <2>1. InOrder(y.sidmap, y.free, SidsOf(y), L, y.total, size)
    BY Zenon DEF Tidy, Tokens
  <2>2. /\ y.total \in Nat /\ size \in Int /\ at \in L /\ kept \notin L \ {at}
        /\ L \subseteq 0 .. y.total - 1
    <3>1. at \in Nat /\ kept \in Nat /\ y.count \in Nat /\ kept <= at /\ at < y.count
      BY <1>1
    <3>2. at \in L /\ kept \notin L \ {at} /\ L \subseteq 0 .. y.count - 1
      BY <3>1, Turned DEF Live
    <3>3. 0 .. y.count - 1 \subseteq 0 .. y.total - 1 /\ y.total \in Nat /\ size \in Int
      BY <1>1
    <3>4. QED
      BY <3>2, <3>3
  <2>a. /\ Live(z, at + 1, kept) = L \ {at} /\ Live(z, at + 1, kept + 1) = (L \ {at}) \union {kept}
        /\ kept + (z.count - (at + 1)) = size - 1 /\ (kept + 1) + (z.count - (at + 1)) = size
    <3>1. at \in Nat /\ kept \in Nat /\ y.count \in Nat /\ kept <= at /\ at < y.count /\ z.count = y.count
      BY <1>1, <1>2
    <3>2. QED
      BY <3>1, Turned DEF Live
  <2>3. SidsOf(y)[at] = sid
    BY <1>1
  <2>4. Agree(SidsOf(z), SidsOf(y), L \ {at})
    <3>1. ASSUME NEW k \in L \ {at} PROVE k \in 0 .. y.total - 1 /\ z.pfd[k] = y.pfd[k]
      BY <1>2, <2>2
    <3> HIDE DEF L
    <3>2. QED
      BY <1>1, <1>2, <3>1 DEF Agree, SidsOf
  <2>5. SidsOf(z)[kept] = sid
    BY <1>1, <1>2 DEF SidsOf
  <2>6. CASE e.fd = NoSock
    <3>1. Leads(z.sidmap, y.sidmap, y.total, SidsOf(y)[at], y.free) /\ z.free = SidsOf(y)[at]
      BY <1>1, <1>2, <2>3, <2>6
    <3>2. Live(z, at + 1, to) = L \ {at} /\ to + (z.count - (at + 1)) = size - 1
      BY <2>6, <2>a
    <3> HIDE DEF L, size, to, sid
    <3>3. InOrder(z.sidmap, SidsOf(y)[at], SidsOf(z), L \ {at}, y.total, size - 1)
      BY <1>1, <2>1, <2>2, <2>4, <3>1, InOrderGone
    <3>4. QED
      BY <1>2, <3>1, <3>2, <3>3, Zenon DEF Tokens
  <2>7. CASE e.fd # NoSock
    <3>1. /\ Leads(z.sidmap, y.sidmap, y.total, SidsOf(y)[at], kept) /\ z.free = y.free
          /\ SidsOf(z)[kept] = SidsOf(y)[at]
      BY <1>1, <1>2, <2>3, <2>5, <2>7
    <3>2. Live(z, at + 1, to) = (L \ {at}) \union {kept} /\ to + (z.count - (at + 1)) = size
      BY <2>7, <2>a
    <3> HIDE DEF L, size, to, sid
    <3>3. InOrder(z.sidmap, y.free, SidsOf(z), (L \ {at}) \union {kept}, y.total, size)
      <4>1. y.free \in -1 .. y.total - 1 /\ Carried(SidsOf(z), SidsOf(y), L, at, kept)
        BY <1>1, <2>2, <2>4, <3>1 DEF Carried
      <4>2. QED
        BY <2>1, <2>2, <3>1, <4>1, InOrderMoved
    <3>4. QED
      BY <1>2, <3>1, <3>2, <3>3, Zenon DEF Tokens
  <2>8. QED
    BY <2>6, <2>7
<1>8. Tidy(z, at + 1, to)
  BY <1>6, <1>7 DEF Tidy
<1>9. QED
  BY <1>2, <1>8

\* The end of a pass: what is behind the entries kept is cut off.
Cut(y, n) == [y EXCEPT !.count = n, !.max = n]

\* Cutting off what the pass has not kept leaves the arrays tidy, outside a pass.
LEMMA CutTidy ==
  ASSUME NEW y, NEW kept, Tidy(y, y.count, kept), NEW z, z = Cut(y, kept)
  PROVE  Tidy(z, 0, 0) /\ z.total = y.total /\ z.count = kept /\ z.pfd = y.pfd
<1> DEFINE c == [y EXCEPT !.count = kept, !.max = kept]
<1>1. /\ Typed(y) /\ kept \in 0 .. y.count /\ y.count \in 0 .. y.total
      /\ y.listen <= y.count /\ (y.listen <= kept \/ kept = y.count)
      /\ \A k \in 0 .. y.listen - 1 : y.pfd[k].fd \in Listeners
      /\ y.total \in Nat \ {0} /\ y.listen \in 0 .. y.total
  BY TidyFields
<1>2. /\ Typed(z) /\ z.total = y.total /\ z.listen = y.listen /\ z.count = kept /\ z.max = kept
      /\ z.free = y.free /\ z.sidmap = y.sidmap /\ z.pfd = y.pfd
  <2>1. kept \in 0 .. y.total
    BY <1>1
  <2>2. QED
    <3>1. /\ Typed(c) /\ c.total = y.total /\ c.listen = y.listen /\ c.count = kept /\ c.max = kept
          /\ c.free = y.free /\ c.sidmap = y.sidmap /\ c.pfd = y.pfd
      BY <1>1, <2>1, CutFields, Zenon
    <3> HIDE DEF c
    <3>2. z = c
      BY Zenon DEF c, Cut
    <3>3. QED
      BY <3>1, <3>2, Zenon
<1>3. Shape(z, 0, 0)
  BY <1>1, <1>2 DEF Shape
<1>4. Tokens(z, 0, 0)
  <2>1. Live(z, 0, 0) = Live(y, y.count, kept) /\ 0 + (z.count - 0) = kept + (y.count - y.count)
    BY <1>1, <1>2 DEF Live
  <2>2. SidsOf(z) = SidsOf(y)
    BY <1>2 DEF SidsOf
  <2>3. InOrder(y.sidmap, y.free, SidsOf(y), Live(y, y.count, kept), y.total, kept + (y.count - y.count))
    BY Zenon DEF Tidy, Tokens
  <2>4. QED
    BY <1>2, <2>1, <2>2, <2>3, Zenon DEF Tokens
<1>5. QED
  BY <1>2, <1>3, <1>4 DEF Tidy

\* A pass that was stopped where no gap was to be closed yet.
LEMMA WholeTidy ==
  ASSUME NEW y, NEW at, Tidy(y, at, at)
  PROVE  Tidy(y, 0, 0) /\ Live(y, 0, 0) = Live(y, at, at)
<1>1. Shape(y, 0, 0) /\ at \in 0 .. y.count /\ y.count \in Nat
  BY TidyFields DEF Shape
<1>2. Live(y, 0, 0) = Live(y, at, at) /\ 0 + (y.count - 0) = at + (y.count - at)
  BY <1>1 DEF Live
<1>3. InOrder(y.sidmap, y.free, SidsOf(y), Live(y, at, at), y.total, at + (y.count - at))
  BY Zenon DEF Tidy, Tokens
<1>4. Tokens(y, 0, 0)
  BY <1>2, <1>3, Zenon DEF Tokens
<1>5. QED
  BY <1>1, <1>2, <1>4, Zenon DEF Tidy

\* New arrays.
LEMMA NewTidy ==
  ASSUME NEW T \in Nat \ {0}
  PROVE  LET z == NewSlots(T) IN Tidy(z, 0, 0) /\ z.total = T /\ z.count = 0
<1> DEFINE z == NewSlots(T)
<1>1. /\ z.total = T /\ z.listen = 0 /\ z.count = 0 /\ z.max = 0 /\ z.free = -1
      /\ z.sidmap = [k \in 0 .. T - 1 |-> 0] /\ z.pfd = [k \in 0 .. T - 1 |-> Unused]
  BY Zenon DEF NewSlots
<1>2. z \in ArraysOf(T)
  <2>1. Unused \in [fd : Sockets, cfd : Sockets, sid : 0 .. T - 1]
    BY DEF Unused, Sockets
  <2> HIDE DEF Sockets
  <2>2. QED
    BY <2>1 DEF NewSlots, ArraysOf
<1> HIDE DEF z
<1>3. Typed(z)
  BY <1>1, <1>2 DEF Typed, Unused
<1>4. Shape(z, 0, 0)
  BY <1>1, <1>3 DEF Shape
<1>5. Live(z, 0, 0) = {} /\ 0 + (z.count - 0) = 0
  BY <1>1 DEF Live
<1>6. InOrder(z.sidmap, z.free, SidsOf(z), {}, T, 0)
  <2> DEFINE list == [k \in 0 .. 0 |-> -1]
  <2>1. list \in [0 .. 0 -> -1 .. T - 1] /\ list[0] = -1
    OBVIOUS
  <2> HIDE DEF list
  <2>2. Stacked(z.sidmap, z.free, T, 0, list)
    BY <1>1, <2>1 DEF Stacked
  <2>3. Accounted(z.sidmap, z.free, SidsOf(z), {}, T, 0, list, 0)
    BY <2>2 DEF Accounted, Entered
  <2>4. 0 + 0 = 0
    OBVIOUS
  <2>5. QED
    BY <2>1, <2>3, <2>4 DEF InOrder
<1>7. Tokens(z, 0, 0)
  BY <1>1, <1>5, <1>6, Zenon DEF Tokens
<1>8. QED
  BY <1>1, <1>4, <1>7, Zenon DEF Tidy, z

(***************************************************************************)
(* The clients that have entries.                                          *)
(***************************************************************************)

\* No socket, a client and a listener are told apart.
LEMMA NoClient == NoSock \notin Clients /\ NoSock \notin Listeners /\ Clients \intersect Listeners = {}
BY PollAssumption DEF Clients

\* An added client joins those that have entries, once.
LEMMA AddClients ==
  ASSUME NEW y, NEW z, NEW s, y.count \in Nat, z.count = y.count + 1,
         \A k \in 0 .. y.count - 1 : z.pfd[k] = y.pfd[k], z.pfd[y.count].cfd = s,
         Once(y, 0, 0), s \in Clients => s \notin ClientsIn(y, 0, 0)
  PROVE  /\ Once(z, 0, 0)
         /\ ClientsIn(z, 0, 0) = ClientsIn(y, 0, 0) \union ({s} \intersect Clients)
<1> DEFINE L == 0 .. y.count - 1
           M == 0 .. (y.count + 1) - 1
<1>1. Live(y, 0, 0) = L /\ Live(z, 0, 0) = M
  BY DEF Live
<1>2. M = L \union {y.count} /\ y.count \notin L
  OBVIOUS
<1>3. \A k \in L : z.pfd[k].cfd = y.pfd[k].cfd
  OBVIOUS
<1> HIDE DEF L, M
<1>4. ClientsIn(y, 0, 0) = {y.pfd[k].cfd : k \in L} \intersect Clients
  BY <1>1, Zenon DEF ClientsIn
<1>5. ClientsIn(z, 0, 0) = {z.pfd[k].cfd : k \in M} \intersect Clients
  BY <1>1, Zenon DEF ClientsIn
<1>6. ClientsIn(z, 0, 0) = ClientsIn(y, 0, 0) \union ({s} \intersect Clients)
  BY <1>2, <1>3, <1>4, <1>5
<1>7. Once(z, 0, 0)
  <2>1. \A k, l \in L : y.pfd[k].cfd = y.pfd[l].cfd /\ y.pfd[k].cfd \in Clients => k = l
    BY <1>1, Zenon DEF Once
  <2>2. \A k \in L : s \in Clients => y.pfd[k].cfd # s
    BY <1>4
  <2>3. \A k, l \in M : z.pfd[k].cfd = z.pfd[l].cfd /\ z.pfd[k].cfd \in Clients => k = l
    BY <1>2, <1>3, <2>1, <2>2
  <2>4. QED
    BY <1>1, <2>3, Zenon DEF Once
<1>8. QED
  BY <1>6, <1>7

\* A cleared entry takes its client, and no other, from those that have entries.
LEMMA ClearClients ==
  ASSUME NEW y, NEW at, NEW kept, NEW z, Tidy(y, at, kept), at < y.count, z.count = y.count,
         \A k \in 0 .. y.total - 1 : k # at => z.pfd[k] = y.pfd[k], z.pfd[at].cfd = NoSock,
         Once(y, at, kept)
  PROVE  /\ Once(z, at, kept)
         /\ ClientsIn(z, at, kept) = ClientsIn(y, at, kept) \ {y.pfd[at].cfd}
<1> DEFINE L == Live(y, at, kept)
<1>1. Live(z, at, kept) = L
  BY DEF Live
<1>2. L \subseteq 0 .. y.total - 1 /\ at \in L
  <2>1. /\ kept \in Nat /\ at \in Nat /\ y.count \in Nat /\ y.total \in Nat
        /\ kept <= at /\ at < y.count /\ y.count <= y.total
    BY TidyFields
  <2>2. L \subseteq 0 .. y.count - 1 /\ at \in L
    BY <2>1, Turned DEF Live
  <2>3. QED
    BY <2>1, <2>2
<1>3. \A k \in L : k # at => z.pfd[k].cfd = y.pfd[k].cfd
  BY <1>2
<1>4. \A k, l \in L : y.pfd[k].cfd = y.pfd[l].cfd /\ y.pfd[k].cfd \in Clients => k = l
  BY Zenon DEF Once
<1>5. ClientsIn(y, at, kept) = {y.pfd[k].cfd : k \in L} \intersect Clients
  BY Zenon DEF ClientsIn
<1>6. ClientsIn(z, at, kept) = {z.pfd[k].cfd : k \in L} \intersect Clients
  BY <1>1, Zenon DEF ClientsIn
<1> HIDE DEF L
<1>7. ClientsIn(z, at, kept) = ClientsIn(y, at, kept) \ {y.pfd[at].cfd}
  BY <1>2, <1>3, <1>4, <1>5, <1>6, NoClient
<1>8. \A k, l \in L : z.pfd[k].cfd = z.pfd[l].cfd /\ z.pfd[k].cfd \in Clients => k = l
  BY <1>3, <1>4, NoClient
<1>9. Once(z, at, kept)
  BY <1>1, <1>8, Zenon DEF Once
<1>10. QED
  BY <1>7, <1>9

\* Moving an entry, or dropping an empty one, leaves the same clients.
LEMMA MoveClients ==
  ASSUME NEW y, NEW at, NEW kept, Tidy(y, at, kept), at < y.count, Once(y, at, kept),
         NEW e, e = y.pfd[at], NEW z, z.count = y.count,
         \A k \in 0 .. y.total - 1 : k # kept => z.pfd[k] = y.pfd[k], z.pfd[kept] = e,
         NEW to, to = IF e.fd = NoSock THEN kept ELSE kept + 1
  PROVE  Once(z, at + 1, to) /\ ClientsIn(z, at + 1, to) = ClientsIn(y, at, kept)
<1> DEFINE L == Live(y, at, kept)
<1>1. /\ kept \in Nat /\ at \in Nat /\ y.count \in Nat /\ y.total \in Nat
      /\ kept <= at /\ at < y.count /\ y.count <= y.total /\ Typed(y)
  BY TidyFields
<1>2. e.cfd = e.fd
  BY <1>1, ArrayFields
<1>3. /\ L \subseteq 0 .. y.total - 1 /\ at \in L /\ kept \notin L \ {at}
      /\ Live(z, at + 1, kept) = L \ {at} /\ Live(z, at + 1, kept + 1) = (L \ {at}) \union {kept}
  <2>1. /\ L \subseteq 0 .. y.count - 1 /\ at \in L /\ kept \notin L \ {at}
        /\ Live(z, at + 1, kept) = L \ {at} /\ Live(z, at + 1, kept + 1) = (L \ {at}) \union {kept}
    BY <1>1, Turned DEF Live
  <2>2. 0 .. y.count - 1 \subseteq 0 .. y.total - 1
    BY <1>1
  <2>3. QED
    BY <2>1, <2>2
<1>4. \A k \in L \ {at} : z.pfd[k].cfd = y.pfd[k].cfd
  BY <1>3
<1>5. \A k, l \in L : y.pfd[k].cfd = y.pfd[l].cfd /\ y.pfd[k].cfd \in Clients => k = l
  BY Zenon DEF Once
<1>6. ClientsIn(y, at, kept) = {y.pfd[k].cfd : k \in L} \intersect Clients
  BY Zenon DEF ClientsIn
<1>7. PICK M : M = Live(z, at + 1, to)
  OBVIOUS
<1>8. ClientsIn(z, at + 1, to) = {z.pfd[k].cfd : k \in M} \intersect Clients
  BY <1>7, Zenon DEF ClientsIn
<1> HIDE DEF L
<1>9. CASE e.fd = NoSock
  <2>1. M = L \ {at}
    BY <1>3, <1>7, <1>9
  <2>2. ClientsIn(z, at + 1, to) = ClientsIn(y, at, kept)
    BY <1>2, <1>3, <1>4, <1>6, <1>8, <1>9, <2>1, NoClient
  <2>3. \A k, l \in M : z.pfd[k].cfd = z.pfd[l].cfd /\ z.pfd[k].cfd \in Clients => k = l
    BY <1>4, <1>5, <2>1
  <2>4. QED
    BY <1>7, <2>2, <2>3, Zenon DEF Once
<1>10. CASE e.fd # NoSock
  <2>1. M = (L \ {at}) \union {kept} /\ z.pfd[kept].cfd = y.pfd[at].cfd
    BY <1>3, <1>7, <1>10
  <2>2. ClientsIn(z, at + 1, to) = ClientsIn(y, at, kept)
    <3>1. ASSUME NEW k \in M PROVE \E l \in L : z.pfd[k].cfd = y.pfd[l].cfd
      BY <1>3, <1>4, <2>1
    <3>2. ASSUME NEW l \in L PROVE \E k \in M : z.pfd[k].cfd = y.pfd[l].cfd
      <4>1. CASE l = at
        BY <2>1, <4>1
      <4>2. CASE l # at
        BY <1>4, <2>1, <4>2
      <4>3. QED
        BY <4>1, <4>2
    <3>3. QED
      BY <1>6, <1>8, <3>1, <3>2
  <2>3. \A k, l \in M : z.pfd[k].cfd = z.pfd[l].cfd /\ z.pfd[k].cfd \in Clients => k = l
    BY <1>3, <1>4, <1>5, <2>1
  <2>4. QED
    BY <1>7, <2>2, <2>3, Zenon DEF Once
<1>11. QED
  BY <1>9, <1>10

\* Where the same entries are live the same clients are there.
LEMMA SameClients ==
  ASSUME NEW y, NEW z, z.pfd = y.pfd, NEW a, NEW b, NEW c, NEW d, Live(z, c, d) = Live(y, a, b),
         Once(y, a, b)
  PROVE  Once(z, c, d) /\ ClientsIn(z, c, d) = ClientsIn(y, a, b)
BY Zenon DEF Once, ClientsIn

\* Elements that come to a queue and leave it.
LEMMA PushElement ==
  ASSUME NEW q \in Seq(Clients \union Listeners), NEW s \in Clients \union Listeners,
         Single(q), s \in Clients => s \notin Among(q)
  PROVE  Single(Append(q, s)) /\ Among(Append(q, s)) = Among(q) \union ({s} \intersect Clients)
<1>1. PICK r : r = Append(q, s)
  OBVIOUS
<1>2. PICK n \in Nat : n = Len(q)
  OBVIOUS
<1>3. /\ DOMAIN q = 1 .. n /\ DOMAIN r = 1 .. n + 1 /\ r[n + 1] = s
      /\ \A k \in 1 .. n : r[k] = q[k]
  BY <1>1, <1>2
<1>4. 1 .. n + 1 = (1 .. n) \union {n + 1} /\ n + 1 \notin 1 .. n
  OBVIOUS
<1>5. Among(r) = Among(q) \union ({s} \intersect Clients)
  BY <1>3, <1>4 DEF Among
<1>6. \A k \in 1 .. n : s \in Clients => q[k] # s
  BY <1>3 DEF Among
<1>7. Single(r)
  BY <1>3, <1>4, <1>6 DEF Single
<1>8. QED
  BY <1>1, <1>5, <1>7

\* What is popped from the queue is no longer in it: xs_queue_pop.
LEMMA PopElement ==
  ASSUME NEW q \in Seq(Clients \union Listeners), q # <<>>, Single(q)
  PROVE  /\ Single(Tail(q)) /\ Among(Tail(q)) = Among(q) \ {Head(q)}
         /\ Head(q) \in Clients => Head(q) \in Among(q)
         /\ Head(q) \in Clients \union Listeners
<1>1. PICK r : r = Tail(q)
  OBVIOUS
<1>2. PICK n \in Nat : n + 1 = Len(q)
  <2>1. Len(q) \in Nat /\ Len(q) # 0
    OBVIOUS
  <2>2. Len(q) - 1 \in Nat /\ (Len(q) - 1) + 1 = Len(q)
    BY <2>1
  <2>3. QED
    BY <2>2
<1>3. /\ DOMAIN q = 1 .. n + 1 /\ DOMAIN r = 1 .. n /\ Head(q) = q[1]
      /\ \A k \in 1 .. n : r[k] = q[k + 1]
  BY <1>1, <1>2
<1>4. 1 \in 1 .. n + 1 /\ \A k \in 1 .. n : k + 1 \in 1 .. n + 1 /\ k + 1 # 1
  OBVIOUS
<1>5. \A k \in 1 .. n + 1 : k = 1 \/ \E l \in 1 .. n : k = l + 1
  <2>1. ASSUME NEW k \in 1 .. n + 1, k # 1 PROVE k - 1 \in 1 .. n /\ k = (k - 1) + 1
    BY <2>1
  <2>2. QED
    BY <2>1
<1>6. \A k, l \in 1 .. n + 1 : q[k] = q[l] /\ q[k] \in Clients => k = l
  BY <1>3 DEF Single
<1>7. Among(r) = Among(q) \ {q[1]}
  <2>1. Among(q) = {q[k] : k \in 1 .. n + 1} \intersect Clients
    BY <1>3, Zenon DEF Among
  <2>2. Among(r) = {r[k] : k \in 1 .. n} \intersect Clients
    BY <1>3, Zenon DEF Among
  <2>3. ASSUME NEW c \in Among(r) PROVE c \in Among(q) \ {q[1]}
    <3>1. PICK k \in 1 .. n : c = q[k + 1] /\ c \in Clients
      BY <1>3, <2>2
    <3>2. QED
      BY <1>4, <1>6, <2>1, <3>1
  <2>4. ASSUME NEW c \in Among(q) \ {q[1]} PROVE c \in Among(r)
    <3>1. PICK k \in 1 .. n + 1 : c = q[k] /\ c \in Clients
      BY <2>1
    <3>2. PICK l \in 1 .. n : k = l + 1
      BY <1>5, <2>4, <3>1
    <3>3. c = r[l]
      BY <1>3, <3>1, <3>2
    <3>4. QED
      BY <2>2, <3>1, <3>3
  <2>5. QED
    BY <2>3, <2>4
<1>8. \A k, l \in 1 .. n : r[k] = r[l] /\ r[k] \in Clients => k = l
  <2>1. ASSUME NEW k \in 1 .. n, NEW l \in 1 .. n, r[k] = r[l], r[k] \in Clients PROVE k = l
    <3>1. q[k + 1] = q[l + 1] /\ q[k + 1] \in Clients
      BY <1>3, <2>1
    <3>2. k + 1 = l + 1
      BY <1>4, <1>6, <3>1
    <3>3. QED
      BY <3>2
  <2>2. QED
    BY <2>1
<1>9. Single(r)
  BY <1>3, <1>8, Zenon DEF Single
<1>10. Head(q) \in Clients => Head(q) \in Among(q)
  BY <1>3, <1>4 DEF Among
<1>11. Head(q) \in Clients \union Listeners
  BY <1>3, <1>4
<1>12. Single(Tail(q)) /\ Among(Tail(q)) = Among(q) \ {Head(q)}
  BY <1>1, <1>7, <1>9
<1>13. QED
  BY <1>10, <1>11, <1>12, Zenon

\* Sockets that come to a hand and leave it.
LEMMA TakeInHand ==
  ASSUME NEW h, DOMAIN h = Xps, Single(h), NEW x \in Xps, h[x] = NoSock, NEW c \in Clients,
         c \notin Among(h), NEW g, DOMAIN g = Xps, g[x] = c, \A u \in Xps : u # x => g[u] = h[u]
  PROVE  Single(g) /\ Among(g) = Among(h) \union {c}
<1>1. DOMAIN g = Xps /\ g[x] = c /\ \A u \in Xps : u # x => g[u] = h[u]
  OBVIOUS
<1>2. Among(g) = Among(h) \union {c}
  BY <1>1, NoClient DEF Among
<1>3. \A u \in Xps : h[u] # c
  BY DEF Among
<1>4. Single(g)
  BY <1>1, <1>3 DEF Single
<1>5. QED
  BY <1>2, <1>4

\* A hand that has put its client down is empty.
LEMMA PutDown ==
  ASSUME NEW h, DOMAIN h = Xps, Single(h), NEW x \in Xps, h[x] \in Clients, NEW g,
         g = [h EXCEPT ![x] = NoSock]
  PROVE  Single(g) /\ Among(g) = Among(h) \ {h[x]} /\ h[x] \in Among(h)
<1>1. DOMAIN g = Xps /\ g[x] = NoSock /\ \A u \in Xps : u # x => g[u] = h[u]
  OBVIOUS
<1>2. \A u \in Xps : u # x => h[u] # h[x]
  BY DEF Single
<1>3. Among(g) = Among(h) \ {h[x]}
  BY <1>1, <1>2, NoClient DEF Among
<1>4. Single(g)
  BY <1>1, NoClient DEF Single
<1>5. QED
  BY <1>3, <1>4 DEF Among

\* Clients that change their place.
LEMMA SpreadPopped ==
  ASSUME NEW H, NEW Q, NEW N, NEW O, Spread(H, Q, N, O), NEW x \in Xps, NEW C, C \subseteq Q, NEW G,
         G[x] = H[x] \union C, \A u \in Xps : u # x => G[u] = H[u]
  PROVE  Spread(G, Q \ C, N, O)
<1>1. /\ \A u, v \in Xps : u # v => H[u] \intersect H[v] = {}
      /\ \A u \in Xps : H[u] \intersect (Q \union N) = {}
      /\ Q \intersect N = {}
      /\ \A c : c \in O <=> c \in Q \/ c \in N \/ \E u \in Xps : c \in H[u]
  BY DEF Spread
<1>2. \A u \in Xps : G[u] = IF u = x THEN H[x] \union C ELSE H[u]
  OBVIOUS
<1>3. \A u, v \in Xps : u # v => G[u] \intersect G[v] = {}
  BY <1>1, <1>2
<1>4. \A u \in Xps : G[u] \intersect ((Q \ C) \union N) = {}
  BY <1>1, <1>2
<1>5. \A c : c \in O <=> c \in Q \ C \/ c \in N \/ \E u \in Xps : c \in G[u]
  BY <1>1, <1>2
<1>6. O = (Q \ C) \union N \union UNION {G[u] : u \in Xps}
  BY <1>5
<1>7. QED
  BY <1>1, <1>3, <1>4, <1>6 DEF Spread

\* Clients that a thread closes leave its entries and are no longer open.
LEMMA SpreadClosed ==
  ASSUME NEW H, NEW Q, NEW N, NEW O, Spread(H, Q, N, O), NEW x \in Xps, NEW C, C \subseteq H[x], NEW G,
         G[x] = H[x] \ C, \A u \in Xps : u # x => G[u] = H[u]
  PROVE  Spread(G, Q, N, O \ C)
<1>1. /\ \A u, v \in Xps : u # v => H[u] \intersect H[v] = {}
      /\ \A u \in Xps : H[u] \intersect (Q \union N) = {}
      /\ Q \intersect N = {}
      /\ \A c : c \in O <=> c \in Q \/ c \in N \/ \E u \in Xps : c \in H[u]
  BY DEF Spread
<1>2. \A u \in Xps : G[u] = IF u = x THEN H[x] \ C ELSE H[u]
  OBVIOUS
<1>3. \A u, v \in Xps : u # v => G[u] \intersect G[v] = {}
  BY <1>1, <1>2
<1>4. \A u \in Xps : G[u] \intersect (Q \union N) = {}
  BY <1>1, <1>2
<1>5. \A c : c \in O \ C <=> c \in Q \/ c \in N \/ \E u \in Xps : c \in G[u]
  <2>1. ASSUME NEW c \in C PROVE c \notin Q /\ c \notin N /\ \A u \in Xps : c \notin G[u]
    BY <1>1, <1>2
  <2>2. ASSUME NEW c, c \notin C PROVE \A u \in Xps : c \in G[u] <=> c \in H[u]
    BY <1>2, <2>2
  <2>3. QED
    BY <1>1, <2>1, <2>2
<1>6. O \ C = Q \union N \union UNION {G[u] : u \in Xps}
  BY <1>5
<1>7. QED
  BY <1>1, <1>3, <1>4, <1>6 DEF Spread

\* A client that is accepted is in the hand of its thread.
LEMMA SpreadAccepted ==
  ASSUME NEW H, NEW Q, NEW N, NEW O, Spread(H, Q, N, O), NEW c, c \notin O
  PROVE  Spread(H, Q, N \union {c}, O \union {c}) /\ c \notin N /\ c \notin Q
<1>1. \A u \in Xps : c \notin H[u]
  BY DEF Spread
<1>2. c \notin N /\ c \notin Q
  BY DEF Spread
<1>3. QED
  BY <1>1, <1>2 DEF Spread

\* A client that is pushed is in the queue and no longer in the hand.
LEMMA SpreadPushed ==
  ASSUME NEW H, NEW Q, NEW N, NEW O, Spread(H, Q, N, O), NEW c \in N
  PROVE  Spread(H, Q \union {c}, N \ {c}, O) /\ c \notin Q
BY DEF Spread

-----------------------------------------------------------------------------
(***************************************************************************)
(* The list of threads.                                                    *)
(***************************************************************************)

\* f is what Remaining defines, up to n.
KeptSoFar(s, S, n, f) ==
  f = [k \in 0 .. n |-> IF k = 0 THEN <<>> ELSE IF s[k] \in S THEN Append(f[k - 1], s[k]) ELSE f[k - 1]]

\* Induction: a set of naturals that has 0 and with every number the next.
LEMMA Every ==
  ASSUME NEW G \in SUBSET Nat, 0 \in G, \A n \in G : n + 1 \in G
  PROVE  G = Nat
<1>1. SUFFICES ASSUME NEW m \in Nat \ G PROVE FALSE
  OBVIOUS
<1>2. PICK x \in Nat \ G : \A y \in Nat \ G : ~(<<y, x>> \in OpToRel(<, Nat))
  <2>1. Nat \ G # {} /\ Nat \ G \subseteq Nat
    BY <1>1
  <2>2. QED
    BY <2>1, WFMin, NatLessThanWellFounded
<1>3. \A y \in Nat \ G : ~(y < x)
  BY <1>2, Zenon DEF OpToRel
<1>a. x \in Nat /\ x \notin G
  BY <1>2, Zenon
<1>4. x # 0 /\ x - 1 \in Nat /\ x - 1 < x
  BY <1>a
<1>5. x - 1 \notin G
  <2>1. x - 1 \in G => (x - 1) + 1 \in G
    OBVIOUS
  <2>2. (x - 1) + 1 = x
    BY <1>a
  <2>3. QED
    BY <1>a, <2>1, <2>2
<1>6. QED
  BY <1>3, <1>4, <1>5

\* What is kept of a sequence is kept in a sequence of the same elements.
LEMMA RemainingTyped ==
  ASSUME NEW P, NEW s \in Seq(P), NEW S
  PROVE  Remaining(s, S) \in Seq(P \intersect S)
<1> DEFINE Q == Seq(P \intersect S)
           Done == {n \in Nat : n <= Len(s) => \E f \in [0 .. n -> Q] : KeptSoFar(s, S, n, f)}
<1>0. Len(s) \in Nat
  OBVIOUS
<1>1. 0 \in Done
  <2> DEFINE f == [k \in 0 .. 0 |-> <<>>]
  <2>1. f \in [0 .. 0 -> Q]
    OBVIOUS
  <2>2. KeptSoFar(s, S, 0, f)
    BY DEF KeptSoFar
  <2>3. QED
    BY <2>1, <2>2
<1>2. ASSUME NEW n \in Done PROVE n + 1 \in Done
  <2>1. SUFFICES ASSUME n + 1 <= Len(s)
                 PROVE  \E f \in [0 .. n + 1 -> Q] : KeptSoFar(s, S, n + 1, f)
    OBVIOUS
  <2>2. PICK f \in [0 .. n -> Q] : KeptSoFar(s, S, n, f)
    BY <1>0, <2>1
  <2> DEFINE next == IF s[n + 1] \in S THEN Append(f[n], s[n + 1]) ELSE f[n]
             g == [k \in 0 .. n + 1 |-> IF k <= n THEN f[k] ELSE next]
  <2>3. n \in Nat /\ s[n + 1] \in P /\ f[n] \in Q
    BY <1>0, <2>1
  <2>4. next \in Q
    BY <2>3
  <2>5. g \in [0 .. n + 1 -> Q]
    <3> HIDE DEF next, Q
    <3> QED BY <2>3, <2>4
  <2>6. KeptSoFar(s, S, n + 1, g)
    <3>1. \A k \in 0 .. n : f[k] = IF k = 0 THEN <<>>
                                   ELSE IF s[k] \in S THEN Append(f[k - 1], s[k]) ELSE f[k - 1]
      BY <2>2 DEF KeptSoFar
    <3>2. \A k \in 0 .. n + 1 : g[k] = IF k <= n THEN f[k] ELSE next
      OBVIOUS
    <3> HIDE DEF g
    <3>3. ASSUME NEW k \in 0 .. n + 1
          PROVE  g[k] = IF k = 0 THEN <<>> ELSE IF s[k] \in S THEN Append(g[k - 1], s[k]) ELSE g[k - 1]
      <4>1. CASE k = 0
        <5>1. 0 \in 0 .. n /\ 0 <= n /\ 0 \in 0 .. n + 1
          BY <2>3
        <5>2. f[0] = <<>>
          BY <3>1, <5>1
        <5>3. g[0] = f[0]
          BY <3>2, <5>1
        <5>4. QED
          BY <4>1, <5>2, <5>3
      <4>2. CASE k \in 1 .. n
        <5>1. k # 0 /\ k \in 0 .. n + 1 /\ k - 1 \in 0 .. n + 1 /\ k <= n /\ k - 1 <= n /\ k \in 0 .. n
          BY <2>3, <4>2
        <5>2. g[k] = f[k] /\ g[k - 1] = f[k - 1]
          BY <3>2, <5>1
        <5>3. QED
          BY <3>1, <5>1, <5>2
      <4>3. CASE k = n + 1
        <5>1. k # 0 /\ k - 1 = n /\ n \in 0 .. n + 1 /\ ~(k <= n)
          BY <2>3, <4>3
        <5>2. g[k] = next /\ g[n] = f[n]
          BY <2>3, <3>2, <5>1
        <5>3. QED
          BY <4>3, <5>1, <5>2
      <4>4. QED
        BY <2>3, <4>1, <4>2, <4>3
    <3>4. g = [k \in 0 .. n + 1 |-> g[k]]
      BY <2>5
    <3>5. QED
      BY <3>3, <3>4, Zenon DEF KeptSoFar
  <2>7. QED
    BY <2>5, <2>6
<1>3. Done = Nat
  <2> HIDE DEF Done
  <2>1. Done \in SUBSET Nat
    BY DEF Done
  <2>2. QED
    BY <1>1, <1>2, <2>1, Every
<1>4. PICK f \in [0 .. Len(s) -> Q] : KeptSoFar(s, S, Len(s), f)
  BY <1>0, <1>3
<1> DEFINE kept == CHOOSE h : KeptSoFar(s, S, Len(s), h)
<1>5. Remaining(s, S) = kept[Len(s)]
  BY Zenon DEF Remaining, KeptSoFar
<1>6. KeptSoFar(s, S, Len(s), kept)
  BY <1>4, Zenon
<1> HIDE DEF kept
<1> DEFINE Kept == {n \in Nat : n <= Len(s) => kept[n] \in Q}
<1>7. 0 \in Kept
  BY <1>6, <1>0 DEF KeptSoFar
<1>8. ASSUME NEW n \in Kept PROVE n + 1 \in Kept
  <2>1. SUFFICES ASSUME n + 1 <= Len(s) PROVE kept[n + 1] \in Q
    OBVIOUS
  <2>2. n \in Nat /\ kept[n] \in Q /\ s[n + 1] \in P /\ n + 1 \in 0 .. Len(s) /\ n + 1 # 0
    BY <1>0, <2>1
  <2>3. kept[n + 1] = IF s[n + 1] \in S THEN Append(kept[n], s[n + 1]) ELSE kept[n]
    <3>1. kept = [k \in 0 .. Len(s) |-> IF k = 0 THEN <<>>
                    ELSE IF s[k] \in S THEN Append(kept[k - 1], s[k]) ELSE kept[k - 1]]
      BY <1>6, Zenon DEF KeptSoFar
    <3>2. (n + 1) - 1 = n
      BY <2>2
    <3>3. kept[n + 1] = IF n + 1 = 0 THEN <<>> ELSE IF s[n + 1] \in S
                          THEN Append(kept[(n + 1) - 1], s[n + 1]) ELSE kept[(n + 1) - 1]
      BY <2>2, <3>1, Zenon
    <3>4. QED
      BY <2>2, <3>2, <3>3
  <2>4. QED
    BY <2>2, <2>3
<1>9. Kept = Nat
  <2> HIDE DEF Kept
  <2>1. Kept \in SUBSET Nat
    BY DEF Kept
  <2>2. QED
    BY <1>7, <1>8, <2>1, Every
<1>10. QED
  BY <1>0, <1>5, <1>9

-----------------------------------------------------------------------------
(***************************************************************************)
(* Steps that leave the arrays, the queue, the hands and the open clients  *)
(* alone.                                                                  *)
(***************************************************************************)

\* A thread that is not concerned.
LEMMA StaysOK ==
  ASSUME NEW u \in Xps, ThreadOK(u), slots'[u] = slots[u], pc'[u] = pc[u], i'[u] = i[u],
         ip'[u] = ip[u], hand'[u] = hand[u], running[u] # 0 => running'[u] # 0
  PROVE  ThreadOK(u)'
BY Zenon DEF ThreadOK, InPass

\* A thread that goes on with the arrays as they are.
Plain == PCs \ {"none", "done", "pass", "push"}

\* Such a thread is not in a pass, has nothing in hand and tidy arrays.
LEMMA PlainThread ==
  ASSUME NEW u \in Xps, ThreadOK(u), pc[u] \in Plain
  PROVE  /\ Tidy(slots[u], 0, 0) /\ i[u] = 0 /\ ip[u] = 0 /\ hand[u] = NoSock
         /\ pc[u] # "start" => running[u] # 0
         /\ pc[u] \notin {"none", "done", "pass", "push"}
<1>1. pc[u] \notin {"none", "done", "pass", "push"}
  BY DEF Plain
<1>2. i[u] = 0 /\ ip[u] = 0
  BY <1>1 DEF ThreadOK, InPass
<1>3. QED
  BY <1>1, <1>2 DEF ThreadOK

\* It is still sound when it goes on, even into a pass, with the arrays as they are.
LEMMA GoesOnOK ==
  ASSUME NEW u \in Xps, ThreadOK(u), pc[u] \in Plain, pc'[u] \in Plain \union {"pass"},
         slots'[u] = slots[u], i'[u] = 0, ip'[u] = 0, hand'[u] = hand[u],
         running'[u] # 0, pc'[u] = "pass" => slots[u].count > 0
  PROVE  ThreadOK(u)'
<1>1. /\ Tidy(slots[u], 0, 0) /\ i[u] = 0 /\ ip[u] = 0 /\ hand[u] = NoSock /\ Typed(slots[u])
      /\ pc[u] \notin {"none", "done", "pass", "push"}
  BY PlainThread DEF ThreadOK
<1>2. pc'[u] \notin {"none", "done", "push"}
  BY DEF Plain
<1>3. Tidy(slots'[u], i'[u], ip'[u]) /\ Typed(slots'[u]) /\ hand'[u] = NoSock
  BY <1>1, Zenon
<1>4. pc'[u] = "pass" => i'[u] < slots'[u].count
  BY <1>1
<1>5. pc'[u] = "pass" <=> pc'[u] \in {"pass", "push"}
  BY <1>2
<1>6. QED
  BY <1>2, <1>3, <1>4, <1>5, Zenon DEF ThreadOK, InPass

\* A step that moves no client between entries, queue and hands keeps Apart.
LEMMA Quiet ==
  ASSUME Sound, Basic', slots' = slots, queue' = queue, hand' = hand,
         \A u \in Xps : i'[u] = i[u] /\ ip'[u] = ip[u], Open' = Open,
         \A u \in Xps : ThreadOK(u)'
  PROVE  Sound'
<1>1. Apart /\ DOMAIN slots = Xps
  BY DEF Sound, Basic
<1>2. ASSUME NEW u \in Xps
      PROVE  /\ Once(slots'[u], i'[u], ip'[u])
             /\ ClientsIn(slots'[u], i'[u], ip'[u]) = ClientsIn(slots[u], i[u], ip[u])
  <2>1. Once(slots[u], i[u], ip[u]) /\ slots'[u] = slots[u] /\ i'[u] = i[u] /\ ip'[u] = ip[u]
    BY <1>1 DEF Apart
  <2>2. QED
    BY <2>1, Zenon
<1>3. Entries' = Entries
  BY <1>2, Zenon DEF Entries
<1>4. Apart'
  BY <1>1, <1>2, <1>3, Zenon DEF Apart
<1>5. QED
  BY <1>4, Zenon DEF Sound

\* What the steps do to the history.
LEMMA Incidents ==
  ASSUME incidents \subseteq Incident, [Next]_vars
  PROVE  incidents' \subseteq Incident /\ incidents \subseteq incidents'
<1> DEFINE Grows == incidents' \subseteq Incident /\ incidents \subseteq incidents'
<1>1. CASE UNCHANGED incidents
  BY <1>1
<1>2. ASSUME NEW x \in Xps, Thread(x) \/ Resume(x) PROVE Grows
  <2>1. CASE Start(x)
    BY <2>1 DEF Start, Record, Incident
  <2>2. CASE Pop(x)
    BY <2>2 DEF Pop, Record, Incident
  <2>3. ASSUME NEW y, EndOfTurn(x, y) PROVE Grows
    BY <2>3 DEF EndOfTurn, Record, Incident
  <2>4. CASE TurnCloses(x) \/ TurnKeeps(x) \/ Push(x)
    <3>1. PICK y : EndOfTurn(x, y)
      BY <2>4, Zenon DEF TurnCloses, TurnKeeps, Push
    <3>2. QED
      BY <2>3, <3>1, Zenon
  <2>5. CASE PopEnds(x) \/ Expand(x) \/ Poll(x) \/ TurnAccepts(x) \/ Doze(x) \/ Again(x) \/ Sleep(x)
             \/ Exit(x) \/ Resume(x)
    <3>1. UNCHANGED incidents
      BY <2>5, Zenon DEF PopEnds, Expand, Poll, TurnAccepts, Doze, Again, Sleep, Exit, Resume
    <3>2. QED
      BY <1>1, <3>1, Zenon
  <2>6. QED
    BY <1>2, <2>1, <2>2, <2>4, <2>5, Zenon DEF Thread
<1>3. CASE PushListener \/ StopRoot \/ JoinRoot \/ JoinOthers \/ UNCHANGED vars
  <2>1. UNCHANGED incidents
    BY <1>3, Zenon DEF PushListener, StopRoot, JoinRoot, JoinOthers, vars
  <2>2. QED
    BY <1>1, <2>1, Zenon
<1>4. CASE StopThreads
  <2>1. UNCHANGED incidents \/ Record("missed", ~rootJoined \/ \E x \in Members : running[x] >= 0)
    BY <1>4, Zenon DEF StopThreads
  <2>2. QED
    BY <1>1, <2>1 DEF Record, Incident
<1>5. CASE KickThreads
  BY <1>5 DEF KickThreads, Record, Incident
<1>6. CASE \E c \in Clients : Connect(c) \/ Quit(c)
  <2>1. UNCHANGED incidents
    BY <1>6, Zenon DEF Connect, Quit
  <2>2. QED
    BY <1>1, <2>1, Zenon
<1>7. CASE \E x \in Xps : Thread(x) \/ Resume(x)
  BY <1>2, <1>7
<1>8. QED
  BY <1>3, <1>4, <1>5, <1>6, <1>7, Zenon DEF Next

\* Incidents are never forgotten: what is ordinary now was so before.
LEMMA OrdinaryBefore ==
  ASSUME incidents \subseteq incidents', Ordinary'
  PROVE  Ordinary
BY DEF Ordinary

-----------------------------------------------------------------------------
(***************************************************************************)
(* The types of everything but the arrays.                                 *)
(***************************************************************************)
Unmoved == UNCHANGED <<queue, client, main, toListen>>

\* Where only threads act the queue, the clients and the main thread's state stay.
LEMMA BasicThread ==
  ASSUME Basic, Unmoved, running' \in [Xps -> -2 .. 2], pc' \in [Xps -> PCs], DOMAIN slots' = Xps,
         i' \in [Xps -> Nat], ip' \in [Xps -> Nat], hand' = hand, awake' \subseteq Xps,
         pool' \in Seq(Pool), expandlock' = expandlock
  PROVE  Basic'
BY Zenon DEF Basic, Unmoved

\* What may be said of the state that a thread works on.
LEMMA BasicFields ==
  ASSUME Basic
  PROVE  /\ running \in [Xps -> -2 .. 2] /\ pc \in [Xps -> PCs] /\ DOMAIN slots = Xps
         /\ i \in [Xps -> Nat] /\ ip \in [Xps -> Nat] /\ awake \subseteq Xps /\ pool \in Seq(Pool)
         /\ hand \in [Xps -> Clients \union {NoSock}]
         /\ queue \in Seq(Clients \union Listeners) /\ Len(queue) <= QueueCap
         /\ client \in [Clients -> {"never", "away", "backlog", "accepted", "quit", "closed"}]
         /\ toListen \in Seq(Listeners) /\ (main = "listen" => toListen # <<>>)
BY Zenon DEF Basic

\* One place for all the steps that a thread goes to.
LEMMA GoneTo ==
  ASSUME Basic, NEW x \in Xps, NEW from, NEW to \in PCs, Goto(x, from, to)
  PROVE  /\ pc' \in [Xps -> PCs] /\ pc[x] = from /\ pc'[x] = to
         /\ \A u \in Xps : u # x => pc'[u] = pc[u]
BY DEF Basic, Goto

\* What remains of the list of threads.
LEMMA RemainingPool ==
  ASSUME pool \in Seq(Pool), NEW S
  PROVE  Remaining(pool, S) \in Seq(Pool)
<1>1. PICK P : P = Pool \intersect S
  OBVIOUS
<1>2. Remaining(pool, S) \in Seq(P) /\ P \subseteq Pool
  BY <1>1, RemainingTyped
<1>3. QED
  BY <1>2

-----------------------------------------------------------------------------
(***************************************************************************)
(* Steps that leave the sockets where they are.                            *)
(***************************************************************************)

\* Only the thread x acts.
OnlyMoves(x) ==
  \A u \in Xps \ {x} : /\ slots'[u] = slots[u] /\ pc'[u] = pc[u] /\ i'[u] = i[u] /\ ip'[u] = ip[u]
                       /\ hand'[u] = hand[u] /\ (running[u] # 0 => running'[u] # 0)

\* A thread that goes on without a change to the arrays, and all others as they were.
LEMMA GoesOn ==
  ASSUME Sound, Basic', NEW x \in Xps, OnlyMoves(x), UNCHANGED <<slots, queue, hand, client>>,
         pc[x] \in Plain, pc'[x] \in Plain \union {"pass"}, i'[x] = 0, ip'[x] = 0,
         running'[x] # 0, pc'[x] = "pass" => slots[x].count > 0
  PROVE  Sound'
<1>1. Open' = Open
  BY Zenon DEF Open
<1>2. ASSUME NEW u \in Xps PROVE ThreadOK(u)' /\ i'[u] = i[u] /\ ip'[u] = ip[u]
  <2>1. ThreadOK(u)
    BY DEF Sound
  <2>2. CASE u = x
    <3>1. ThreadOK(x)' /\ i[x] = 0 /\ ip[x] = 0
      BY <2>1, <2>2, GoesOnOK, PlainThread, Zenon
    <3>2. QED
      BY <2>2, <3>1
  <2>3. CASE u # x
    <3>1. /\ slots'[u] = slots[u] /\ pc'[u] = pc[u] /\ i'[u] = i[u] /\ ip'[u] = ip[u]
          /\ hand'[u] = hand[u] /\ (running[u] # 0 => running'[u] # 0)
      BY <2>3, Zenon DEF OnlyMoves
    <3>2. QED
      BY <2>1, <3>1, StaysOK, Zenon
  <2>4. QED
    BY <2>2, <2>3
<1>3. QED
  BY <1>1, <1>2, Quiet, Zenon

\* A thread that goes from place to place.
LEMMA PlainStep ==
  ASSUME Sound, NEW x \in Xps, NEW from \in Plain, NEW to \in Plain \union {"pass"}, Goto(x, from, to),
         UNCHANGED <<slots, i, ip, hand, queue, expandlock, client, main, toListen>>,
         running' \in [Xps -> -2 .. 2], running'[x] # 0,
         \A u \in Xps : u # x /\ running[u] # 0 => running'[u] # 0,
         awake' \subseteq Xps, pool' \in Seq(Pool), to = "pass" => slots[x].count > 0
  PROVE  Sound'
<1>1. Basic /\ ThreadOK(x)
  BY DEF Sound
<1>2. to \in PCs
  BY DEF PCs, Plain
<1>3. /\ pc' \in [Xps -> PCs] /\ pc[x] = from /\ pc'[x] = to
      /\ \A u \in Xps : u # x => pc'[u] = pc[u]
  BY <1>1, <1>2, GoneTo, Zenon
<1>4. Basic'
  BY <1>1, <1>3, BasicFields, BasicThread, Zenon DEF Unmoved
<1>5. i'[x] = 0 /\ ip'[x] = 0
  BY <1>1, <1>3, PlainThread, Zenon
<1>6. OnlyMoves(x)
  BY <1>3, Zenon DEF OnlyMoves
<1>7. QED
  BY <1>3, <1>4, <1>5, <1>6, GoesOn, Zenon

\* The places of a thread outside of a pass and of its push.
LEMMA PlainPCs ==
  /\ {"start", "pop", "expand", "poll", "tail", "again", "sleep", "wait", "exit"} \subseteq Plain
  /\ "pass" \notin Plain
BY DEF PCs, Plain

\* The thread begins, and may overwrite its stop.
LEMMA StartKeeps ==
  ASSUME Sound, NEW x \in Xps, Start(x)
  PROVE  Sound'
<1>1. Basic
  BY DEF Sound
<1>2. /\ Goto(x, "start", "pop") /\ running' = [running EXCEPT ![x] = 1]
      /\ UNCHANGED <<slots, i, ip, hand, queue, expandlock, client, main, toListen>>
      /\ awake' = awake /\ pool' = pool
  BY Zenon DEF Start, mainVars
<1>3. /\ running' \in [Xps -> -2 .. 2] /\ running'[x] # 0
      /\ \A u \in Xps : u # x => running'[u] = running[u]
  BY <1>1, <1>2, BasicFields
<1>4. "pop" \in Plain /\ "start" \in Plain /\ "pop" # "pass"
  BY PlainPCs
<1>5. QED
  BY <1>1, <1>2, <1>3, <1>4, BasicFields, PlainStep, Zenon

\* A new value of running, never that of a thread that has not begun.
LEMMA RunsOn ==
  ASSUME Basic, NEW x \in Xps, running[x] # 0, NEW v \in -2 .. 2, v # 0,
         running' = [running EXCEPT ![x] = v] \/ running' = running
  PROVE  /\ running' \in [Xps -> -2 .. 2] /\ running'[x] # 0
         /\ \A u \in Xps : u # x => running'[u] = running[u]
<1>1. running \in [Xps -> -2 .. 2]
  BY BasicFields
<1>2. CASE running' = [running EXCEPT ![x] = v]
  BY <1>1, <1>2
<1>3. CASE running' = running
  BY <1>1, <1>3
<1>4. QED
  BY <1>2, <1>3

\* Going to sleep and waking up: xs_pollfd_Sleep.
LEMMA SleepKeeps ==
  ASSUME Sound, NEW x \in Xps, Sleep(x) \/ Resume(x)
  PROVE  Sound'
<1>1. Basic /\ ThreadOK(x)
  BY DEF Sound
<1>2. PICK from \in {"sleep", "wait"}, to \in {"wait", "tail"} : Goto(x, from, to)
  BY DEF Sleep, Resume
<1>3. /\ UNCHANGED <<slots, i, ip, hand, queue, expandlock, client, main, toListen>>
      /\ awake' \subseteq awake /\ pool' = pool
      /\ \E v \in {1, 2, running[x]} : running' = [running EXCEPT ![x] = v]
  <2>1. CASE Sleep(x)
    BY <2>1 DEF Sleep, mainVars
  <2>2. CASE Resume(x)
    BY <2>2 DEF Resume, mainVars
  <2>3. QED
    BY <2>1, <2>2
<1>4. from \in Plain /\ to \in Plain /\ to # "pass" /\ from # "start"
  BY PlainPCs
<1>5. pc[x] = from /\ running[x] # 0
  BY <1>1, <1>2, <1>4, PlainThread, Zenon DEF Goto
<1>6. /\ running' \in [Xps -> -2 .. 2] /\ running'[x] # 0
      /\ \A u \in Xps : u # x => running'[u] = running[u]
  <2>1. PICK v \in {1, 2, running[x]} : running' = [running EXCEPT ![x] = v]
    BY <1>3
  <2>2. v \in -2 .. 2 /\ v # 0
    <3>1. running[x] \in -2 .. 2
      BY <1>1 DEF Basic
    <3>2. QED
      BY <1>5, <3>1
  <2>3. QED
    BY <1>1, <1>5, <2>1, <2>2, RunsOn, Zenon
<1>7. awake' \subseteq Xps /\ pool' \in Seq(Pool)
  BY <1>1, <1>3, BasicFields
<1>8. QED
  BY <1>2, <1>3, <1>4, <1>6, <1>7, PlainStep, Zenon

\* The steps between the parts of the loop of xs_Pollthread3.
LEMMA TailKeeps ==
  ASSUME Sound, NEW x \in Xps, PopEnds(x) \/ Doze(x) \/ Again(x)
  PROVE  Sound'
<1>1. Basic /\ ThreadOK(x)
  BY DEF Sound
<1>2. PICK from \in {"pop", "tail", "again"}, to \in {"expand", "sleep", "again", "pop", "exit"} :
        Goto(x, from, to)
  BY DEF PopEnds, Doze, Again
<1>3. /\ UNCHANGED <<slots, i, ip, hand, queue, expandlock, client, main, toListen>>
      /\ awake' = awake /\ pool' = pool
      /\ running' = running \/ \E v \in {-1, running[x]} : running' = [running EXCEPT ![x] = v]
  <2>1. CASE PopEnds(x)
    BY <2>1, Zenon DEF PopEnds, mainVars
  <2>2. CASE Doze(x)
    BY <2>2, Zenon DEF Doze, mainVars
  <2>3. CASE Again(x)
    BY <2>3 DEF Again, SetRunning, mainVars
  <2>4. QED
    BY <2>1, <2>2, <2>3
<1>4. from \in Plain /\ to \in Plain /\ to # "pass" /\ from # "start"
  BY PlainPCs
<1>5. pc[x] = from /\ running[x] # 0
  BY <1>1, <1>2, <1>4, PlainThread, Zenon DEF Goto
<1>6. /\ running' \in [Xps -> -2 .. 2] /\ running'[x] # 0
      /\ \A u \in Xps : u # x => running'[u] = running[u]
  <2>1. PICK v \in {-1, running[x]} :
          running' = [running EXCEPT ![x] = v] \/ running' = running
    BY <1>3
  <2>2. v \in -2 .. 2 /\ v # 0
    <3>1. running[x] \in -2 .. 2
      BY <1>1 DEF Basic
    <3>2. QED
      BY <1>5, <3>1
  <2>3. QED
    BY <1>1, <1>5, <2>1, <2>2, RunsOn, Zenon
<1>7. QED
  BY <1>1, <1>2, <1>3, <1>4, <1>6, BasicFields, PlainStep, Zenon

\* poll begins a pass at the first entry, with no entry kept.
LEMMA PollKeeps ==
  ASSUME Sound, NEW x \in Xps, Poll(x)
  PROVE  Sound'
<1>1. Basic /\ ThreadOK(x)
  BY DEF Sound
<1>2. PICK to : to = IF Reported(slots[x]) # {} /\ running[x] > 0 THEN "pass" ELSE "tail"
  OBVIOUS
<1>3. /\ Goto(x, "poll", to) /\ i' = [i EXCEPT ![x] = 0] /\ ip' = [ip EXCEPT ![x] = 0]
      /\ UNCHANGED <<slots, hand, queue, expandlock, client, main, toListen>>
      /\ awake' = awake /\ pool' = pool /\ running' = running
  BY <1>2, Zenon DEF Poll, mainVars
<1>4. "poll" \in Plain /\ to \in Plain \union {"pass"}
  BY <1>2, PlainPCs
<1>5. i[x] = 0 /\ ip[x] = 0 /\ running[x] # 0
  BY <1>1, <1>3, <1>4, PlainThread DEF Goto
<1>6. i' = i /\ ip' = ip
  BY <1>1, <1>3, <1>5, BasicFields
<1>7. to = "pass" => slots[x].count > 0
  <2>1. ASSUME to = "pass" PROVE slots[x].count > 0
    <3>1. PICK k \in 0 .. slots[x].count - 1 : TRUE
      BY <1>2, <2>1 DEF Reported
    <3>2. Typed(slots[x])
      BY <1>1, Zenon DEF ThreadOK
    <3>3. slots[x].count \in Int
      BY <3>2, ArrayFields
    <3>4. QED
      BY <3>1, <3>3
  <2>2. QED
    BY <2>1
<1>8. running' \in [Xps -> -2 .. 2] /\ running'[x] # 0
      /\ \A u \in Xps : u # x => running'[u] = running[u]
  BY <1>1, <1>3, <1>5, BasicFields, Zenon
<1>9. QED
  BY <1>1, <1>3, <1>4, <1>6, <1>7, <1>8, BasicFields, PlainStep, Zenon

\* An expansion that creates no thread: a signal, a cleaned list, or nothing.
LEMMA ExpandKeeps ==
  ASSUME Sound, NEW x \in Xps, Goto(x, "expand", "poll"), running' = running, slots' = slots,
         UNCHANGED <<i, ip, hand, queue, expandlock, client, main, toListen>>,
         awake' = awake \/ \E X \in SUBSET Xps : Signal(X),
         pool' = pool \/ pool' = Remaining(pool, Alive)
  PROVE  Sound'
<1>1. Basic /\ ThreadOK(x)
  BY DEF Sound
<1>2. awake' \subseteq Xps
  BY <1>1, BasicFields DEF Signal
<1>3. pool' \in Seq(Pool)
  BY <1>1, BasicFields, RemainingPool, Zenon
<1>4. "expand" \in Plain /\ "poll" \in Plain /\ "poll" # "pass" /\ "expand" # "start"
  BY PlainPCs
<1>5. pc[x] = "expand" /\ running[x] # 0
  BY <1>1, <1>4, PlainThread, Zenon DEF Goto
<1>6. running' \in [Xps -> -2 .. 2] /\ running'[x] # 0
      /\ \A u \in Xps : u # x => running'[u] = running[u]
  BY <1>1, <1>5, BasicFields, Zenon
<1>7. QED
  BY <1>2, <1>3, <1>4, <1>6, PlainStep, Zenon

\* The main thread and the clients, who change no thread's place.
LEMMA MainStep ==
  ASSUME Sound, Basic', UNCHANGED <<slots, pc, i, ip, hand, queue>>, Open' = Open,
         \A u \in Xps : running[u] # 0 => running'[u] # 0
  PROVE  Sound'
<1>1. ASSUME NEW u \in Xps PROVE ThreadOK(u)' /\ i'[u] = i[u] /\ ip'[u] = ip[u]
  <2>1. ThreadOK(u)
    BY DEF Sound
  <2>2. QED
    BY <2>1, StaysOK, Zenon
<1>2. QED
  BY <1>1, Quiet, Zenon

\* xs_pollfd_stop, in its three parts.
LEMMA StopsKeep ==
  ASSUME Sound, StopThreads \/ KickThreads \/ StopRoot
  PROVE  Sound'
<1>1. Basic
  BY DEF Sound
<1>2. UNCHANGED <<slots, pc, i, ip, hand, queue, client, toListen>>
  BY Zenon DEF StopThreads, KickThreads, StopRoot
<1>3. Root \in Xps /\ -2 \in -2 .. 2 /\ -2 # 0
  BY DEF Xps
<1>4. running' \in [Xps -> -2 .. 2] /\ \A u \in Xps : running[u] # 0 => running'[u] # 0
  <2>1. \/ running' = running \/ running' = [running EXCEPT ![Root] = -2]
        \/ running' = [x \in Xps |-> IF x \in Members /\ running[x] >= 0 THEN -2 ELSE running[x]]
    BY DEF StopThreads, KickThreads, StopRoot
  <2>2. running \in [Xps -> -2 .. 2]
    BY <1>1, BasicFields
  <2>3. CASE running' = [running EXCEPT ![Root] = -2]
    BY <1>3, <2>2, <2>3
  <2>4. CASE running' = [x \in Xps |-> IF x \in Members /\ running[x] >= 0 THEN -2 ELSE running[x]]
    BY <1>3, <2>2, <2>4
  <2>5. QED
    BY <2>1, <2>2, <2>3, <2>4
<1>5. awake' \subseteq Xps
  <2>1. awake' = awake \/ \E X \in SUBSET Xps : Signal(X)
    <3>1. CASE StopThreads
      BY <1>3, <3>1 DEF StopThreads
    <3>2. CASE StopRoot
      BY <1>3, <3>2 DEF StopRoot
    <3>3. CASE KickThreads
      <4>1. PICK X : X = {x \in Members : running[x] < 0} /\ Signal(X)
        BY <3>3 DEF KickThreads
      <4>2. Members \subseteq Xps
        BY <1>1, BasicFields DEF Members, Xps
      <4>3. X \in SUBSET Xps
        BY <4>1, <4>2
      <4>4. QED
        BY <4>1, <4>3
    <3>4. QED
      BY <3>1, <3>2, <3>3
  <2>2. QED
    BY <1>1, <2>1, BasicFields DEF Signal
<1>6. pool' \in Seq(Pool)
  <2>1. pool' = pool \/ pool' = Remaining(pool, Alive)
    BY Zenon DEF StopThreads, KickThreads, StopRoot
  <2>2. QED
    BY <1>1, <2>1, BasicFields, RemainingPool, Zenon
<1>7. expandlock' \in {0, 2} /\ main' \in {"join", "kick", "root"}
  BY <1>1 DEF StopThreads, KickThreads, StopRoot, Basic
<1>8. Basic'
  BY <1>1, <1>2, <1>4, <1>5, <1>6, <1>7 DEF Basic
<1>9. Open' = Open
  BY <1>2, Zenon DEF Open
<1>10. QED
  BY <1>2, <1>4, <1>8, <1>9, MainStep, Zenon

\* The joins only wait.
LEMMA JoinsKeep ==
  ASSUME Sound, JoinRoot \/ JoinOthers
  PROVE  Sound'
<1>1. Basic
  BY DEF Sound
<1>2. UNCHANGED <<threads, queue, client, toListen>> /\ main' \in {"again", "joined"}
  BY DEF JoinRoot, JoinOthers
<1>3. Basic'
  BY <1>1, <1>2 DEF Basic, threads
<1>4. Open' = Open
  BY <1>2, Zenon DEF Open
<1>5. QED
  BY <1>2, <1>3, <1>4, MainStep, Zenon DEF threads

\* Clients that connect or quit do not move.
LEMMA ClientsKeep ==
  ASSUME Sound, NEW c \in Clients, Connect(c) \/ Quit(c)
  PROVE  Sound'
<1>1. Basic
  BY DEF Sound
<1>2. UNCHANGED <<threads, queue, main, toListen>>
  BY Zenon DEF Connect, Quit, mainVars
<1>3. client' \in [Clients -> {"never", "away", "backlog", "accepted", "quit", "closed"}]
      /\ Open' = Open
  <2>1. client \in [Clients -> {"never", "away", "backlog", "accepted", "quit", "closed"}]
    BY <1>1, BasicFields
  <2>2. CASE Connect(c)
    BY <2>1, <2>2 DEF Connect, Open
  <2>3. CASE Quit(c)
    BY <2>1, <2>3 DEF Quit, Open
  <2>4. QED
    BY <2>2, <2>3
<1>4. Basic'
  BY <1>1, <1>2, <1>3, Zenon DEF Basic, threads
<1>5. QED
  BY <1>2, <1>3, <1>4, MainStep, Zenon DEF threads

\* xs_async_listen puts a listener, which is no client, into the queue.
LEMMA PushListenerKeeps ==
  ASSUME Sound, PushListener
  PROVE  Sound'
<1>1. Basic /\ Apart
  BY DEF Sound
<1>2. /\ UNCHANGED <<running, pc, slots, i, ip, hand, pool, expandlock, client>>
      /\ Len(queue) + 1 < QueueCap /\ queue' = Append(queue, Head(toListen)) /\ toListen' = Tail(toListen)
      /\ main = "listen" /\ main' = IF Len(toListen) = 1 THEN "run" ELSE "listen"
  BY Zenon DEF PushListener
<1>3. /\ Head(toListen) \in Listeners /\ Tail(toListen) \in Seq(Listeners)
      /\ Len(toListen) # 1 => Tail(toListen) # <<>>
  <2>1. toListen \in Seq(Listeners) /\ toListen # <<>>
    BY <1>1, <1>2, BasicFields
  <2>2. PICK rest : rest = Tail(toListen)
    OBVIOUS
  <2>3. Head(toListen) \in Listeners /\ rest \in Seq(Listeners) /\ Len(rest) = Len(toListen) - 1
    BY <2>1, <2>2, HeadTailProperties, Zenon
  <2>4. Len(toListen) # 1 => rest # <<>>
    BY <2>1, <2>3
  <2>5. QED
    BY <2>2, <2>3, <2>4, Zenon
<1>4. queue' \in Seq(Clients \union Listeners) /\ Len(queue') <= QueueCap
  <2>1. queue \in Seq(Clients \union Listeners) /\ QueueCap \in Nat /\ Len(queue) + 1 < QueueCap
    BY <1>1, <1>2, BasicFields, PollAssumption
  <2>2. QED
    BY <1>2, <1>3, <2>1
<1>5. awake' \subseteq Xps
  <2>1. \E X \in SUBSET Xps : Signal(X)
    BY DEF PushListener
  <2>2. QED
    BY <1>1, <2>1, BasicFields DEF Signal
<1>6. Basic'
  <2>1. main' \in {"listen", "run"} /\ toListen' \in Seq(Listeners)
        /\ (main' = "listen" => toListen' # <<>>)
    BY <1>2, <1>3
  <2>2. QED
    BY <1>1, <1>2, <1>4, <1>5, <2>1 DEF Basic
<1>7. Single(queue') /\ Among(queue') = Among(queue)
  <2>1. PICK s : s = Head(toListen)
    OBVIOUS
  <2>2. s \in Clients \union Listeners /\ s \notin Clients
    BY <1>3, <2>1, NoClient
  <2>3. queue \in Seq(Clients \union Listeners) /\ Single(queue)
    BY <1>1, BasicFields, Zenon DEF Apart
  <2>4. Single(queue') /\ Among(queue') = Among(queue) \union ({s} \intersect Clients)
    BY <1>2, <2>1, <2>2, <2>3, PushElement, Zenon
  <2>5. QED
    BY <2>2, <2>4
<1>8. Entries' = Entries /\ Open' = Open
  BY <1>2, Zenon DEF Entries, Open
<1>9. Apart'
  BY <1>1, <1>2, <1>7, <1>8, Zenon DEF Apart
<1>10. ASSUME NEW u \in Xps PROVE ThreadOK(u)'
  <2>1. ThreadOK(u)
    BY DEF Sound
  <2>2. QED
    BY <1>2, <2>1, StaysOK, Zenon
<1>11. QED
  BY <1>6, <1>9, <1>10, Zenon DEF Sound

-----------------------------------------------------------------------------
(***************************************************************************)
(* Steps of a thread that change its arrays, the queue or its hand.        *)
(***************************************************************************)

\* What has to be shown of such a step.
LEMMA Acts ==
  ASSUME Sound, Basic', NEW x \in Xps, OnlyMoves(x), ThreadOK(x)',
         Once(slots'[x], i'[x], ip'[x]), Single(queue'), Single(hand'),
         Spread(Entries', Among(queue'), Among(hand'), Open')
  PROVE  Sound'
<1>1. Apart
  BY DEF Sound
<1>2. ASSUME NEW u \in Xps PROVE ThreadOK(u)' /\ Once(slots'[u], i'[u], ip'[u])
  <2>1. CASE u = x
    BY <2>1
  <2>2. CASE u # x
    <3>1. ThreadOK(u) /\ Once(slots[u], i[u], ip[u])
      BY <1>1, Zenon DEF Sound, Apart
    <3>2. /\ slots'[u] = slots[u] /\ pc'[u] = pc[u] /\ i'[u] = i[u] /\ ip'[u] = ip[u]
          /\ hand'[u] = hand[u] /\ (running[u] # 0 => running'[u] # 0)
      BY <2>2, Zenon DEF OnlyMoves
    <3>3. QED
      BY <3>1, <3>2, StaysOK, Zenon
  <2>3. QED
    BY <2>1, <2>2
<1>3. Apart'
  BY <1>2, Zenon DEF Apart
<1>4. QED
  BY <1>2, <1>3, Zenon DEF Sound

\* Only the entries of the thread that acts change.
LEMMA EntriesOf ==
  ASSUME NEW x \in Xps, OnlyMoves(x)
  PROVE  /\ Entries[x] = ClientsIn(slots[x], i[x], ip[x])
         /\ Entries'[x] = ClientsIn(slots'[x], i'[x], ip'[x])
         /\ \A u \in Xps : u # x => Entries'[u] = Entries[u]
BY Zenon DEF Entries, OnlyMoves

\* What xs_queue_pop takes out of the queue gets an entry of the same thread.
LEMMA PopKeeps ==
  ASSUME Sound, NEW x \in Xps, Pop(x), Ordinary'
  PROVE  Sound'
<1>1. Basic /\ ThreadOK(x) /\ Apart
  BY DEF Sound
<1>2. PICK s, y : s = Head(queue) /\ y = slots[x]
  OBVIOUS
<1>3. PICK z : z = Add(y, s, s \in Listeners)
  OBVIOUS
<1>4. /\ pc[x] = "pop" /\ queue # <<>> /\ y.count < y.total
      /\ queue' = Tail(queue) /\ slots' = [slots EXCEPT ![x] = z]
      /\ UNCHANGED <<running, pc, i, ip, hand, awake, pool, expandlock, client, main, toListen>>
  BY <1>2, <1>3, Zenon DEF Pop, Size, mainVars
<1>5. ~(s \in Listeners /\ y.max > y.listen)
  <2>1. Record("overlaid", s \in Listeners /\ y.max > y.listen)
    BY <1>2, Zenon DEF Pop
  <2>2. QED
    BY <2>1 DEF Record, Ordinary
<1>6. /\ Tidy(y, 0, 0) /\ i[x] = 0 /\ ip[x] = 0 /\ hand[x] = NoSock /\ running[x] # 0
  <2>1. "pop" \in Plain /\ "pop" # "start"
    BY PlainPCs
  <2>2. QED
    BY <1>1, <1>2, <1>4, <2>1, PlainThread, Zenon
<1>7. /\ Single(Tail(queue)) /\ Among(Tail(queue)) = Among(queue) \ {s}
      /\ s \in Clients => s \in Among(queue)
      /\ s \in Clients \union Listeners
      /\ Tail(queue) \in Seq(Clients \union Listeners)
      /\ Len(Tail(queue)) <= QueueCap
  <2>1. queue \in Seq(Clients \union Listeners) /\ Single(queue) /\ Len(queue) <= QueueCap
    BY <1>1, BasicFields, Zenon DEF Apart
  <2>2. Len(Tail(queue)) = Len(queue) - 1 /\ Tail(queue) \in Seq(Clients \union Listeners)
    BY <1>4, <2>1, HeadTailProperties, Zenon
  <2>3. Len(Tail(queue)) <= QueueCap
    <3>1. PICK n, m : n = Len(queue) /\ m = Len(Tail(queue))
      OBVIOUS
    <3>2. n \in Nat /\ QueueCap \in Nat
      BY <2>1, <3>1, PollAssumption
    <3>3. n <= QueueCap /\ m = n - 1
      BY <2>1, <2>2, <3>1
    <3>4. m <= QueueCap
      BY <3>2, <3>3
    <3>5. QED
      BY <3>1, <3>4
  <2>4. QED
    BY <1>2, <1>4, <2>1, <2>2, <2>3, PopElement, Zenon
<1>8. /\ Tidy(z, 0, 0) /\ z.count = y.count + 1 /\ z.pfd[y.count].cfd = s
      /\ \A k \in 0 .. y.count - 1 : z.pfd[k] = y.pfd[k]
  <2>1. s \in Clients \union Listeners
    BY <1>7, Zenon
  <2>2. QED
    BY <1>3, <1>4, <1>5, <1>6, <2>1, AddTidy, Zenon
<1>9. slots'[x] = z /\ DOMAIN slots' = Xps /\ \A u \in Xps : u # x => slots'[u] = slots[u]
  <2>1. DOMAIN slots = Xps
    BY <1>1, BasicFields
  <2>2. QED
    BY <1>4, <2>1
<1>10. OnlyMoves(x)
  BY <1>4, <1>9, Zenon DEF OnlyMoves
<1>11. ThreadOK(x)'
  <2>1. Typed(z)
    BY <1>8, TidyFields, Zenon
  <2>2. /\ slots'[x] = z /\ pc'[x] = "pop" /\ i'[x] = 0 /\ ip'[x] = 0 /\ hand'[x] = NoSock
        /\ running'[x] # 0
    BY <1>4, <1>6, <1>9, Zenon
  <2>3. QED
    BY <1>8, <2>1, <2>2 DEF ThreadOK, InPass
<1>12. Basic'
  BY <1>1, <1>4, <1>7, <1>9, Zenon DEF Basic
<1>13. Once(y, 0, 0) /\ (s \in Clients => s \notin ClientsIn(y, 0, 0)) /\ Single(hand)
       /\ Entries[x] = ClientsIn(y, 0, 0) /\ Spread(Entries, Among(queue), Among(hand), Open)
  <2>1. Once(y, 0, 0) /\ Single(hand) /\ Spread(Entries, Among(queue), Among(hand), Open)
    BY <1>1, <1>2, <1>6, Zenon DEF Apart
  <2>2. Entries[x] = ClientsIn(y, 0, 0)
    BY <1>2, <1>6, <1>10, EntriesOf, Zenon
  <2>3. Entries[x] \intersect (Among(queue) \union Among(hand)) = {}
    BY <2>1, Zenon DEF Spread
  <2>4. QED
    BY <1>7, <2>1, <2>2, <2>3
<1>14. PICK C : C = {s} \intersect Clients
  OBVIOUS
<1>15. Once(z, 0, 0) /\ ClientsIn(z, 0, 0) = ClientsIn(y, 0, 0) \union C
  <2>1. y.count \in Nat
    BY <1>6, TidyFields
  <2>2. Once(y, 0, 0) /\ (s \in Clients => s \notin ClientsIn(y, 0, 0))
    BY <1>13, Zenon
  <2>3. Once(z, 0, 0) /\ ClientsIn(z, 0, 0) = ClientsIn(y, 0, 0) \union ({s} \intersect Clients)
    BY <1>8, <2>1, <2>2, AddClients
  <2>4. QED
    BY <1>14, <2>3, Zenon
<1>16. /\ Entries'[x] = Entries[x] \union C
       /\ \A u \in Xps : u # x => Entries'[u] = Entries[u]
  BY <1>4, <1>6, <1>9, <1>10, <1>13, <1>15, EntriesOf, Zenon
<1>17. C \subseteq Among(queue) /\ Among(queue') = Among(queue) \ C
  <2>1. Among(queue) \subseteq Clients
    BY DEF Among
  <2>2. QED
    BY <1>4, <1>7, <1>14, <2>1
<1>18. Spread(Entries', Among(queue'), Among(hand'), Open')
  <2>1. Spread(Entries', Among(queue) \ C, Among(hand), Open)
    BY <1>13, <1>16, <1>17, SpreadPopped
  <2>2. Open' = Open /\ Among(hand') = Among(hand)
    BY <1>4, Zenon DEF Open
  <2>3. QED
    BY <1>17, <2>1, <2>2, Zenon
<1>19. Once(slots'[x], i'[x], ip'[x]) /\ Single(queue') /\ Single(hand')
  BY <1>4, <1>6, <1>7, <1>9, <1>13, <1>15, Zenon
<1>20. QED
  BY <1>10, <1>11, <1>12, <1>18, <1>19, Acts, Zenon

\* The arrays after the turn at of a pass that has kept so many entries.
TurnOK(y, at, kept, z, at2, kept2, goesOn) ==
  /\ Tidy(z, at2, kept2) /\ Once(z, at2, kept2)
  /\ ClientsIn(z, at2, kept2) = ClientsIn(y, at, kept)
  /\ IF goesOn THEN at2 < z.count ELSE at2 = 0 /\ kept2 = 0

\* The end of a turn keeps the arrays tidy and their clients: it goes on with the
\* next entry, or the last turn cuts what is left over, or a stop ends it where
\* nothing has been moved.
LEMMA TurnArrays ==
  ASSUME NEW y, NEW at, NEW kept, Tidy(y, at, kept), at < y.count, Once(y, at, kept),
         NEW m, m = Move(y, at, kept), NEW to, to = IF y.pfd[at].fd = NoSock THEN kept ELSE kept + 1
  PROVE  /\ at + 1 # y.count => TurnOK(y, at, kept, m, at + 1, to, TRUE)
         /\ at + 1 = y.count => TurnOK(y, at, kept, Cut(m, to), 0, 0, FALSE)
         /\ ~(to <= at) => TurnOK(y, at, kept, m, 0, 0, FALSE)
<1>1. /\ at \in Nat /\ kept \in 0 .. at /\ y.count \in Nat /\ to \in {kept, kept + 1}
  BY TidyFields
<1>e. PICK e : e = y.pfd[at]
  OBVIOUS
<1>2. /\ m.count = y.count /\ Tidy(m, at + 1, to) /\ m.pfd[kept] = e
      /\ \A k \in 0 .. y.total - 1 : k # kept => m.pfd[k] = y.pfd[k]
  BY <1>e, MoveTidy
<1>3. Once(m, at + 1, to) /\ ClientsIn(m, at + 1, to) = ClientsIn(y, at, kept)
  BY <1>e, <1>2, MoveClients
<1>4. ASSUME at + 1 # y.count PROVE TurnOK(y, at, kept, m, at + 1, to, TRUE)
  <2>1. at + 1 < m.count
    BY <1>1, <1>2, <1>4
  <2>2. QED
    BY <1>2, <1>3, <2>1, Zenon DEF TurnOK
<1>5. ASSUME at + 1 = y.count
      PROVE  TurnOK(y, at, kept, Cut(m, to), 0, 0, FALSE)
  <2>1. PICK z : z = Cut(m, to)
    OBVIOUS
  <2>2. Tidy(m, m.count, to) /\ Once(m, m.count, to)
        /\ ClientsIn(m, m.count, to) = ClientsIn(y, at, kept)
    BY <1>2, <1>3, <1>5, Zenon
  <2>3. Tidy(z, 0, 0) /\ z.count = to /\ z.pfd = m.pfd
    BY <2>1, <2>2, CutTidy
  <2>4. Live(z, 0, 0) = Live(m, m.count, to)
    <3>1. 0 .. 0 - 1 \union 0 .. to - 1 = 0 .. to - 1 \union m.count .. m.count - 1
      BY <1>1, <1>2
    <3>2. QED
      BY <2>3, <3>1, Zenon DEF Live
  <2>5. Once(z, 0, 0) /\ ClientsIn(z, 0, 0) = ClientsIn(m, m.count, to)
    BY <2>2, <2>3, <2>4, SameClients
  <2>6. QED
    BY <2>1, <2>2, <2>3, <2>5, Zenon DEF TurnOK
<1>6. ASSUME ~(to <= at) PROVE TurnOK(y, at, kept, m, 0, 0, FALSE)
  <2>1. to = at + 1
    BY <1>1, <1>6
  <2>2. Tidy(m, 0, 0) /\ Live(m, 0, 0) = Live(m, at + 1, to)
    BY <1>2, <2>1, WholeTidy
  <2>3. Once(m, 0, 0) /\ ClientsIn(m, 0, 0) = ClientsIn(m, at + 1, to)
    BY <1>3, <2>2, SameClients
  <2>4. QED
    BY <1>3, <2>2, <2>3, Zenon DEF TurnOK
<1>7. QED
  BY <1>4, <1>5, <1>6

\* The end of a turn in the terms of TurnOK: the locals and arrays of one thread.
LEMMA TurnEnds ==
  ASSUME Basic, NEW x \in Xps, running[x] # 0, NEW y, Tidy(y, i[x], ip[x]), i[x] < y.count,
         Once(y, i[x], ip[x]), EndOfTurn(x, y), Ordinary'
  PROVE  /\ TurnOK(y, i[x], ip[x], slots'[x], i'[x], ip'[x], pc'[x] = "pass")
         /\ pc'[x] \in {"pass", "tail"}
         /\ pc' \in [Xps -> PCs] /\ i' \in [Xps -> Nat] /\ ip' \in [Xps -> Nat] /\ DOMAIN slots' = Xps
         /\ \A u \in Xps : u # x => /\ slots'[u] = slots[u] /\ pc'[u] = pc[u]
                                     /\ i'[u] = i[u] /\ ip'[u] = ip[u]
<1>1. PICK at, kept : at = i[x] /\ kept = ip[x]
  OBVIOUS
<1>2. PICK m, to : m = Move(y, at, kept) /\ to = IF y.pfd[at].fd = NoSock THEN kept ELSE kept + 1
  OBVIOUS
<1>3. PICK cut : cut = Cut(m, to)
  OBVIOUS
<1>4. PICK ends \in BOOLEAN : ends <=> (running[x] < 0 \/ at + 1 = y.count)
  OBVIOUS
<1>5. /\ slots' = [slots EXCEPT ![x] = IF ends /\ running[x] > 0 THEN cut ELSE m]
      /\ i' = [i EXCEPT ![x] = IF ends THEN 0 ELSE at + 1]
      /\ ip' = [ip EXCEPT ![x] = IF ends THEN 0 ELSE to]
      /\ pc' = [pc EXCEPT ![x] = IF ends THEN "tail" ELSE "pass"]
      /\ Record("caught", running[x] < 0 /\ to <= at)
  BY <1>1, <1>2, <1>3, <1>4 DEF EndOfTurn, Cut
<1>6. ~(running[x] < 0 /\ to <= at)
  BY <1>5 DEF Record, Ordinary
<1>7. at \in Nat /\ kept \in Nat /\ to \in Nat /\ running[x] \in -2 .. 2
  BY <1>1, <1>2 DEF Basic
<1>8. "tail" \in PCs /\ "pass" \in PCs /\ "tail" # "pass"
  BY DEF PCs
<1>9. /\ pc' \in [Xps -> PCs] /\ i' \in [Xps -> Nat] /\ ip' \in [Xps -> Nat] /\ DOMAIN slots' = Xps
      /\ \A u \in Xps : u # x => /\ slots'[u] = slots[u] /\ pc'[u] = pc[u]
                                  /\ i'[u] = i[u] /\ ip'[u] = ip[u]
      /\ slots'[x] = IF ends /\ running[x] > 0 THEN cut ELSE m
      /\ i'[x] = IF ends THEN 0 ELSE at + 1
      /\ ip'[x] = IF ends THEN 0 ELSE to
      /\ pc'[x] = IF ends THEN "tail" ELSE "pass"
  BY <1>5, <1>7, <1>8, BasicFields
<1>10. /\ at + 1 # y.count => TurnOK(y, at, kept, m, at + 1, to, TRUE)
       /\ at + 1 = y.count => TurnOK(y, at, kept, cut, 0, 0, FALSE)
       /\ ~(to <= at) => TurnOK(y, at, kept, m, 0, 0, FALSE)
  BY <1>1, <1>2, <1>3, TurnArrays, Zenon
<1>11. TurnOK(y, at, kept, slots'[x], i'[x], ip'[x], pc'[x] = "pass")
  <2>1. CASE ~ends
    BY <1>4, <1>9, <1>10, <2>1
  <2>2. CASE ends /\ running[x] > 0
    <3>1. at + 1 = y.count
      <4>1. ~(running[x] < 0)
        BY <1>7, <2>2
      <4>2. QED
        BY <1>4, <2>2, <4>1, Zenon
    <3>2. QED
      BY <1>8, <1>9, <1>10, <2>2, <3>1
  <2>3. CASE ends /\ ~(running[x] > 0)
    <3>1. running[x] < 0
      BY <1>7, <2>3
    <3>2. QED
      BY <1>6, <1>8, <1>9, <1>10, <2>3, <3>1
  <2>4. QED
    BY <2>1, <2>2, <2>3
<1>12. QED
  BY <1>1, <1>9, <1>11, Zenon

\* The end of a turn leaves the thread sound and its clients as they were in y.
LEMMA AfterTurn ==
  ASSUME Basic, NEW x \in Xps, running[x] # 0, NEW y, Tidy(y, i[x], ip[x]), i[x] < y.count,
         Once(y, i[x], ip[x]), EndOfTurn(x, y), Ordinary', running' = running, hand'[x] = NoSock,
         \A u \in Xps : u # x => hand'[u] = hand[u]
  PROVE  /\ OnlyMoves(x) /\ ThreadOK(x)' /\ Once(slots'[x], i'[x], ip'[x])
         /\ Entries'[x] = ClientsIn(y, i[x], ip[x])
         /\ pc' \in [Xps -> PCs] /\ i' \in [Xps -> Nat] /\ ip' \in [Xps -> Nat] /\ DOMAIN slots' = Xps
<1>1. /\ TurnOK(y, i[x], ip[x], slots'[x], i'[x], ip'[x], pc'[x] = "pass")
      /\ pc'[x] \in {"pass", "tail"}
      /\ pc' \in [Xps -> PCs] /\ i' \in [Xps -> Nat] /\ ip' \in [Xps -> Nat] /\ DOMAIN slots' = Xps
      /\ \A u \in Xps : u # x => /\ slots'[u] = slots[u] /\ pc'[u] = pc[u]
                                  /\ i'[u] = i[u] /\ ip'[u] = ip[u]
  BY TurnEnds, Zenon
<1>2. OnlyMoves(x)
  BY <1>1, Zenon DEF OnlyMoves
<1>3. /\ Tidy(slots'[x], i'[x], ip'[x]) /\ Once(slots'[x], i'[x], ip'[x])
      /\ ClientsIn(slots'[x], i'[x], ip'[x]) = ClientsIn(y, i[x], ip[x])
      /\ IF pc'[x] = "pass" THEN i'[x] < slots'[x].count ELSE i'[x] = 0 /\ ip'[x] = 0
  BY <1>1, Zenon DEF TurnOK
<1>4. Typed(slots'[x])
  BY <1>3, TidyFields, Zenon
<1>5. ThreadOK(x)'
  BY <1>1, <1>3, <1>4 DEF ThreadOK, InPass
<1>6. Entries'[x] = ClientsIn(y, i[x], ip[x])
  BY <1>2, <1>3, EntriesOf, Zenon
<1>7. QED
  BY <1>1, <1>2, <1>3, <1>5, <1>6, Zenon

\* Spread depends on the entries of the threads only.
LEMMA SpreadSame ==
  ASSUME NEW H, NEW Q, NEW N, NEW O, Spread(H, Q, N, O), NEW G, \A u \in Xps : G[u] = H[u]
  PROVE  Spread(G, Q, N, O)
<1>1. UNION {G[u] : u \in Xps} = UNION {H[u] : u \in Xps}
  OBVIOUS
<1>2. QED
  BY <1>1, Zenon DEF Spread

\* What a thread in a pass has to go on with.
LEMMA InThePass ==
  ASSUME Sound, NEW x \in Xps, pc[x] \in {"pass", "push"}
  PROVE  /\ Basic /\ running[x] # 0 /\ Tidy(slots[x], i[x], ip[x]) /\ i[x] < slots[x].count
         /\ Once(slots[x], i[x], ip[x]) /\ Entries[x] = ClientsIn(slots[x], i[x], ip[x])
         /\ Single(queue) /\ Single(hand) /\ Spread(Entries, Among(queue), Among(hand), Open)
         /\ hand[x] # NoSock <=> pc[x] = "push"
<1>1. Basic /\ ThreadOK(x) /\ Apart
  BY DEF Sound
<1>2. /\ running[x] # 0 /\ Tidy(slots[x], i[x], ip[x]) /\ i[x] < slots[x].count
      /\ hand[x] # NoSock <=> pc[x] = "push"
  BY <1>1 DEF ThreadOK, InPass
<1>3. Entries[x] = ClientsIn(slots[x], i[x], ip[x])
  BY Zenon DEF Entries
<1>4. QED
  BY <1>1, <1>2, <1>3, Zenon DEF Apart

\* A turn that reports nothing moves the entry or leaves it.
LEMMA TurnKeepsKeeps ==
  ASSUME Sound, NEW x \in Xps, TurnKeeps(x), Ordinary'
  PROVE  Sound'
<1>1. /\ pc[x] = "pass" /\ EndOfTurn(x, slots[x])
      /\ UNCHANGED <<running, hand, awake, pool, queue, expandlock, client, main, toListen>>
  BY Zenon DEF TurnKeeps, mainVars
<1>2. pc[x] \in {"pass", "push"} /\ "pass" # "push"
  BY <1>1
<1>3. /\ Basic /\ running[x] # 0 /\ Tidy(slots[x], i[x], ip[x]) /\ i[x] < slots[x].count
      /\ Once(slots[x], i[x], ip[x]) /\ Entries[x] = ClientsIn(slots[x], i[x], ip[x])
      /\ Single(queue) /\ Single(hand) /\ Spread(Entries, Among(queue), Among(hand), Open)
      /\ hand[x] = NoSock
  BY <1>1, <1>2, InThePass, Zenon
<1>4. /\ OnlyMoves(x) /\ ThreadOK(x)' /\ Once(slots'[x], i'[x], ip'[x])
      /\ Entries'[x] = ClientsIn(slots[x], i[x], ip[x])
      /\ pc' \in [Xps -> PCs] /\ i' \in [Xps -> Nat] /\ ip' \in [Xps -> Nat] /\ DOMAIN slots' = Xps
  BY <1>1, <1>3, AfterTurn, Zenon
<1>5. Basic'
  BY <1>1, <1>3, <1>4, BasicFields, BasicThread, Zenon DEF Unmoved
<1>6. \A u \in Xps : Entries'[u] = Entries[u]
  BY <1>3, <1>4, EntriesOf, Zenon
<1>7. Open' = Open
  BY <1>1, Zenon DEF Open
<1>8. Spread(Entries', Among(queue'), Among(hand'), Open')
  <2>1. Spread(Entries', Among(queue), Among(hand), Open)
    BY <1>3, <1>6, SpreadSame, Zenon
  <2>2. QED
    BY <1>1, <1>7, <2>1, Zenon
<1>9. Single(queue') /\ Single(hand')
  BY <1>1, <1>3, Zenon
<1>10. QED
  BY <1>4, <1>5, <1>8, <1>9, Acts, Zenon

\* accept takes a client that was nowhere into the hand of the thread.
LEMMA TurnAcceptsKeeps ==
  ASSUME Sound, NEW x \in Xps, TurnAccepts(x)
  PROVE  Sound'
<1>1. PICK c \in Clients : /\ client[c] = "backlog" /\ client' = [client EXCEPT ![c] = "accepted"]
                           /\ hand' = [hand EXCEPT ![x] = c]
  BY DEF TurnAccepts, Backlog
<1>2. /\ Goto(x, "pass", "push")
      /\ UNCHANGED <<running, slots, i, ip, awake, pool, queue, expandlock, main, toListen>>
  BY Zenon DEF TurnAccepts, mainVars
<1>3. pc[x] = "pass" /\ pc[x] \in {"pass", "push"} /\ "pass" # "push" /\ "push" \in PCs
  BY <1>2 DEF Goto, PCs
<1>4. /\ Basic /\ running[x] # 0 /\ Tidy(slots[x], i[x], ip[x]) /\ i[x] < slots[x].count
      /\ Once(slots[x], i[x], ip[x]) /\ Entries[x] = ClientsIn(slots[x], i[x], ip[x])
      /\ Single(queue) /\ Single(hand) /\ Spread(Entries, Among(queue), Among(hand), Open)
      /\ hand[x] = NoSock
  BY <1>3, InThePass, Zenon
<1>5. /\ pc' \in [Xps -> PCs] /\ pc'[x] = "push" /\ \A u \in Xps : u # x => pc'[u] = pc[u]
  BY <1>2, <1>3, <1>4, GoneTo, Zenon
<1>6. /\ hand' \in [Xps -> Clients \union {NoSock}] /\ hand'[x] = c /\ DOMAIN hand = Xps
      /\ \A u \in Xps : u # x => hand'[u] = hand[u]
  BY <1>1, <1>4 DEF Basic
<1>7. OnlyMoves(x)
  BY <1>2, <1>5, <1>6, Zenon DEF OnlyMoves
<1>8. c \notin Open /\ Open' = Open \union {c}
      /\ client' \in [Clients -> {"never", "away", "backlog", "accepted", "quit", "closed"}]
  BY <1>1, <1>4 DEF Open, Basic
<1>9. Basic'
  BY <1>2, <1>4, <1>5, <1>6, <1>8, Zenon DEF Basic
<1>10. ThreadOK(x)'
  <2>1. Typed(slots[x]) /\ c # NoSock
    BY <1>4, TidyFields, NoClient, Zenon
  <2>2. /\ slots'[x] = slots[x] /\ i'[x] = i[x] /\ ip'[x] = ip[x] /\ running'[x] = running[x]
    BY <1>2, Zenon
  <2>3. QED
    BY <1>4, <1>5, <1>6, <2>1, <2>2 DEF ThreadOK, InPass
<1>11. /\ Spread(Entries, Among(queue), Among(hand) \union {c}, Open \union {c})
       /\ c \notin Among(hand)
  <2>1. Spread(Entries, Among(queue), Among(hand), Open) /\ c \notin Open
    BY <1>4, <1>8, Zenon
  <2>2. QED
    BY <2>1, SpreadAccepted
<1>12. Single(hand') /\ Among(hand') = Among(hand) \union {c}
  <2>1. PICK g : g = hand'
    OBVIOUS
  <2>2. PICK h : h = hand
    OBVIOUS
  <2>3. DOMAIN h = Xps /\ Single(h) /\ h[x] = NoSock /\ c \in Clients /\ c \notin Among(h)
    BY <1>4, <1>6, <1>11, <2>2, Zenon
  <2>4. DOMAIN g = Xps /\ g[x] = c /\ \A u \in Xps : u # x => g[u] = h[u]
    BY <1>6, <2>1, <2>2
  <2>5. Single(g) /\ Among(g) = Among(h) \union {c}
    BY <2>3, <2>4, TakeInHand
  <2>6. QED
    BY <2>1, <2>2, <2>5, Zenon
<1>13. Spread(Entries', Among(queue'), Among(hand'), Open')
  <2>1. Entries' = Entries /\ Among(queue') = Among(queue)
    BY <1>2, Zenon DEF Entries
  <2>2. QED
    BY <1>8, <1>11, <1>12, <2>1, Zenon
<1>14. Once(slots'[x], i'[x], ip'[x]) /\ Single(queue')
  BY <1>2, <1>4, Zenon
<1>15. QED
  BY <1>7, <1>9, <1>10, <1>12, <1>13, <1>14, Acts, Zenon

\* xs_queue_push moves the client from the hand into the queue, and the turn ends.
LEMMA PushKeeps ==
  ASSUME Sound, NEW x \in Xps, Push(x), Ordinary'
  PROVE  Sound'
<1>1. PICK c : c = hand[x]
  OBVIOUS
<1>2. /\ pc[x] = "push" /\ ~QueueFull /\ EndOfTurn(x, slots[x])
      /\ queue' = Append(queue, c) /\ hand' = [hand EXCEPT ![x] = NoSock]
      /\ UNCHANGED <<running, awake, pool, expandlock, client, main, toListen>>
  BY <1>1, Zenon DEF Push, mainVars
<1>3. pc[x] \in {"pass", "push"}
  BY <1>2
<1>4. /\ Basic /\ running[x] # 0 /\ Tidy(slots[x], i[x], ip[x]) /\ i[x] < slots[x].count
      /\ Once(slots[x], i[x], ip[x]) /\ Entries[x] = ClientsIn(slots[x], i[x], ip[x])
      /\ Single(queue) /\ Single(hand) /\ Spread(Entries, Among(queue), Among(hand), Open)
      /\ hand[x] # NoSock
  BY <1>2, <1>3, InThePass, Zenon
<1>5. /\ c \in Clients /\ hand' \in [Xps -> Clients \union {NoSock}] /\ hand'[x] = NoSock
      /\ DOMAIN hand = Xps /\ \A u \in Xps : u # x => hand'[u] = hand[u]
  BY <1>1, <1>2, <1>4 DEF Basic
<1>6. /\ Single(hand') /\ Among(hand') = Among(hand) \ {c} /\ c \in Among(hand)
  <2>1. PICK g : g = hand'
    OBVIOUS
  <2>2. DOMAIN hand = Xps /\ Single(hand) /\ hand[x] \in Clients /\ g = [hand EXCEPT ![x] = NoSock]
    BY <1>1, <1>2, <1>4, <1>5, <2>1, Zenon
  <2>3. Single(g) /\ Among(g) = Among(hand) \ {hand[x]} /\ hand[x] \in Among(hand)
    BY <2>2, PutDown
  <2>4. QED
    BY <1>1, <2>1, <2>3, Zenon
<1>7. Spread(Entries, Among(queue) \union {c}, Among(hand) \ {c}, Open) /\ c \notin Among(queue)
  BY <1>4, <1>6, SpreadPushed, Zenon
<1>8. queue \in Seq(Clients \union Listeners) /\ c \in Clients \union Listeners
  BY <1>4, <1>5, BasicFields
<1>9. Single(queue') /\ Among(queue') = Among(queue) \union {c}
  <2>1. Single(Append(queue, c)) /\ Among(Append(queue, c)) = Among(queue) \union ({c} \intersect Clients)
    BY <1>4, <1>7, <1>8, PushElement, Zenon
  <2>2. {c} \intersect Clients = {c}
    BY <1>5
  <2>3. QED
    BY <1>2, <2>1, <2>2, Zenon
<1>10. queue' \in Seq(Clients \union Listeners) /\ Len(queue') <= QueueCap
  BY <1>2, <1>8, PollAssumption DEF QueueFull
<1>11. /\ OnlyMoves(x) /\ ThreadOK(x)' /\ Once(slots'[x], i'[x], ip'[x])
       /\ Entries'[x] = ClientsIn(slots[x], i[x], ip[x])
       /\ pc' \in [Xps -> PCs] /\ i' \in [Xps -> Nat] /\ ip' \in [Xps -> Nat] /\ DOMAIN slots' = Xps
  BY <1>2, <1>4, <1>5, AfterTurn, Zenon
<1>12. Basic'
  BY <1>2, <1>4, <1>5, <1>10, <1>11, Zenon DEF Basic
<1>13. \A u \in Xps : Entries'[u] = Entries[u]
  BY <1>4, <1>11, EntriesOf, Zenon
<1>14. Open' = Open
  BY <1>2, Zenon DEF Open
<1>15. Spread(Entries', Among(queue'), Among(hand'), Open')
  <2>1. Spread(Entries', Among(queue) \union {c}, Among(hand) \ {c}, Open)
    BY <1>7, <1>13, SpreadSame, Zenon
  <2>2. QED
    BY <1>6, <1>9, <1>14, <2>1, Zenon
<1>16. QED
  BY <1>6, <1>9, <1>11, <1>12, <1>15, Acts, Zenon

\* An entry whose connection is given up, if it has one.
LEMMA CloseEntry ==
  ASSUME NEW y, NEW at, NEW kept, Tidy(y, at, kept), at < y.count, Once(y, at, kept),
         NEW e, e = y.pfd[at], e.fd \notin Listeners,
         NEW z, z = IF e.cfd = NoSock THEN y ELSE Clear(y, e.sid),
         NEW C, C = {e.cfd} \intersect Clients
  PROVE  /\ Tidy(z, at, kept) /\ at < z.count /\ Once(z, at, kept)
         /\ C \subseteq ClientsIn(y, at, kept)
         /\ ClientsIn(z, at, kept) = ClientsIn(y, at, kept) \ C
<1>1. C \subseteq ClientsIn(y, at, kept)
  <2>1. at \in Live(y, at, kept)
    <3>1. at \in 0 .. y.count /\ y.count \in Nat
      BY TidyFields
    <3>2. at \in at .. y.count - 1
      BY <3>1
    <3>3. QED
      BY <3>2 DEF Live
  <2>2. QED
    BY <2>1 DEF ClientsIn
<1>2. CASE e.cfd = NoSock
  <2>1. z = y /\ C = {}
    BY <1>2, NoClient
  <2>2. QED
    BY <1>1, <2>1
<1>3. CASE e.cfd # NoSock
  <2>1. PICK sid : sid = e.sid
    OBVIOUS
  <2>2. z = Clear(y, sid)
    BY <1>3, <2>1
  <2>3. /\ Tidy(z, at, kept) /\ z.total = y.total /\ z.count = y.count
        /\ \A k \in 0 .. y.total - 1 : k # at => z.pfd[k] = y.pfd[k]
        /\ z.pfd[at].cfd = NoSock
    BY <2>1, <2>2, ClearTidy
  <2>4. Once(z, at, kept) /\ ClientsIn(z, at, kept) = ClientsIn(y, at, kept) \ {y.pfd[at].cfd}
    BY <2>3, ClearClients
  <2>5. ClientsIn(y, at, kept) \ {e.cfd} = ClientsIn(y, at, kept) \ C
    BY DEF ClientsIn
  <2>6. QED
    BY <1>1, <2>3, <2>4, <2>5
<1>4. QED
  BY <1>2, <1>3

\* The clients that are closed are open no longer.
LEMMA OpenWithout ==
  ASSUME NEW S, client' = [c \in Clients |-> IF c \in S THEN "closed" ELSE client[c]]
  PROVE  Open' = Open \ (S \intersect Clients)
BY DEF Open

\* xs_async_handler closes the client of the entry, which is cleared and dropped.
LEMMA TurnClosesKeeps ==
  ASSUME Sound, NEW x \in Xps, TurnCloses(x), Ordinary'
  PROVE  Sound'
<1>1. PICK y, at, kept, e : y = slots[x] /\ at = i[x] /\ kept = ip[x] /\ e = y.pfd[at]
  OBVIOUS
<1>2. PICK z, C : z = (IF e.cfd = NoSock THEN y ELSE Clear(y, e.sid)) /\ C = {e.cfd} \intersect Clients
  OBVIOUS
<1>3. /\ pc[x] = "pass" /\ Closes(x, at) /\ EndOfTurn(x, z)
      /\ client' = [c \in Clients |-> IF c = e.cfd THEN "closed" ELSE client[c]]
      /\ UNCHANGED <<running, hand, awake, pool, queue, expandlock, main, toListen>>
  BY <1>1, <1>2, Zenon DEF TurnCloses, mainVars
<1>4. pc[x] \in {"pass", "push"} /\ "pass" # "push"
  BY <1>3
<1>5. /\ Basic /\ running[x] # 0 /\ Tidy(y, at, kept) /\ at < y.count
      /\ Once(y, at, kept) /\ Entries[x] = ClientsIn(y, at, kept)
      /\ Single(queue) /\ Single(hand) /\ Spread(Entries, Among(queue), Among(hand), Open)
      /\ hand[x] = NoSock
  BY <1>1, <1>3, <1>4, InThePass, Zenon
<1>6. e.fd \notin Listeners
  BY <1>1, <1>3, NoClient, Zenon DEF Closes
<1>7. /\ Tidy(z, at, kept) /\ at < z.count /\ Once(z, at, kept)
      /\ C \subseteq ClientsIn(y, at, kept)
      /\ ClientsIn(z, at, kept) = ClientsIn(y, at, kept) \ C
  <2>1. Tidy(y, at, kept) /\ at < y.count /\ Once(y, at, kept) /\ e = y.pfd[at] /\ e.fd \notin Listeners
    BY <1>1, <1>5, <1>6, Zenon
  <2>2. QED
    BY <1>2, <2>1, CloseEntry
<1>8. /\ OnlyMoves(x) /\ ThreadOK(x)' /\ Once(slots'[x], i'[x], ip'[x])
      /\ Entries'[x] = ClientsIn(z, at, kept)
      /\ pc' \in [Xps -> PCs] /\ i' \in [Xps -> Nat] /\ ip' \in [Xps -> Nat] /\ DOMAIN slots' = Xps
  BY <1>1, <1>3, <1>5, <1>7, AfterTurn, Zenon
<1>9. /\ client' \in [Clients -> {"never", "away", "backlog", "accepted", "quit", "closed"}]
      /\ Open' = Open \ C
  <2>1. client \in [Clients -> {"never", "away", "backlog", "accepted", "quit", "closed"}]
    BY <1>5, BasicFields
  <2>2. PICK f : f = e.cfd
    OBVIOUS
  <2>3. client' = [c \in Clients |-> IF c = f THEN "closed" ELSE client[c]]
    BY <1>3, <2>2
  <2>4. C = {f} \intersect Clients
    BY <1>2, <2>2
  <2>5. QED
    BY <2>1, <2>3, <2>4 DEF Open
<1>10. Basic'
  BY <1>3, <1>5, <1>8, <1>9, Zenon DEF Basic
<1>11. /\ Entries'[x] = Entries[x] \ C /\ C \subseteq Entries[x]
       /\ \A u \in Xps : u # x => Entries'[u] = Entries[u]
  BY <1>5, <1>7, <1>8, EntriesOf, Zenon
<1>12. Spread(Entries', Among(queue'), Among(hand'), Open')
  <2>1. Spread(Entries', Among(queue), Among(hand), Open \ C)
    BY <1>5, <1>11, SpreadClosed
  <2>2. QED
    BY <1>3, <1>9, <2>1, Zenon
<1>13. Single(queue') /\ Single(hand')
  BY <1>3, <1>5, Zenon
<1>14. QED
  BY <1>8, <1>10, <1>12, <1>13, Acts, Zenon

\* Arrays from which every entry is gone.
EmptyEntries(y) ==
  [k \in DOMAIN y.pfd |-> IF k < y.count THEN [y.pfd[k] EXCEPT !.fd = NoSock, !.cfd = NoSock] ELSE y.pfd[k]]
Empty(y, pfd) == [y EXCEPT !.pfd = pfd, !.count = 0]

\* Emptying the entries leaves the arrays typed, with no entry.
LEMMA Emptied ==
  ASSUME NEW y, Typed(y), NEW pfd, pfd = EmptyEntries(y),
         NEW z, z = Empty(y, pfd)
  PROVE  Typed(z) /\ z.count = 0
<1> DEFINE T == y.total
           K == 0 .. T - 1
           E == [fd : Sockets, cfd : Sockets, sid : K]
<1>1. y \in [total : {T}, listen : 0 .. T, count : 0 .. T, max : 0 .. T, free : -1 .. T - 1,
             sidmap : [K -> -1 .. T - 1], pfd : [K -> E]] /\ T \in Nat \ {0} /\ 0 \in 0 .. T
  <2>1. y \in ArraysOf(T) /\ T \in Nat \ {0}
    BY Zenon DEF Typed
  <2>2. 0 \in 0 .. T
    <3> HIDE DEF T
    <3> QED BY <2>1
  <2>3. QED
    BY <2>1, <2>2, Zenon DEF ArraysOf
<1>2. NoSock \in Sockets
  BY DEF Sockets
<1>3. ASSUME NEW k \in K PROVE pfd[k] \in E /\ pfd[k].fd = pfd[k].cfd
  <2>1. PICK d : d = y.pfd[k]
    OBVIOUS
  <2>2. d \in E /\ d.fd = d.cfd /\ k \in DOMAIN y.pfd
    BY <1>1, <2>1, ArrayFields
  <2>3. pfd[k] = IF k < y.count THEN [d EXCEPT !.fd = NoSock, !.cfd = NoSock] ELSE d
    BY <2>1, <2>2, Zenon DEF EmptyEntries
  <2> HIDE DEF K
  <2>4. /\ [d EXCEPT !.fd = NoSock, !.cfd = NoSock] \in E
        /\ [d EXCEPT !.fd = NoSock, !.cfd = NoSock].fd = NoSock
        /\ [d EXCEPT !.fd = NoSock, !.cfd = NoSock].cfd = NoSock
    BY <1>2, <2>2
  <2> HIDE DEF E
  <2>5. CASE k < y.count
    BY <2>3, <2>4, <2>5, Zenon
  <2>6. CASE ~(k < y.count)
    BY <2>2, <2>3, <2>6, Zenon
  <2>7. QED
    BY <2>5, <2>6
<1>4. pfd \in [K -> E]
  <2>1. DOMAIN y.pfd = K
    BY <1>1
  <2>2. DOMAIN pfd = K /\ pfd = [k \in DOMAIN pfd |-> pfd[k]]
    BY <2>1, Zenon DEF EmptyEntries
  <2> HIDE DEF K, E
  <2>3. QED
    BY <1>3, <2>2
<1>5. /\ z \in [total : {T}, listen : 0 .. T, count : 0 .. T, max : 0 .. T, free : -1 .. T - 1,
                sidmap : [K -> -1 .. T - 1], pfd : [K -> E]]
      /\ z.pfd = pfd /\ z.count = 0 /\ z.total = T
  <2> HIDE DEF T, K, E
  <2> QED BY <1>1, <1>4 DEF Empty
<1>6. z \in ArraysOf(z.total) /\ \A k \in 0 .. z.total - 1 : z.pfd[k].fd = z.pfd[k].cfd
  <2>1. z \in ArraysOf(T)
    BY <1>5, Zenon DEF ArraysOf
  <2>2. QED
    BY <1>3, <1>5, <2>1
<1>7. QED
  BY <1>1, <1>5, <1>6, Zenon DEF Typed

\* Where nothing is live.
LEMMA NothingLive ==
  ASSUME NEW z, z.count = 0
  PROVE  Once(z, 0, 0) /\ ClientsIn(z, 0, 0) = {}
<1>1. Live(z, 0, 0) = {}
  BY DEF Live
<1>2. QED
  BY <1>1 DEF Once, ClientsIn

\* A thread that ends closes the clients of all its entries.
LEMMA ExitKeeps ==
  ASSUME Sound, NEW x \in Xps, Exit(x)
  PROVE  Sound'
<1>1. Basic /\ ThreadOK(x) /\ Apart
  BY DEF Sound
<1>2. PICK y : y = slots[x]
  OBVIOUS
<1>3. PICK pfd : pfd = EmptyEntries(y)
  OBVIOUS
<1>4. PICK held : held = {y.pfd[k].cfd : k \in 0 .. y.count - 1}
  OBVIOUS
<1>5. /\ Goto(x, "exit", "done")
      /\ client' = [c \in Clients |-> IF c \in held THEN "closed" ELSE client[c]]
      /\ slots' = [slots EXCEPT ![x].pfd = pfd, ![x].count = 0]
      /\ UNCHANGED <<running, i, ip, hand, awake, pool, queue, expandlock, main, toListen>>
  BY <1>2, <1>3, <1>4, Zenon DEF Exit, mainVars, EmptyEntries
<1>6. "exit" \in Plain /\ "exit" # "start" /\ "done" \in PCs
  BY DEF PCs, Plain
<1>7. /\ pc' \in [Xps -> PCs] /\ pc[x] = "exit" /\ pc'[x] = "done"
      /\ \A u \in Xps : u # x => pc'[u] = pc[u]
  BY <1>1, <1>5, <1>6, GoneTo, Zenon
<1>8. /\ Tidy(y, 0, 0) /\ i[x] = 0 /\ ip[x] = 0 /\ hand[x] = NoSock /\ Typed(y)
  BY <1>1, <1>2, <1>6, <1>7, PlainThread, Zenon DEF ThreadOK
<1>9. PICK z : z = Empty(y, pfd)
  OBVIOUS
<1>10. slots'[x] = z /\ DOMAIN slots' = Xps /\ \A u \in Xps : u # x => slots'[u] = slots[u]
  <2>1. DOMAIN slots = Xps
    BY <1>1, BasicFields
  <2>2. QED
    BY <1>2, <1>5, <1>9, <2>1 DEF Empty
<1>11. Typed(z) /\ z.count = 0
  BY <1>3, <1>8, <1>9, Emptied, Zenon
<1>12. Once(z, 0, 0) /\ ClientsIn(z, 0, 0) = {}
  BY <1>11, NothingLive, Zenon
<1>13. OnlyMoves(x)
  BY <1>5, <1>7, <1>10, Zenon DEF OnlyMoves
<1>14. ThreadOK(x)'
  <2>1. slots'[x] = z /\ i'[x] = 0 /\ ip'[x] = 0 /\ hand'[x] = NoSock
    BY <1>5, <1>8, <1>10, Zenon
  <2>2. QED
    BY <1>7, <1>11, <2>1 DEF ThreadOK, InPass
<1>15. PICK C : C = held \intersect Clients
  OBVIOUS
<1>16. /\ client' \in [Clients -> {"never", "away", "backlog", "accepted", "quit", "closed"}]
       /\ Open' = Open \ C
  <2>1. client \in [Clients -> {"never", "away", "backlog", "accepted", "quit", "closed"}]
    BY <1>1, BasicFields
  <2>2. client' \in [Clients -> {"never", "away", "backlog", "accepted", "quit", "closed"}]
    BY <1>5, <2>1
  <2>3. QED
    BY <1>5, <1>15, <2>2, OpenWithout, Zenon
<1>17. Basic'
  BY <1>1, <1>5, <1>7, <1>10, <1>16, Zenon DEF Basic
<1>18. C = ClientsIn(y, 0, 0)
  <2>1. Live(y, 0, 0) = 0 .. y.count - 1
    BY <1>8, TidyFields DEF Live
  <2>2. QED
    BY <1>4, <1>15, <2>1, Zenon DEF ClientsIn
<1>19. /\ Entries'[x] = Entries[x] \ C /\ C \subseteq Entries[x]
       /\ \A u \in Xps : u # x => Entries'[u] = Entries[u]
  <2>1. Entries[x] = C
    BY <1>2, <1>8, <1>13, <1>18, EntriesOf, Zenon
  <2>2. Entries'[x] = {} /\ \A u \in Xps : u # x => Entries'[u] = Entries[u]
    <3>1. slots'[x] = z /\ i'[x] = 0 /\ ip'[x] = 0
      BY <1>5, <1>8, <1>10, Zenon
    <3>2. /\ Entries'[x] = ClientsIn(slots'[x], i'[x], ip'[x])
          /\ \A u \in Xps : u # x => Entries'[u] = Entries[u]
      BY <1>13, EntriesOf, Zenon
    <3>3. QED
      BY <1>12, <3>1, <3>2, Zenon
  <2>3. QED
    BY <2>1, <2>2
<1>20. Spread(Entries', Among(queue'), Among(hand'), Open')
  <2>1. Spread(Entries, Among(queue), Among(hand), Open)
    BY <1>1, Zenon DEF Apart
  <2>2. Spread(Entries', Among(queue), Among(hand), Open \ C)
    BY <1>19, <2>1, SpreadClosed
  <2>3. QED
    BY <1>5, <1>16, <2>2, Zenon
<1>21. Once(slots'[x], i'[x], ip'[x]) /\ Single(queue') /\ Single(hand')
  BY <1>1, <1>5, <1>8, <1>10, <1>12, Zenon DEF Apart
<1>22. QED
  BY <1>13, <1>14, <1>17, <1>20, <1>21, Acts, Zenon

\* A thread is created, for an xs_pollfd that nobody has used or whose thread has
\* ended.
LEMMA CreateKeeps ==
  ASSUME Sound, NEW x \in Xps, NEW y \in Unborn, pc[x] = "expand", Create(y),
         pc' = [pc EXCEPT ![x] = "poll", ![y] = "start"],
         UNCHANGED <<i, ip, hand, queue, expandlock, client, main, toListen>>
  PROVE  Sound'
<1>1. Basic /\ Apart /\ \A u \in Xps : ThreadOK(u)
  BY DEF Sound
<1>2. y \in Pool /\ y \in Xps /\ pc[y] \in {"none", "done"} /\ y # x
  BY DEF Unborn, Xps
<1>3. PICK z : z = NewSlots(PoolSize)
  OBVIOUS
<1>4. Tidy(z, 0, 0) /\ z.count = 0 /\ Typed(z) /\ Once(z, 0, 0) /\ ClientsIn(z, 0, 0) = {}
  <2>1. PoolSize \in Nat \ {0}
    BY PollAssumption
  <2>2. Tidy(z, 0, 0) /\ z.count = 0
    BY <1>3, <2>1, NewTidy, Zenon
  <2>3. QED
    BY <2>2, TidyFields, NothingLive, Zenon
<1>5. /\ pool' = <<y>> \o Remaining(pool, Pool \ {y}) /\ running' = [running EXCEPT ![y] = 1]
      /\ slots' = [slots EXCEPT ![y] = z] /\ awake' = awake
  BY <1>3, Zenon DEF Create
<1>6. pool' \in Seq(Pool)
  <2>1. PICK s : s = Remaining(pool, Pool \ {y})
    OBVIOUS
  <2>2. s \in Seq(Pool)
    BY <1>1, <2>1, BasicFields, RemainingPool, Zenon
  <2>3. <<y>> \o s \in Seq(Pool)
    BY <1>2, <2>2
  <2>4. QED
    BY <1>5, <2>1, <2>3, Zenon
<1>7. /\ slots'[y] = z /\ DOMAIN slots' = Xps /\ \A u \in Xps : u # y => slots'[u] = slots[u]
      /\ running' \in [Xps -> -2 .. 2] /\ running'[y] = 1
      /\ \A u \in Xps : u # y => running'[u] = running[u]
  BY <1>1, <1>2, <1>5, BasicFields
<1>8. /\ pc' \in [Xps -> PCs] /\ pc'[x] = "poll" /\ pc'[y] = "start"
      /\ \A u \in Xps : u # x /\ u # y => pc'[u] = pc[u]
  <2>1. pc \in [Xps -> PCs] /\ {"poll", "start"} \subseteq PCs
    BY <1>1, BasicFields DEF PCs
  <2>2. QED
    BY <1>2, <2>1
<1>9. /\ slots[y].count = 0 /\ i[y] = 0 /\ ip[y] = 0 /\ hand[y] = NoSock
  BY <1>1, <1>2 DEF ThreadOK, InPass
<1>10. Basic'
  BY <1>1, <1>5, <1>6, <1>7, <1>8, BasicFields, BasicThread, Zenon DEF Unmoved
<1>11. ASSUME NEW u \in Xps PROVE ThreadOK(u)' /\ Once(slots'[u], i'[u], ip'[u])
  <2>1. CASE u = y
    <3>1. /\ slots'[u] = z /\ i'[u] = 0 /\ ip'[u] = 0 /\ hand'[u] = NoSock /\ pc'[u] = "start"
      BY <1>7, <1>8, <1>9, <2>1, Zenon
    <3>2. QED
      BY <1>4, <3>1 DEF ThreadOK, InPass
  <2>2. CASE u = x
    <3>1. "expand" \in Plain /\ "poll" \in Plain /\ "poll" # "pass" /\ "expand" # "start"
      BY PlainPCs
    <3>2. i[x] = 0 /\ ip[x] = 0 /\ running[x] # 0
      BY <1>1, <3>1, PlainThread, Zenon
    <3>3. /\ slots'[x] = slots[x] /\ i'[x] = 0 /\ ip'[x] = 0 /\ hand'[x] = hand[x]
          /\ running'[x] # 0
      BY <1>2, <1>7, <3>2, Zenon
    <3>4. ThreadOK(x)'
      BY <1>1, <1>8, <3>1, <3>3, GoesOnOK, Zenon
    <3>5. QED
      BY <1>1, <2>2, <3>2, <3>3, <3>4, Zenon DEF Apart
  <2>3. CASE u # x /\ u # y
    <3>1. /\ slots'[u] = slots[u] /\ pc'[u] = pc[u] /\ i'[u] = i[u] /\ ip'[u] = ip[u]
          /\ hand'[u] = hand[u] /\ running'[u] = running[u]
      BY <1>7, <1>8, <2>3, Zenon
    <3>2. ThreadOK(u)'
      BY <1>1, <3>1, StaysOK, Zenon
    <3>3. QED
      BY <1>1, <3>1, <3>2, Zenon DEF Apart
  <2>4. QED
    BY <2>1, <2>2, <2>3
<1>12. ASSUME NEW u \in Xps PROVE Entries'[u] = Entries[u]
  <2>1. /\ Entries[u] = ClientsIn(slots[u], i[u], ip[u])
        /\ Entries'[u] = ClientsIn(slots'[u], i[u], ip[u])
    BY Zenon DEF Entries
  <2>2. CASE u = y
    <3>1. ClientsIn(slots[y], 0, 0) = {} /\ ClientsIn(slots'[y], 0, 0) = {}
      BY <1>4, <1>7, <1>9, NothingLive, Zenon
    <3>2. QED
      BY <1>9, <2>1, <2>2, <3>1, Zenon
  <2>3. CASE u # y
    BY <1>7, <2>1, <2>3, Zenon
  <2>4. QED
    BY <2>2, <2>3
<1>13. Apart'
  <2>1. Spread(Entries, Among(queue), Among(hand), Open) /\ Single(queue) /\ Single(hand)
    BY <1>1, Zenon DEF Apart
  <2>2. Spread(Entries', Among(queue), Among(hand), Open)
    BY <1>12, <2>1, SpreadSame, Zenon
  <2>3. Open' = Open
    BY Zenon DEF Open
  <2>4. QED
    BY <1>11, <2>1, <2>2, <2>3, Zenon DEF Apart
<1>14. QED
  BY <1>10, <1>11, <1>13, Zenon DEF Sound

\* Growing or cleaning the pool: xs_pollfd_Find, xs_pollfd_Wake and xs_pollfd_Clean.
LEMMA ExpandsKeep ==
  ASSUME Sound, NEW x \in Xps, Expand(x)
  PROVE  Sound'
<1>1. /\ pc[x] = "expand"
      /\ UNCHANGED <<i, ip, hand, queue, expandlock, client, main, toListen>>
      /\ \/ \E busy : FindAndWake(x, busy)
         \/ CleanBy(x)
         \/ Goto(x, "expand", "poll") /\ UNCHANGED <<pool, running, slots, awake>>
  BY DEF Expand, mainVars
<1>2. CASE \E busy : FindAndWake(x, busy)
  <2>1. PICK busy : FindAndWake(x, busy)
    BY <1>2
  <2>2. CASE \E y \in Unborn : Create(y) /\ pc' = [pc EXCEPT ![x] = "poll", ![y] = "start"]
    <3>1. PICK y \in Unborn : Create(y) /\ pc' = [pc EXCEPT ![x] = "poll", ![y] = "start"]
      BY <2>2
    <3>2. QED
      BY <1>1, <3>1, CreateKeeps, Zenon
  <2>3. CASE ~\E y \in Unborn : Create(y) /\ pc' = [pc EXCEPT ![x] = "poll", ![y] = "start"]
    <3>1. PICK X \in SUBSET Xps : Signal(X) /\ Goto(x, "expand", "poll") /\ UNCHANGED <<pool, running, slots>>
      BY <2>1, <2>3 DEF FindAndWake
    <3>2. QED
      BY <1>1, <3>1, ExpandKeeps, Zenon
  <2>4. QED
    BY <2>2, <2>3
<1>3. CASE CleanBy(x)
  <2>1. /\ Goto(x, "expand", "poll") /\ running' = running /\ slots' = slots /\ awake' = awake
        /\ pool' = pool \/ pool' = Remaining(pool, Alive)
    BY <1>3 DEF CleanBy
  <2>2. QED
    BY <1>1, <2>1, ExpandKeeps, Zenon
<1>4. CASE Goto(x, "expand", "poll") /\ UNCHANGED <<pool, running, slots, awake>>
  BY <1>1, <1>4, ExpandKeeps, Zenon
<1>5. QED
  BY <1>1, <1>2, <1>3, <1>4, Zenon

-----------------------------------------------------------------------------
(***************************************************************************)
(* The invariant holds.                                                    *)
(***************************************************************************)

\* Every step that stays ordinary keeps it.
LEMMA SoundStep ==
  ASSUME Sound, [Next]_vars, Ordinary'
  PROVE  Sound'
<1>1. CASE UNCHANGED vars
  <2>1. UNCHANGED <<threads, queue, client, main, toListen>>
    BY <1>1, Zenon DEF vars, mainVars, threads
  <2>2. Basic' /\ Open' = Open
    <3>1. Basic
      BY DEF Sound
    <3>2. QED
      BY <2>1, <3>1, Zenon DEF Basic, Open, threads
  <2>3. QED
    BY <2>1, <2>2, MainStep, Zenon DEF threads
<1>2. ASSUME NEW x \in Xps, Thread(x) \/ Resume(x) PROVE Sound'
  BY <1>2, StartKeeps, SleepKeeps, TailKeeps, PollKeeps, ExpandsKeep, PopKeeps, TurnKeepsKeeps,
     TurnAcceptsKeeps, PushKeeps, TurnClosesKeeps, ExitKeeps, Zenon DEF Thread
<1>3. CASE PushListener \/ StopThreads \/ KickThreads \/ StopRoot \/ JoinRoot \/ JoinOthers
  BY <1>3, PushListenerKeeps, StopsKeep, JoinsKeep, Zenon
<1>4. CASE \E c \in Clients : Connect(c) \/ Quit(c)
  BY <1>4, ClientsKeep, Zenon
<1>5. CASE \E x \in Xps : Thread(x) \/ Resume(x)
  BY <1>2, <1>5
<1>6. QED
  BY <1>1, <1>3, <1>4, <1>5, Zenon DEF Next

\* The program begins with empty arrays, an empty queue and empty hands.
LEMMA InitSound ==
  ASSUME Init
  PROVE  PollInv
<1>1. PICK sc \in Scenarios :
        /\ slots = [x \in Xps |-> NewSlots(IF x = Root THEN sc.total ELSE PoolSize)]
        /\ toListen = sc.listen
        /\ client = [c \in Clients |-> IF c <= sc.clients THEN "away" ELSE "never"]
  BY DEF Init
<1>2. /\ running = [x \in Xps |-> 0] /\ pc = [x \in Xps |-> IF x = Root THEN "start" ELSE "none"]
      /\ i = [x \in Xps |-> 0] /\ ip = [x \in Xps |-> 0] /\ hand = [x \in Xps |-> NoSock]
      /\ awake = {} /\ pool = <<>> /\ queue = <<>> /\ expandlock = 0 /\ main = "listen"
      /\ incidents = {}
  BY Zenon DEF Init
<1>3. /\ sc.total \in Nat \ {0} /\ PoolSize \in Nat \ {0} /\ QueueCap \in Nat
      /\ sc.listen \in Seq(Listeners) \ {<<>>}
  BY PollAssumption
<1>4. Basic
  <2>1. /\ running \in [Xps -> -2 .. 2] /\ i \in [Xps -> Nat] /\ ip \in [Xps -> Nat]
        /\ hand \in [Xps -> Clients \union {NoSock}]
    BY <1>2
  <2>2. pc \in [Xps -> PCs]
    BY <1>2 DEF PCs
  <2>3. awake \subseteq Xps /\ pool \in Seq(Pool) /\ queue \in Seq(Clients \union Listeners)
        /\ Len(queue) <= QueueCap
    BY <1>2, <1>3
  <2>4. client \in [Clients -> {"never", "away", "backlog", "accepted", "quit", "closed"}]
    BY <1>1
  <2>5. DOMAIN slots = Xps /\ toListen \in Seq(Listeners) /\ toListen # <<>>
    BY <1>1, <1>3
  <2>6. QED
    BY <1>2, <2>1, <2>2, <2>3, <2>4, <2>5 DEF Basic
<1>5. ASSUME NEW x \in Xps
      PROVE  /\ Tidy(slots[x], 0, 0) /\ slots[x].count = 0 /\ Typed(slots[x])
             /\ Once(slots[x], 0, 0) /\ ClientsIn(slots[x], 0, 0) = {}
  <2>1. PICK T : T = IF x = Root THEN sc.total ELSE PoolSize
    OBVIOUS
  <2>2. T \in Nat \ {0} /\ slots[x] = NewSlots(T)
    BY <1>1, <1>3, <2>1
  <2>3. Tidy(slots[x], 0, 0) /\ slots[x].count = 0
    BY <2>2, NewTidy, Zenon
  <2>4. QED
    BY <2>3, TidyFields, NothingLive, Zenon
<1>6. ASSUME NEW x \in Xps PROVE ThreadOK(x)
  <2>1. i[x] = 0 /\ ip[x] = 0 /\ hand[x] = NoSock /\ pc[x] \in {"start", "none"}
    BY <1>2
  <2>2. QED
    BY <1>5, <2>1 DEF ThreadOK, InPass
<1>7. Apart
  <2>1. \A x \in Xps : Once(slots[x], i[x], ip[x]) /\ Entries[x] = {}
    BY <1>2, <1>5, Zenon DEF Entries
  <2>2. Among(queue) = {} /\ Single(queue)
    BY <1>2 DEF Among, Single
  <2>3. Among(hand) = {} /\ Single(hand)
    BY <1>2, NoClient DEF Among, Single
  <2>4. Open = {}
    BY <1>1 DEF Open
  <2>5. Spread(Entries, {}, {}, {})
    BY <2>1 DEF Spread
  <2>6. QED
    BY <2>1, <2>2, <2>3, <2>4, <2>5, Zenon DEF Apart
<1>8. QED
  BY <1>2, <1>4, <1>6, <1>7 DEF PollInv, Sound

\* The invariant, of every reachable state.
THEOREM PollInvariant == Spec => []PollInv
<1>1. Init => PollInv
  BY InitSound
<1>2. PollInv /\ [Next]_vars => PollInv'
  <2>1. ASSUME PollInv, [Next]_vars PROVE PollInv'
    <3>1. incidents' \subseteq Incident /\ incidents \subseteq incidents'
      BY <2>1, Incidents, Zenon DEF PollInv
    <3>2. ASSUME Ordinary' PROVE Sound'
      <4>1. Sound
        BY <2>1, <3>1, <3>2, OrdinaryBefore, Zenon DEF PollInv
      <4>2. QED
        BY <2>1, <3>2, <4>1, SoundStep, Zenon
    <3>3. QED
      BY <3>1, <3>2, Zenon DEF PollInv
  <2>2. QED
    BY <2>1
<1>3. QED
  BY <1>1, <1>2, PTL DEF Spec

\* Tidy arrays have consistent tokens: those of the list are all that are free.
LEMMA TidyConsistent ==
  ASSUME NEW y, NEW at, NEW kept, Tidy(y, at, kept)
  PROVE  TokensConsistent(y, at, kept)
<1>1. \A k \in Live(y, at, kept) : y.sidmap[y.pfd[k].sid] = k /\ SidsOf(y)[k] = y.pfd[k].sid
  BY LiveEntries
<1>2. PICK T, map, free : T = y.total /\ map = y.sidmap /\ free = y.free
  OBVIOUS
<1>3. T \in Nat /\ free \in -1 .. T - 1 /\ DOMAIN map = 0 .. T - 1
  BY <1>2, TidyFields
<1>4. PICK size : size = kept + (y.count - at)
  OBVIOUS
<1>5. InOrder(map, free, SidsOf(y), Live(y, at, kept), T, size)
  BY <1>2, <1>4, Zenon DEF Tidy, Tokens
<1>6. PICK n \in Nat : \E list \in [0 .. n -> -1 .. T - 1] :
        Accounted(map, free, SidsOf(y), Live(y, at, kept), T, n, list, n + size)
  BY <1>5, Zenon DEF InOrder
<1>7. PICK list \in [0 .. n -> -1 .. T - 1] :
        Accounted(map, free, SidsOf(y), Live(y, at, kept), T, n, list, n + size)
  BY <1>6
<1>8. Stacked(map, free, T, n, list)
  BY <1>7, Zenon DEF Accounted
<1>9. PICK S : S = {list[m] : m \in 1 .. n}
  OBVIOUS
<1>10. S \in SUBSET DOMAIN map
  <2>1. \A m \in 1 .. n : list[m] \in 0 .. T - 1
    BY <1>3, <1>8, FreeList, Zenon
  <2>2. QED
    BY <1>3, <1>9, <2>1, Zenon
<1>11. free \in S \union {-1}
  <2>1. CASE n = 0
    BY <1>8, <2>1 DEF Stacked
  <2>2. CASE n # 0
    <3>1. n \in 1 .. n
      BY <2>2
    <3>2. QED
      BY <1>8, <1>9, <3>1 DEF Stacked
  <2>3. QED
    BY <2>1, <2>2
<1>12. ASSUME NEW sid \in S PROVE map[sid] \in S \union {-1}
  <2>1. PICK m \in 1 .. n : sid = list[m]
    BY <1>9
  <2>2. map[sid] = list[m - 1] /\ list[0] = -1
    BY <1>8, <2>1, Zenon DEF Stacked
  <2>3. m = 1 \/ m - 1 \in 1 .. n
    OBVIOUS
  <2>4. QED
    BY <1>9, <2>2, <2>3
<1>13. Follows(y, S)
  BY <1>2, <1>11, <1>12, Zenon DEF Follows
<1>14. FreeTokens(y) \subseteq S
  BY <1>2, <1>10, <1>13, Zenon DEF FreeTokens
<1>15. ASSUME NEW k \in Live(y, at, kept) PROVE y.pfd[k].sid \notin S
  <2>1. \A m \in 1 .. n : SidsOf(y)[k] # list[m]
    BY <1>7, Zenon DEF Accounted, Entered
  <2>2. QED
    BY <1>1, <1>9, <2>1, Zenon
<1>16. {y.pfd[k].sid : k \in Live(y, at, kept)} \intersect FreeTokens(y) = {}
  BY <1>14, <1>15
<1>17. \A k, l \in Live(y, at, kept) : y.pfd[k].sid = y.pfd[l].sid => k = l
  BY <1>1, Zenon
<1>18. QED
  BY <1>1, <1>16, <1>17, Zenon DEF TokensConsistent

(***************************************************************************)
(* In an ordinary run the token that a connection keeps leads to its entry *)
(* (xptok_ind through sidmap), at every point of the pass of               *)
(* xs_Pollthread3 that moves entries and frees tokens, for any number of   *)
(* threads, clients and entries.                                           *)
(***************************************************************************)
THEOREM TokensAlwaysLead == Spec => []TokensLead
<1>1. PollInv => TokensLead
  <2>1. ASSUME Sound, NEW x \in Xps, pc[x] \notin {"none", "done"}
        PROVE  IF InPass(x) THEN TokensConsistent(slots[x], i[x], ip[x])
                            ELSE TokensConsistent(slots[x], 0, 0)
    <3>1. Tidy(slots[x], i[x], ip[x]) /\ (~InPass(x) => i[x] = 0 /\ ip[x] = 0)
      BY <2>1, Zenon DEF Sound, ThreadOK
    <3>2. TokensConsistent(slots[x], i[x], ip[x])
      BY <3>1, TidyConsistent, Zenon
    <3>3. QED
      BY <3>1, <3>2, Zenon
  <2>2. QED
    BY <2>1, Zenon DEF PollInv, TokensLead
<1>2. QED
  BY <1>1, PollInvariant, PTL

(***************************************************************************)
(* In an ordinary run everything keeps its type: no position, count or     *)
(* token of xs_pollfd_internaladd and of the pass leaves the arrays.       *)
(* (Adding a listener over a connection also counts in whatever old        *)
(* entry lies behind the last one.  Its token may lead to a listener,      *)
(* whose entry is emptied when the old one is closed: listenCount is then  *)
(* too large, and may outgrow the arrays.)                                 *)
(***************************************************************************)
THEOREM TypeCorrect == Spec => [](Ordinary => TypeOK)
<1>1. ASSUME incidents \subseteq Incident, Sound PROVE TypeOK
  <2>1. Basic /\ \A x \in Xps : ThreadOK(x)
    BY <1>1 DEF Sound
  <2>2. ASSUME NEW x \in Xps
        PROVE  /\ slots[x].max \in 0 .. Size(x) /\ slots[x].count \in 0 .. slots[x].max
               /\ slots[x].listen \in 0 .. Size(x) /\ slots[x].free \in -1 .. Size(x) - 1
               /\ slots[x].sidmap \in [0 .. Size(x) - 1 -> -1 .. Size(x) - 1]
               /\ slots[x].pfd \in [0 .. Size(x) - 1 ->
                    [fd : Clients \union Listeners \union {NoSock},
                     cfd : Clients \union Listeners \union {NoSock}, sid : 0 .. Size(x) - 1]]
    <3>1. PICK y : y = slots[x]
      OBVIOUS
    <3>2. Typed(y) /\ Size(x) = y.total
      BY <2>1, <3>1, Zenon DEF ThreadOK, Size
    <3>3. y.max = y.count \/ y.count = 0
      BY <2>1, <3>1, TidyFields, Zenon DEF ThreadOK
    <3>4. /\ y.total \in Nat \ {0} /\ y.listen \in 0 .. y.total /\ y.count \in 0 .. y.total
          /\ y.max \in 0 .. y.total /\ y.free \in -1 .. y.total - 1
          /\ y.sidmap \in [0 .. y.total - 1 -> -1 .. y.total - 1]
          /\ y.pfd \in [0 .. y.total - 1 -> [fd : Sockets, cfd : Sockets, sid : 0 .. y.total - 1]]
      BY <3>2, ArrayFields, Zenon
    <3>5. y.count \in 0 .. y.max
      BY <3>3, <3>4
    <3>6. QED
      BY <3>1, <3>2, <3>4, <3>5, Zenon DEF Sockets
  <2>3. Members \subseteq Pool
    BY <2>1, BasicFields DEF Members
  <2>4. QED
    BY <1>1, <2>1, <2>2, <2>3, Zenon DEF TypeOK, Basic, PCs
<1>2. PollInv => (Ordinary => TypeOK)
  BY <1>1, Zenon DEF PollInv
<1>3. QED
  BY <1>2, PollInvariant, PTL

\* Where a client is, from where it is spread to.
QueuePlaces(c) == {<<"queue", k>> : k \in {l \in DOMAIN queue : queue[l] = c}}
HandPlaces(c) == {<<"hand", x>> : x \in {y \in Xps : hand[y] = c}}
EntryPlaces(c) == UNION {{<<"entry", x, k>> : k \in {l \in Positions(x) : slots[x].pfd[l].cfd = c}} : x \in Xps}

\* The places of a client are one or none, as it is among those spread there or not.
LEMMA PlacesOf ==
  ASSUME Sound, NEW c \in Clients
  PROVE  /\ IF c \in Among(queue) THEN \E p : QueuePlaces(c) = {p} ELSE QueuePlaces(c) = {}
         /\ IF c \in Among(hand) THEN \E p : HandPlaces(c) = {p} ELSE HandPlaces(c) = {}
         /\ \A x \in Xps : c \in Entries[x] /\ (\A u \in Xps : u # x => c \notin Entries[u])
                             => \E p : EntryPlaces(c) = {p}
         /\ (\A x \in Xps : c \notin Entries[x]) => EntryPlaces(c) = {}
<1>1. Basic /\ Apart /\ \A x \in Xps : ThreadOK(x)
  BY DEF Sound
<1>2. IF c \in Among(queue) THEN \E p : QueuePlaces(c) = {p} ELSE QueuePlaces(c) = {}
  <2>1. CASE c \in Among(queue)
    <3>1. PICK k \in DOMAIN queue : queue[k] = c
      BY <2>1 DEF Among
    <3>2. \A l \in DOMAIN queue : queue[l] = c => l = k
      BY <1>1, <3>1, Zenon DEF Apart, Single
    <3>3. QueuePlaces(c) = {<<"queue", k>>}
      BY <3>1, <3>2 DEF QueuePlaces
    <3>4. QED
      BY <2>1, <3>3
  <2>2. CASE c \notin Among(queue)
    BY <2>2 DEF Among, QueuePlaces
  <2>3. QED
    BY <2>1, <2>2
<1>3. IF c \in Among(hand) THEN \E p : HandPlaces(c) = {p} ELSE HandPlaces(c) = {}
  <2>0. DOMAIN hand = Xps
    BY <1>1 DEF Basic
  <2>1. CASE c \in Among(hand)
    <3>1. PICK x \in Xps : hand[x] = c
      BY <2>0, <2>1 DEF Among
    <3>2. \A u \in Xps : hand[u] = c => u = x
      BY <1>1, <2>0, <3>1, Zenon DEF Apart, Single
    <3>3. HandPlaces(c) = {<<"hand", x>>}
      BY <3>1, <3>2 DEF HandPlaces
    <3>4. QED
      BY <2>1, <3>3
  <2>2. CASE c \notin Among(hand)
    BY <2>0, <2>2 DEF Among, HandPlaces
  <2>3. QED
    BY <2>1, <2>2
<1>4. ASSUME NEW x \in Xps
      PROVE  /\ Positions(x) = Live(slots[x], i[x], ip[x])
             /\ c \in Entries[x] <=> \E k \in Positions(x) : slots[x].pfd[k].cfd = c
             /\ \A k, l \in Positions(x) : slots[x].pfd[k].cfd = c /\ slots[x].pfd[l].cfd = c => k = l
  <2>1. Positions(x) = Live(slots[x], i[x], ip[x])
    <3>1. CASE InPass(x)
      BY <3>1 DEF Positions
    <3>2. CASE ~InPass(x)
      <4>1. i[x] = 0 /\ ip[x] = 0 /\ Typed(slots[x])
        BY <1>1, <3>2, Zenon DEF ThreadOK
      <4>2. PICK n : n = slots[x].count
        OBVIOUS
      <4>3. n \in Nat
        BY <4>1, <4>2, ArrayFields
      <4>4. 0 .. 0 - 1 \union 0 .. n - 1 = 0 .. n - 1
        BY <4>3
      <4>5. QED
        BY <3>2, <4>1, <4>2, <4>4, Zenon DEF Positions, Live
    <3>3. QED
      BY <3>1, <3>2
  <2>2. Entries[x] = {slots[x].pfd[k].cfd : k \in Positions(x)} \intersect Clients
    BY <2>1, Zenon DEF Entries, ClientsIn
  <2>3. \A k, l \in Positions(x) : slots[x].pfd[k].cfd = slots[x].pfd[l].cfd /\ slots[x].pfd[k].cfd \in Clients
                                     => k = l
    BY <1>1, <2>1, Zenon DEF Apart, Once
  <2>4. QED
    BY <2>1, <2>2, <2>3
<1>5. ASSUME NEW x \in Xps, c \in Entries[x], \A u \in Xps : u # x => c \notin Entries[u]
      PROVE  \E p : EntryPlaces(c) = {p}
  <2>1. PICK k \in Positions(x) : slots[x].pfd[k].cfd = c
    BY <1>4, <1>5
  <2>2. \A u \in Xps : \A l \in Positions(u) : slots[u].pfd[l].cfd = c => u = x /\ l = k
    BY <1>4, <1>5, <2>1, Zenon
  <2>3. EntryPlaces(c) = {<<"entry", x, k>>}
    <3>1. <<"entry", x, k>> \in EntryPlaces(c)
      BY <2>1 DEF EntryPlaces
    <3>2. ASSUME NEW p \in EntryPlaces(c) PROVE p = <<"entry", x, k>>
      <4>1. PICK u \in Xps : p \in {<<"entry", u, l>> : l \in {m \in Positions(u) : slots[u].pfd[m].cfd = c}}
        BY Zenon DEF EntryPlaces
      <4>2. PICK l \in Positions(u) : slots[u].pfd[l].cfd = c /\ p = <<"entry", u, l>>
        BY <4>1
      <4>3. QED
        BY <2>2, <4>2
    <3>3. QED
      BY <3>1, <3>2
  <2>4. QED
    BY <2>3
<1>6. ASSUME \A x \in Xps : c \notin Entries[x] PROVE EntryPlaces(c) = {}
  <2>1. ASSUME NEW p \in EntryPlaces(c) PROVE FALSE
    <3>1. PICK u \in Xps : p \in {<<"entry", u, l>> : l \in {m \in Positions(u) : slots[u].pfd[m].cfd = c}}
      BY Zenon DEF EntryPlaces
    <3>2. PICK l \in Positions(u) : slots[u].pfd[l].cfd = c
      BY <3>1
    <3>3. QED
      BY <1>4, <1>6, <3>2, Zenon
  <2>2. QED
    BY <2>1
<1>7. QED
  BY <1>2, <1>3, <1>5, <1>6, Zenon

(***************************************************************************)
(* In an ordinary run a socket that xs_Pollthread3 has accepted is in one  *)
(* place until it is closed, and then in none: nothing is closed twice and *)
(* nothing is lost on the way from accept through the queue to the entries *)
(* of whichever thread has room.                                           *)
(***************************************************************************)
THEOREM SocketsAlwaysConserved == Spec => []SocketsConserved
<1>1. ASSUME Sound, NEW c \in Clients
      PROVE  Cardinality(Places(c)) = IF client[c] \in {"accepted", "quit"} THEN 1 ELSE 0
  <2>1. Places(c) = QueuePlaces(c) \union HandPlaces(c) \union EntryPlaces(c)
    BY Zenon DEF Places, QueuePlaces, HandPlaces, EntryPlaces
  <2>2. /\ IF c \in Among(queue) THEN \E p : QueuePlaces(c) = {p} ELSE QueuePlaces(c) = {}
        /\ IF c \in Among(hand) THEN \E p : HandPlaces(c) = {p} ELSE HandPlaces(c) = {}
        /\ \A x \in Xps : c \in Entries[x] /\ (\A u \in Xps : u # x => c \notin Entries[u])
                            => \E p : EntryPlaces(c) = {p}
        /\ (\A x \in Xps : c \notin Entries[x]) => EntryPlaces(c) = {}
    BY <1>1, PlacesOf, Zenon
  <2>3. /\ \A x, u \in Xps : x # u => Entries[x] \intersect Entries[u] = {}
        /\ \A x \in Xps : Entries[x] \intersect (Among(queue) \union Among(hand)) = {}
        /\ Among(queue) \intersect Among(hand) = {}
        /\ Open = Among(queue) \union Among(hand) \union UNION {Entries[x] : x \in Xps}
    BY <1>1, Zenon DEF Sound, Apart, Spread
  <2>4. CASE c \in Open
    <3>1. CASE c \in Among(queue)
      <4>1. c \notin Among(hand) /\ \A x \in Xps : c \notin Entries[x]
        BY <2>3, <3>1
      <4>2. PICK p : Places(c) = {p}
        BY <2>1, <2>2, <3>1, <4>1
      <4>3. QED
        BY <2>4, <4>2, FS_Singleton DEF Open
    <3>2. CASE c \in Among(hand)
      <4>1. c \notin Among(queue) /\ \A x \in Xps : c \notin Entries[x]
        BY <2>3, <3>2
      <4>2. PICK p : Places(c) = {p}
        BY <2>1, <2>2, <3>2, <4>1
      <4>3. QED
        BY <2>4, <4>2, FS_Singleton DEF Open
    <3>3. ASSUME NEW x \in Xps, c \in Entries[x]
          PROVE  \E p : Places(c) = {p}
      <4>1. c \notin Among(queue) /\ c \notin Among(hand) /\ \A u \in Xps : u # x => c \notin Entries[u]
        BY <2>3, <3>3
      <4>2. QED
        BY <2>1, <2>2, <3>3, <4>1
    <3>4. CASE \E x \in Xps : c \in Entries[x]
      <4>1. PICK p : Places(c) = {p}
        BY <3>3, <3>4
      <4>2. QED
        BY <2>4, <4>1, FS_Singleton DEF Open
    <3>5. QED
      BY <2>3, <2>4, <3>1, <3>2, <3>4
  <2>5. CASE c \notin Open
    <3>1. c \notin Among(queue) /\ c \notin Among(hand) /\ \A x \in Xps : c \notin Entries[x]
      BY <2>3, <2>5
    <3>2. Places(c) = {}
      BY <2>1, <2>2, <3>1
    <3>3. QED
      BY <2>5, <3>2, FS_EmptySet DEF Open
  <2>6. QED
    BY <2>4, <2>5
<1>2. PollInv => SocketsConserved
  BY <1>1, Zenon DEF PollInv, SocketsConserved
<1>3. QED
  BY <1>2, PollInvariant, PTL
=============================================================================
