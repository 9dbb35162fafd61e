---------------------------- MODULE XsPollSlots -----------------------------
(***************************************************************************)
(* The arrays of one xs_pollfd: pfd and pss, indexed by position, and      *)
(* sidmap, which leads from a token (sid) to the position of its entry.    *)
(* Entries move when the pass over the events closes gaps; the tokens,     *)
(* which the connections keep, stay.  Tokens that are free form a list     *)
(* through sidmap that begins at freesid.                                  *)
(*                                                                         *)
(* The state is a record [total, listen, count, max, free, sidmap, pfd]    *)
(* with total = pfdTotal, listen = listenCount, count = pfdCount, max =    *)
(* pfdMax, free = freesid, and pfd[i] = [fd, cfd, sid], where fd is        *)
(* pfd[i].fd and cfd and sid are those of pss[i].  NoSock stands for 0.    *)
(***************************************************************************)
EXTENDS Integers

CONSTANT NoSock

Unused == [fd |-> NoSock, cfd |-> NoSock, sid |-> 0]

\* xs_pollfd_Init for total entries.
NewSlots(total) ==
  [total |-> total, listen |-> 0, count |-> 0, max |-> 0, free |-> -1,
   sidmap |-> [i \in 0 .. total - 1 |-> 0], pfd |-> [i \in 0 .. total - 1 |-> Unused]]

\* xptok_ind: the position of a token's entry, or -1.
TokenIndex(x, sid) == IF x.sidmap[sid] \in 0 .. x.count - 1 THEN x.sidmap[sid] ELSE -1

\* xs_pollfd_clear.
Clear(x, sid) ==
  IF TokenIndex(x, sid) < 0 THEN x
  ELSE [x EXCEPT !.pfd[TokenIndex(x, sid)] = [@ EXCEPT !.fd = NoSock, !.cfd = NoSock]]

AddWithoutPop(x, s, listener) ==
  LET i == IF listener THEN x.listen ELSE x.max
      sid == IF x.free < 0 THEN i ELSE x.free
  IN  [x EXCEPT !.listen = IF listener THEN @ + 1 ELSE @,
                !.count = @ + 1, !.max = @ + 1,
                !.sidmap[sid] = i, !.pfd[i] = [fd |-> s, cfd |-> s, sid |-> sid]]

\* xs_pollfd_internaladd and the New callback, which sets cfd.  A listener
\* goes behind the other listeners, over the entry that is there.
Add(x, s, listener) ==
  LET i == IF listener THEN x.listen ELSE x.max
      sid == IF x.free < 0 THEN i ELSE x.free
  IN  [x EXCEPT !.listen = IF listener THEN @ + 1 ELSE @,
                !.count = @ + 1, !.max = @ + 1,
                !.free = IF @ < 0 THEN @ ELSE x.sidmap[@],
                !.sidmap[sid] = i, !.pfd[i] = [fd |-> s, cfd |-> s, sid |-> sid]]

\* The end of a turn of the pass: entry i moves to ip, or its token is freed.
Move(x, i, ip) ==
  LET e == x.pfd[i]
      gone == e.fd = NoSock
  IN  [x EXCEPT !.pfd[ip] = e,
                !.sidmap[e.sid] = IF gone THEN x.free ELSE ip,
                !.free = IF gone THEN e.sid ELSE @]

\* The positions that hold entries while the pass is at i and has kept ip.
Live(x, i, ip) == 0 .. ip - 1 \union i .. x.count - 1

\* The tokens on the free list: what every set has in which one can follow it.
Follows(x, S) ==
  x.free \in S \union {-1} /\ \A sid \in S : x.sidmap[sid] \in S \union {-1}
FreeTokens(x) ==
  {sid \in DOMAIN x.sidmap : \A S \in SUBSET DOMAIN x.sidmap : Follows(x, S) => sid \in S}

\* Every entry has a token of its own that leads to it, and no token in use is
\* on the free list.
TokensConsistent(x, i, ip) ==
  /\ \A k \in Live(x, i, ip) : x.sidmap[x.pfd[k].sid] = k
  /\ \A k, l \in Live(x, i, ip) : x.pfd[k].sid = x.pfd[l].sid => k = l
  /\ {x.pfd[k].sid : k \in Live(x, i, ip)} \intersect FreeTokens(x) = {}
=============================================================================
