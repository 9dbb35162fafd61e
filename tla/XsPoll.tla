------------------------------- MODULE XsPoll -------------------------------
(***************************************************************************)
(* The poll layer of xs_socket.h: threads that each run xs_Pollthread3 on  *)
(* an xs_pollfd of their own (XsPollSlots) and share the accept queue, a   *)
(* bounded FIFO (XsFifo, which XsQueue implements).  Sockets accepted by   *)
(* the thread that holds a listener go through the queue to any thread     *)
(* with room; when none has, the thread that finds elements in the queue   *)
(* wakes a sleeping one or creates one.  The main thread pushes the        *)
(* listeners and later stops everything and joins.                         *)
(*                                                                         *)
(* Connections are only opened, closed by their peer, and closed by the    *)
(* callback that finds out; what is read and written is XsConn.  Listening *)
(* sockets do not fail.                                                    *)
(***************************************************************************)
EXTENDS XsPollSlots, Sequences, FiniteSets

CONSTANTS
  Root,        \* the xs_pollfd of the xs_async_connect
  Pool,        \* the xs_pollfds that threads can be created for (a bound)
  NClients,    \* as many clients as any scenario has (a bound)
  Listeners,   \* their sockets
  Scenarios,   \* records: the listeners in the order in which they are pushed
               \* (listen), how many clients will connect and how many of them
               \* may quit (clients, quits), pfdTotal of the root (total)
  PoolSize,    \* pfdTotal of the others
  QueueCap     \* the elements the accept queue holds (1023)

ASSUME PollAssumption ==
  /\ Root \notin Pool /\ NoSock \notin (1 .. NClients) \union Listeners
  /\ Listeners \intersect (1 .. NClients) = {}
  /\ {PoolSize, QueueCap, NClients} \subseteq Nat \ {0}
  /\ \A sc \in Scenarios :
       sc.total \in Nat \ {0} /\ sc.clients <= NClients /\ sc.listen \in Seq(Listeners) \ {<<>>}

Clients == 1 .. NClients
Xps == {Root} \union Pool

VARIABLES
  running,     \* -2 stopped, -1 dead, 0 new, 1 available, 2 asleep
  pc,          \* where each thread is
  slots,       \* the arrays of each xs_pollfd
  rret,        \* whether the last poll or the popping brought something
  ready,       \* the positions poll has reported
  i, ip,       \* the position and the kept entries of the pass
  hand,        \* the socket a thread has accepted and is pushing
  awake,       \* the threads whose condition variable has been signalled
  pool,        \* the list behind root->next, newest first
  queue,       \* the accept queue
  expandlock,
  client,      \* the state of each client
  main,        \* where the main thread is
  loyal,       \* which clients never quit (constant)
  toListen,    \* the listeners still to be pushed
  rootJoined,  \* whether the root's thread has been joined
  incidents    \* history: what went wrong on the way, see Incident

threads == <<running, pc, slots, rret, ready, i, ip, hand, awake, pool, expandlock>>
mainVars == <<main, toListen, rootJoined, loyal>>
vars == <<running, pc, slots, rret, ready, i, ip, hand, awake, pool, queue, expandlock, client,
          mainVars, incidents>>

Init ==
  /\ running = [x \in Xps |-> 0]
  /\ pc = [x \in Xps |-> IF x = Root THEN "start" ELSE "none"]
  /\ rret = [x \in Xps |-> FALSE]
  /\ ready = [x \in Xps |-> {}]
  /\ i = [x \in Xps |-> 0] /\ ip = [x \in Xps |-> 0]
  /\ hand = [x \in Xps |-> NoSock]
  /\ awake = {} /\ pool = <<>> /\ queue = <<>> /\ expandlock = 0
  /\ \E sc \in Scenarios :
       /\ slots = [x \in Xps |-> NewSlots(IF x = Root THEN sc.total ELSE PoolSize)]
       /\ toListen = sc.listen
       /\ loyal = [c \in Clients |-> c > sc.quits]
       /\ client = [c \in Clients |-> IF c <= sc.clients THEN "away" ELSE "never"]
  /\ main = "listen" /\ rootJoined = FALSE
  /\ incidents = {}

\* What the runs show can go wrong, recorded when it does:
\*   overlaid     a listener was added over a connection's entry
\*   caught       a stop ended a pass that had already moved entries
\*   overwritten  a thread began after its stop and overwrote it
\*   missed       a stop returned at once: the newest thread had ended already
\*   outrun       a thread was created behind the back of a stop (assertion)
Incident == {"overlaid", "caught", "overwritten", "missed", "outrun"}
Record(kind, happens) == incidents' = incidents \union {k \in {kind} : happens}

Size(x) == slots[x].total
Goto(x, from, to) == pc[x] = from /\ pc' = [pc EXCEPT ![x] = to]
QueueFull == Len(queue) >= QueueCap

\* What remains of the list s when only the xs_pollfds of the set S are kept.
Remaining(s, S) ==
  LET kept[n \in 0 .. Len(s)] ==
        IF n = 0 THEN <<>> ELSE IF s[n] \in S THEN Append(kept[n - 1], s[n]) ELSE kept[n - 1]
  IN  kept[Len(s)]

\* xs_pollfd_setrunning: a stop is never overwritten.
SetRunning(x, v) == running' = [running EXCEPT ![x] = IF @ >= 0 THEN v ELSE @]

\* The signal of xs_pollfd_Wake reaches a thread that waits.
Signal(X) == awake' = awake \union {x \in X : pc[x] = "wait"}

-----------------------------------------------------------------------------
(***************************************************************************)
(* xs_Pollthread3.                                                         *)
(***************************************************************************)

\* The thread begins: a plain store to running.
Start(x) ==
  /\ Goto(x, "start", "pop")
  /\ running' = [running EXCEPT ![x] = 1]
  /\ Record("overwritten", running[x] < 0)
  /\ UNCHANGED <<slots, rret, ready, i, ip, hand, awake, pool, queue, expandlock, client, mainVars>>

\* An element of the queue is popped and added, with the New callback.
Pop(x) ==
  LET s == Head(queue)
      y == slots[x]
  IN  /\ pc[x] = "pop" /\ queue # <<>> /\ y.count < Size(x)
      /\ queue' = Tail(queue)
      /\ slots' = [slots EXCEPT ![x] = Add(y, s, s \in Listeners)]
      /\ rret' = [rret EXCEPT ![x] = TRUE]
      /\ Record("overlaid", s \in Listeners /\ y.max > y.listen)
      /\ UNCHANGED <<running, pc, ready, i, ip, hand, awake, pool, expandlock, client, mainVars>>

PopEnds(x) ==
  /\ queue = <<>> \/ slots[x].count >= Size(x)
  /\ Goto(x, "pop", "expand")
  /\ UNCHANGED <<running, slots, rret, ready, i, ip, hand, awake, pool, queue, expandlock,
                 client, mainVars, incidents>>

\* xs_pollfd_Find on behalf of x.  A thread inside a callback shows running
\* = 3: busy is the set of those that happen to be.
HasRoom(y, part) == slots[y].count < Size(y) \div part
Searched == <<Root>> \o pool
Suits(y, busy) ==
  \/ running[y] = 2
  \/ running[y] = 1 /\ y \notin busy /\ (HasRoom(y, 2) \/ (y = Root /\ HasRoom(y, 1)))
FoundItself(x, busy) == <<x>>

Found(x, busy) ==
  IF 2 * slots[x].count < Size(x) THEN <<x>>
  ELSE SelectSeq(Searched, LAMBDA y : Suits(y, busy))

\* The names that are free for a new xs_pollfd.  One whose thread has ended by
\* itself is free again: its dead entry in the list only waits to be cleaned.
Unborn == {y \in Pool : pc[y] = "none" \/ (pc[y] = "done" /\ running[y] = -1)}

\* Calling xs_pollfd_Find and xs_pollfd_Wake: a new xs_pollfd and its thread ...
Create(y) ==
  /\ pool' = <<y>> \o Remaining(pool, Pool \ {y})
  /\ running' = [running EXCEPT ![y] = 1]
  /\ slots' = [slots EXCEPT ![y] = NewSlots(PoolSize)]
  /\ UNCHANGED awake

\* ... or the first that suits, which is signalled if it is asleep.
FindAndWake(x, busy) ==
  LET found == Found(x, busy)
  IN  IF (found = <<>> \/ QueueFull) /\ Unborn # {}
        THEN \E y \in Unborn :
               Create(y) /\ pc' = [pc EXCEPT ![x] = "poll", ![y] = "start"]
        ELSE /\ Signal({y \in Xps : found # <<>> /\ y = found[1] /\ running[y] = 2})
             /\ Goto(x, "expand", "poll")
             /\ UNCHANGED <<pool, running, slots>>

\* xs_pollfd_Clean called on the root: threads that have ended leave the list.
Alive == {y \in Pool : running[y] # -1}
CleanBy(x) ==
  /\ pool' = IF x = Root THEN Remaining(pool, Alive) ELSE pool
  /\ Goto(x, "expand", "poll")
  /\ UNCHANGED <<running, slots, awake>>

\* Growing or cleaning, by one thread at a time.  expandlock is taken and
\* released within the step.
Expand(x) ==
  /\ pc[x] = "expand"
  /\ IF expandlock = 0 /\ queue # <<>>
       THEN \E busy \in SUBSET {y \in Xps \ {x} : pc[y] \in {"pop", "poll", "pass"}} : FindAndWake(x, busy)
     ELSE IF expandlock = 0 /\ ~rret[x] THEN CleanBy(x)
     ELSE Goto(x, "expand", "poll") /\ UNCHANGED <<pool, running, slots, awake>>
  /\ UNCHANGED <<rret, ready, i, ip, hand, queue, expandlock, client, mainVars, incidents>>

\* poll: the positions with something to report.  Nothing after a while, too.
Backlog == {c \in Clients : client[c] = "backlog"}
Reported(y) ==
  {k \in 0 .. y.count - 1 :
     \/ y.pfd[k].fd \in Listeners /\ Backlog # {}
     \/ y.pfd[k].fd \in Clients /\ client[y.pfd[k].fd] = "quit"}

Poll(x) ==
  LET r == Reported(slots[x])
  IN  /\ Goto(x, "poll", IF r # {} /\ running[x] > 0 THEN "pass" ELSE "tail")
      /\ ready' = [ready EXCEPT ![x] = IF running[x] > 0 THEN r ELSE {}]
      /\ rret' = [rret EXCEPT ![x] = r # {}]
      /\ i' = [i EXCEPT ![x] = 0] /\ ip' = [ip EXCEPT ![x] = 0]
      /\ UNCHANGED <<running, slots, hand, awake, pool, queue, expandlock, client, mainVars, incidents>>

EndAlwaysCuts(x, y) ==
  LET moved == Move(y, i[x], ip[x])
      kept == IF y.pfd[i[x]].fd = NoSock THEN ip[x] ELSE ip[x] + 1
      ends == running[x] < 0 \/ i[x] + 1 = y.count
  IN  /\ slots' = [slots EXCEPT ![x] = IF ends THEN [moved EXCEPT !.count = kept, !.max = kept] ELSE moved]
      /\ i' = [i EXCEPT ![x] = IF ends THEN 0 ELSE @ + 1]
      /\ ip' = [ip EXCEPT ![x] = IF ends THEN 0 ELSE kept]
      /\ ready' = [ready EXCEPT ![x] = IF ends THEN {} ELSE @]
      /\ pc' = [pc EXCEPT ![x] = IF ends THEN "tail" ELSE "pass"]
      /\ Record("caught", running[x] < 0 /\ kept <= i[x])

\* The end of a turn of the pass for the arrays y; the last turn sets count.
\* The locals are reset when the pass ends, as nobody reads them any more.
EndOfTurn(x, y) ==
  LET moved == Move(y, i[x], ip[x])
      kept == IF y.pfd[i[x]].fd = NoSock THEN ip[x] ELSE ip[x] + 1
      ends == running[x] < 0 \/ i[x] + 1 = y.count
  IN  /\ slots' = [slots EXCEPT ![x] = IF ends /\ running[x] > 0
                                         THEN [moved EXCEPT !.count = kept, !.max = kept] ELSE moved]
      /\ i' = [i EXCEPT ![x] = IF ends THEN 0 ELSE @ + 1]
      /\ ip' = [ip EXCEPT ![x] = IF ends THEN 0 ELSE kept]
      /\ ready' = [ready EXCEPT ![x] = IF ends THEN {} ELSE @]
      /\ pc' = [pc EXCEPT ![x] = IF ends THEN "tail" ELSE "pass"]
      /\ Record("caught", running[x] < 0 /\ kept <= i[x])

\* A turn for an entry that closes: the peer has gone, or there is no socket.
\* xs_async_handler gives up the connection and clears the token.
Closes(y, k) ==
  \/ slots[y].pfd[k].fd = NoSock
  \/ k \in ready[y] /\ slots[y].pfd[k].fd \notin Listeners
TurnCloses(x) ==
  LET e == slots[x].pfd[i[x]]
  IN  /\ pc[x] = "pass" /\ Closes(x, i[x])
      /\ client' = [c \in Clients |-> IF c = e.cfd THEN "closed" ELSE client[c]]
      /\ EndOfTurn(x, IF e.cfd = NoSock THEN slots[x] ELSE Clear(slots[x], e.sid))
      /\ UNCHANGED <<running, rret, hand, awake, pool, queue, expandlock, mainVars>>

\* A turn for a listener with a client in its backlog: accept.
TurnAccepts(x) ==
  /\ i[x] \in ready[x] /\ slots[x].pfd[i[x]].fd \in Listeners /\ i[x] < slots[x].listen
  /\ running[x] > 0
  /\ Goto(x, "pass", "push")
  /\ \E c \in Backlog :
       /\ \A d \in Backlog : c <= d
       /\ client' = [client EXCEPT ![c] = "accepted"]
       /\ hand' = [hand EXCEPT ![x] = c]
  /\ UNCHANGED <<running, slots, rret, ready, i, ip, awake, pool, queue, expandlock, mainVars, incidents>>

PushRegardless(x) ==
  /\ pc[x] = "push"
  /\ queue' = Append(queue, hand[x])
  /\ hand' = [hand EXCEPT ![x] = NoSock]
  /\ EndOfTurn(x, slots[x])
  /\ UNCHANGED <<running, rret, awake, pool, expandlock, client, mainVars>>

\* The blocking push into the accept queue, which is the FIFO of XsQueue as long
\* as one thread at a time pushes so: two may claim a slot without room (228).
Push(x) ==
  /\ pc[x] = "push" /\ ~QueueFull
  /\ queue' = Append(queue, hand[x])
  /\ hand' = [hand EXCEPT ![x] = NoSock]
  /\ EndOfTurn(x, slots[x])
  /\ UNCHANGED <<running, rret, awake, pool, expandlock, client, mainVars>>

\* Any other turn: nothing reported, or nobody left to accept.
TurnKeeps(x) ==
  /\ pc[x] = "pass" /\ ~Closes(x, i[x])
  /\ i[x] \notin ready[x] \/ running[x] <= 0 \/ Backlog = {}
  /\ EndOfTurn(x, slots[x])
  /\ UNCHANGED <<running, rret, hand, awake, pool, queue, expandlock, client, mainVars>>

\* xs_pollfd_Processing.
Processing(x) ==
  slots[x].count > slots[x].listen \/ slots[x].listen > 0 \/ queue # <<>>

\* The loop around xs_pollfd_Sleep, and the condition of the loop around the
\* whole, which looks again: the queue may have changed between the two.
Doze(x) ==
  /\ Goto(x, "tail", IF running[x] > 0 /\ ~Processing(x) THEN "sleep" ELSE "again")
  /\ UNCHANGED <<running, slots, rret, ready, i, ip, hand, awake, pool, queue, expandlock,
                 client, mainVars, incidents>>

Again(x) ==
  LET goesOn == running[x] > 0 /\ Processing(x)
  IN  /\ Goto(x, "again", IF goesOn THEN "pop" ELSE "exit")
      /\ IF goesOn THEN UNCHANGED running ELSE SetRunning(x, -1)
      /\ UNCHANGED <<slots, rret, ready, i, ip, hand, awake, pool, queue, expandlock, client,
                     mainVars, incidents>>

\* xs_pollfd_Sleep up to the wait, with pollMutex held, and after it.
Sleep(x) ==
  /\ Goto(x, "sleep", IF running[x] = 1 THEN "wait" ELSE "tail")
  /\ running' = [running EXCEPT ![x] = IF @ = 1 THEN 2 ELSE @]
  /\ UNCHANGED <<slots, rret, ready, i, ip, hand, awake, pool, queue, expandlock, client, mainVars, incidents>>

Resume(x) ==
  /\ Goto(x, "wait", "tail")
  /\ running' = [running EXCEPT ![x] = IF @ = 2 THEN 1 ELSE @]
  /\ awake' = awake \ {x}
  /\ UNCHANGED <<slots, rret, ready, i, ip, hand, pool, queue, expandlock, client, mainVars, incidents>>

\* The thread ends: every entry's connection is given up, once: that the socket
\* is closed by the callback and again after it (616-618) is left out.
Exit(x) ==
  LET y == slots[x]
      held == {y.pfd[k].cfd : k \in 0 .. y.count - 1}
  IN  /\ Goto(x, "exit", "done")
      /\ client' = [c \in Clients |-> IF c \in held THEN "closed" ELSE client[c]]
      /\ slots' = [slots EXCEPT ![x].pfd = [k \in DOMAIN y.pfd |->
                      IF k < y.count THEN [y.pfd[k] EXCEPT !.fd = NoSock, !.cfd = NoSock] ELSE y.pfd[k]],
                    ![x].count = 0]
      /\ UNCHANGED <<running, rret, ready, i, ip, hand, awake, pool, queue, expandlock, mainVars, incidents>>

Thread(x) ==
  \/ Start(x) \/ Pop(x) \/ PopEnds(x) \/ Expand(x) \/ Poll(x)
  \/ TurnCloses(x) \/ TurnAccepts(x) \/ Push(x) \/ TurnKeeps(x)
  \/ Doze(x) \/ Again(x) \/ Sleep(x) \/ Exit(x)

-----------------------------------------------------------------------------
(***************************************************************************)
(* The main thread: xs_async_listen for every listener, xs_async_destroy.  *)
(***************************************************************************)
\* The queue (1023) is never filled by the few listeners.
PushListener ==
  /\ main = "listen" /\ Len(queue) + 1 < QueueCap
  /\ queue' = Append(queue, Head(toListen))
  /\ toListen' = Tail(toListen)
  /\ main' = IF Len(toListen) = 1 THEN "run" ELSE "listen"
  /\ Signal({Root} \intersect {x \in Xps : running[x] = 2 \/ running[x] < 0})
  /\ UNCHANGED <<running, pc, slots, rret, ready, i, ip, hand, pool, expandlock, client, rootJoined,
                 loyal, incidents>>

\* xs_pollfd_stop(root), called by xs_async_destroy and again, when the root's
\* thread has been joined, by xs_pollfd_destroy.  With threads in the pool all of
\* them are stopped first; without, the root alone, at once.  If the newest has
\* ended, or been stopped, it is taken for a second stop.  The walk that marks
\* them is one step: with several in the pool, xs_pollfd_Clean may cut the list
\* (893) under it, and one that ends between 329 and 330 makes it spin for ever.
Members == {pool[k] : k \in DOMAIN pool}

StopThreads ==
  /\ main \in {"run", "again"}
  /\ IF pool = <<>>
       THEN /\ running' = [running EXCEPT ![Root] = -2]
            /\ Signal({Root})
            /\ main' = "join"
            /\ UNCHANGED incidents
     ELSE IF running[Head(pool)] < 0
       THEN /\ main' = "join"
            /\ Record("missed", ~rootJoined \/ \E x \in Members : running[x] >= 0)
            /\ UNCHANGED <<running, awake>>
     ELSE /\ running' = [x \in Xps |-> IF x \in Members /\ running[x] >= 0 THEN -2 ELSE running[x]]
          /\ main' = "kick"
          /\ UNCHANGED <<awake, incidents>>
  /\ UNCHANGED <<pc, slots, rret, ready, i, ip, hand, pool, queue, expandlock, client, toListen, rootJoined, loyal>>

KickSilently ==
  /\ main = "kick"
  /\ Record("outrun", \E x \in Members : running[x] >= 0)
  /\ main' = "root"
  /\ UNCHANGED <<running, pc, slots, rret, ready, i, ip, hand, awake, pool, queue, expandlock, client,
                 toListen, rootJoined, loyal>>

KickThreads ==
  /\ main = "kick"
  /\ Signal({x \in Members : running[x] < 0})
  /\ Record("outrun", \E x \in Members : running[x] >= 0)
  /\ main' = "root"
  /\ UNCHANGED <<running, pc, slots, rret, ready, i, ip, hand, pool, queue, expandlock, client, toListen,
                 rootJoined, loyal>>

\* Where the root has ended by itself xs_pollfd_Clean goes on from its prev,
\* which is null: the model ends there.
StopRoot ==
  /\ main = "root" /\ running[Root] # -1
  /\ expandlock' = 2
  /\ pool' = Remaining(pool, Alive)
  /\ running' = [running EXCEPT ![Root] = -2]
  /\ Signal({Root})
  /\ main' = "join"
  /\ UNCHANGED <<pc, slots, rret, ready, i, ip, hand, queue, client, toListen, rootJoined, loyal, incidents>>

\* pthread_join of the root's thread, the second stop, and the other threads.
JoinRoot ==
  /\ main = "join" /\ ~rootJoined /\ pc[Root] = "done"
  /\ rootJoined' = TRUE /\ main' = "again"
  /\ UNCHANGED <<threads, queue, client, toListen, loyal, incidents>>

JoinOthers ==
  /\ main = "join" /\ rootJoined
  /\ \A x \in Members : pc[x] = "done"
  /\ main' = "joined"
  /\ UNCHANGED <<threads, queue, client, toListen, rootJoined, loyal, incidents>>

\* Clients come and go as they like, and are numbered as they come.
Connect(c) ==
  /\ client[c] = "away" /\ \A d \in 1 .. c - 1 : client[d] # "away"
  /\ client' = [client EXCEPT ![c] = "backlog"]
  /\ UNCHANGED <<threads, queue, mainVars, incidents>>

Quit(c) ==
  /\ client[c] = "accepted" /\ ~loyal[c]
  /\ client' = [client EXCEPT ![c] = "quit"]
  /\ UNCHANGED <<threads, queue, mainVars, incidents>>

Next ==
  \/ \E x \in Xps : Thread(x) \/ Resume(x)
  \/ PushListener \/ StopThreads \/ KickThreads \/ StopRoot \/ JoinRoot \/ JoinOthers
  \/ \E c \in Clients : Connect(c) \/ Quit(c)

\* Threads run, a signal wakes, and main goes on.  Nobody has to connect, quit
\* or stop, and a wake-up without a signal (Resume when not awake) may happen.
Fairness ==
  /\ \A x \in Xps : WF_vars(Thread(x)) /\ WF_vars(x \in awake /\ Resume(x))
  /\ WF_vars(PushListener \/ KickThreads \/ StopRoot \/ JoinRoot \/ JoinOthers)
  /\ WF_vars(rootJoined /\ StopThreads)

Spec == Init /\ [][Next]_vars /\ Fairness

-----------------------------------------------------------------------------
TypeOK ==
  /\ running \in [Xps -> -2 .. 2]
  /\ pc \in [Xps -> {"none", "start", "pop", "expand", "poll", "pass", "push", "tail", "again",
                     "sleep", "wait", "exit", "done"}]
  /\ \A x \in Xps :
       /\ slots[x].max \in 0 .. Size(x) /\ slots[x].count \in 0 .. slots[x].max
       /\ slots[x].listen \in 0 .. Size(x) /\ slots[x].free \in -1 .. Size(x) - 1
       /\ slots[x].sidmap \in [0 .. Size(x) - 1 -> -1 .. Size(x) - 1]
       /\ slots[x].pfd \in [0 .. Size(x) - 1 ->
            [fd : Clients \union Listeners \union {NoSock},
             cfd : Clients \union Listeners \union {NoSock}, sid : 0 .. Size(x) - 1]]
  /\ hand \in [Xps -> Clients \union {NoSock}]
  /\ awake \subseteq Xps /\ Members \subseteq Pool
  /\ queue \in Seq(Clients \union Listeners) /\ Len(queue) <= QueueCap
  /\ expandlock \in {0, 2}
  /\ client \in [Clients -> {"never", "away", "backlog", "accepted", "quit", "closed"}]
  /\ main \in {"listen", "run", "again", "kick", "root", "join", "joined"}
  /\ incidents \subseteq Incident

Ordinary == incidents \intersect {"overlaid", "caught"} = {}
InPass(x) == pc[x] \in {"pass", "push"}
Positions(x) == IF InPass(x) THEN Live(slots[x], i[x], ip[x]) ELSE 0 .. slots[x].count - 1

(***************************************************************************)
(* A token leads to the entry of the connection that keeps it, at every    *)
(* point of a pass that moves entries and frees tokens (xs_Pollthread3 525 *)
(* to 605), as long as no listener has been added over a connection and no *)
(* stop has cut a pass short.  Through it xptok_ind finds the entry whose  *)
(* events or socket a callback means to change.                            *)
(***************************************************************************)
TokensLead ==
  Ordinary => \A x \in Xps : pc[x] \notin {"none", "done"} =>
                IF InPass(x) THEN TokensConsistent(slots[x], i[x], ip[x])
                             ELSE TokensConsistent(slots[x], 0, 0)

(***************************************************************************)
(* An accepted socket is in exactly one place until it is closed, and then *)
(* nowhere: in the hand that accepted it, in the accept queue, or in one   *)
(* entry of one thread (accept at 555, xs_queue_push at 570, xs_queue_pop  *)
(* at 479, compaction at 592).  Two places would close it twice, no place  *)
(* would leak it.  With the two exceptions of TokensLead.                  *)
(***************************************************************************)
Places(c) ==
  {<<"queue", k>> : k \in {l \in DOMAIN queue : queue[l] = c}}
  \union {<<"hand", x>> : x \in {y \in Xps : hand[y] = c}}
  \union UNION {{<<"entry", x, k>> : k \in {l \in Positions(x) : slots[x].pfd[l].cfd = c}} : x \in Xps}

SocketsConserved ==
  Ordinary => \A c \in Clients :
    Cardinality(Places(c)) = IF client[c] \in {"accepted", "quit"} THEN 1 ELSE 0

(***************************************************************************)
(* Unless the program stops, whoever connects gets an entry in the arrays  *)
(* of some thread: no connection waits for ever in the accept queue, in    *)
(* the hand of a thread that cannot push, or in the backlog of a listener  *)
(* nobody polls.  The search, the creation and the wake-up of threads at   *)
(* lines 485 to 501 bring it about.  The exception is the root asleep with *)
(* the listeners in the queue: it was about to sleep when they were pushed *)
(* and xs_pollfd_Wake, which looks at running outside the mutex, sent it   *)
(* no signal.                                                              *)
(***************************************************************************)
InSlot(c) == \E x \in Xps : \E k \in Positions(x) : slots[x].pfd[k].fd = c
Unwoken == pc[Root] = "wait" /\ Root \notin awake /\ queue # <<>>

EveryClientServed ==
  \A c \in Clients :
    client[c] = "backlog" ~>
      InSlot(c) \/ client[c] = "closed" \/ main \notin {"listen", "run"} \/ incidents # {} \/ Unwoken

(***************************************************************************)
(* xs_async_destroy returns: every thread sees the stop, closes what it    *)
(* has and ends, and is joined.  It does not if the stop was missed,       *)
(* overwritten or outrun (see Incident), or if a thread waits to push into *)
(* a full accept queue and no thread is left to empty it (line 570).       *)
(***************************************************************************)
Blocked ==
  /\ QueueFull
  /\ \E x \in Xps : pc[x] = "push"
  /\ \A x \in Xps : pc[x] \in {"none", "push", "done"}

StopCompletes ==
  main \in {"kick", "root", "join", "again"} ~>
    \/ main = "joined"
    \/ incidents \intersect {"missed", "overwritten", "outrun"} # {}
    \/ Blocked
=============================================================================
