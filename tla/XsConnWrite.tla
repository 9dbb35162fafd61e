---------------------------- MODULE XsConnWrite -----------------------------
(***************************************************************************)
(* The write side of an xs_conn: xs_conn_write_, xs_conn_cachefill and     *)
(* xs_conn_cachepurge, as operators from the state of the write side to    *)
(* the set of its outcomes.  How much the socket takes of a send, and      *)
(* whether it reports itself writable, is up to the peer: the outcomes     *)
(* range over every answer.  Corking only delays segments inside the       *)
(* kernel and is left out.                                                 *)
(*                                                                         *)
(* The state is a record                                                   *)
(*   wire     what send has taken, in order                                *)
(*   cache    wcache                                                       *)
(*   blocked  is_wblocked                                                  *)
(*   err      errnum: "ok", "busy" (exs_Error_WriteBusy), "full" (-108) or *)
(*            "io" (an errno)                                              *)
(*   ret      what the call returns                                        *)
(*   intact   history: the cache has not refused anything so far           *)
(***************************************************************************)
EXTENDS Integers, Sequences

CONSTANT MaxCache   \* maxcache: how much wcache may hold

ASSUME MaxCacheAssumption == MaxCache \in Nat

Before(s, n) == SubSeq(s, 1, IF n < Len(s) THEN n ELSE Len(s))
After(s, n) == SubSeq(s, n + 1, Len(s))

NewWriter == [wire |-> <<>>, cache |-> <<>>, blocked |-> FALSE, err |-> "ok", ret |-> 0,
              intact |-> TRUE]

\* The type of the state, for data made of a set of units.
Writers(units) ==
  {w \in [wire : Seq(units), cache : Seq(units), blocked : BOOLEAN, ret : Nat, intact : BOOLEAN,
          err : {"ok", "busy", "full", "io"}] : Len(w.cache) <= MaxCache}

\* send(): a prefix of the data is taken, nothing at all from a peer that is gone.
SendTakes(data, gone) == IF gone THEN {0} ELSE 0 .. Len(data)

\* errnum after a send that took n of len: an error of the socket, or it is
\* just full; a complete send leaves errnum alone.
SendError(old, n, len, gone) == IF n = len THEN old ELSE IF gone THEN "io" ELSE "busy"

FitsAlone(w, data) == Len(data) <= MaxCache

\* Whether the cache has room, and cachefill's addition to it.
Fits(w, data) == Len(w.cache) + Len(data) <= MaxCache
CacheAdd(w, data) == [w EXCEPT !.cache = @ \o data, !.ret = Len(data),
                               !.err = IF @ = "ok" THEN "busy" ELSE @]

\* The sending loop of xs_conn_write_ for data that is not the cache itself.
SendOutcomes(w, data, gone) ==
  {LET sent == [w EXCEPT !.wire = @ \o Before(data, n), !.ret = n,
                         !.err = SendError(@, n, Len(data), gone)]
       rest == After(data, n)
   IN  IF n = Len(data) THEN sent
       ELSE IF Fits(w, rest) THEN [sent EXCEPT !.cache = @ \o rest, !.ret = Len(data)]
       ELSE [sent EXCEPT !.intact = FALSE] :
   n \in SendTakes(data, gone)}

\* xs_conn_cachepurge: one send of the whole cache.
PurgeOutcomes(w, gone) ==
  IF w.cache = <<>> THEN {w}
  ELSE {[w EXCEPT !.wire = @ \o Before(w.cache, n),
                  !.cache = After(@, n),
                  !.blocked = @ /\ n < Len(w.cache),
                  !.err = SendError("ok", n, Len(w.cache), gone)] : n \in SendTakes(w.cache, gone)}

\* cachefill with force = 0 decides to keep the data; at the limit it does
\* not, and xs_conn_write_ sends the data although the cache is not empty.
KeepOutcomes(w, data, gone) ==
  IF Fits(w, data) THEN {CacheAdd(w, data)}
  ELSE SendOutcomes([w EXCEPT !.intact = FALSE, !.err = "full"], data, gone)

WriteAroundCache(old, data, gone) == SendOutcomes([old EXCEPT !.err = "ok", !.ret = 0], data, gone)

\* xs_conn_write_.
WriteOutcomes(old, data, gone) ==
  LET w == [old EXCEPT !.err = "ok", !.ret = 0]
      purged == PurgeOutcomes(w, gone)
  IN  IF w.cache = <<>> /\ ~w.blocked THEN SendOutcomes(w, data, gone)
      ELSE IF w.blocked /\ Fits(w, data) THEN {CacheAdd(w, data)}
      ELSE UNION (  {KeepOutcomes(w, data, gone)}                       \* not writable
                  \union {KeepOutcomes(p, data, gone) : p \in {q \in purged : q.cache # <<>>}}
                  \union {SendOutcomes(p, data, gone) : p \in {q \in purged : q.cache = <<>>}})
=============================================================================
