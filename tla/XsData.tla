------------------------------- MODULE XsData -------------------------------
(***************************************************************************)
(* The sort of xs_arr.h and the reader of xs_json.h, which have nothing in *)
(* common: a behaviour sorts one array or reads one text.                  *)
(***************************************************************************)
EXTENDS XsSort

CONSTANT Texts

VARIABLES input, mptr, mstate, mstack, tags, ret

J == INSTANCE XsJson

Nothing == [text |-> <<>>, tags |-> <<"any">>, permissive |-> FALSE]

DataInit ==
  \/ Init /\ input = Nothing /\ mptr = 1 /\ mstate = "none" /\ mstack = <<"bottom">> /\ tags = <<>> /\ ret = "eof"
  \/ /\ J!Init
     /\ key = [p \in Pos |-> 1] /\ base = [p \in Pos |-> p] /\ stack = <<>>
     /\ start = 0 /\ limit = Count /\ i = 0 /\ j = 0 /\ pc = "done"

DataNext ==
  \/ Next /\ UNCHANGED <<input, mptr, mstate, mstack, tags, ret>>
  \/ J!Next /\ UNCHANGED vars

DataSpec == DataInit /\ [][DataNext]_<<vars, J!vars>> /\ WF_<<vars, J!vars>>(DataNext)

\* Whatever the text, the tags that xs_json_next hands out nest.
TagsNested == J!TagsNested

\* A document is read to its end, and its tags are those of its contents (the
\* loop of load_redirfile).
DocumentsRead == J!DocumentsRead

(***************************************************************************)
(* The sort and the reading come to an end: each pass of the partition     *)
(* moves both scans, and each call of xs_json_next that returns 0 has      *)
(* moved on in the text.                                                   *)
(***************************************************************************)
CallsEnd == <>(pc \in {"done", "overflow"} /\ ret # "ok")
=============================================================================
