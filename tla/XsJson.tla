------------------------------- MODULE XsJson -------------------------------
(***************************************************************************)
(* The JSON reader of xs_json.h, which hands out one tag at a time: one    *)
(* action is one call of xs_json_next.  webxs.c reads the list of          *)
(* redirections with it (load_redirfile).                                  *)
(*                                                                         *)
(* A text is a sequence of characters without spaces and escapes: the      *)
(* marks { } [ ] , : ", the character "x" for any other, and "t" for one   *)
(* of the words true, false and null.  It ends with the terminating 0,     *)
(* which the reader relies on.                                             *)
(***************************************************************************)
EXTENDS Integers, Sequences

CONSTANTS
  Texts        \* records: the text, whether permissive, and the tags that a
               \* document must give (or <<"any">>, where it is no document)

VARIABLES
  input,       \* what is read
  mptr,        \* the position of the next character
  mstate,      \* -1, 0, or what the last tag left to be read
  mstack,      \* the containers that are open, above the -1 at the bottom
  tags,        \* the types of the tags handed out
  ret          \* what the last call returned: "ok", "eof", "incomplete", "syntax"

vars == <<input, mptr, mstate, mstack, tags, ret>>

\* xs_json_create.
Init ==
  /\ input \in Texts
  /\ mptr = 1 /\ mstate = "none" /\ mstack = <<"bottom">>
  /\ tags = <<>> /\ ret = "ok"

End == Len(input.text) + 1
At(p) == IF p < End THEN input.text[p] ELSE "0"
Last(s) == s[Len(s)]
Front(s) == SubSeq(s, 1, Len(s) - 1)
After(p, mark) == IF At(p) = mark THEN p + 1 ELSE p

\* The first position from p on with a character of M, or the end.
First(p, M) == CHOOSE q \in p .. End : (q = End \/ At(q) \in M) /\ \A r \in p .. q - 1 : At(r) \notin M

\* xs_JSONReadString for quotes: the position after the string, or 0.  What
\* does not begin with a quote goes up to a colon or comma, or past a quote.
ReadString(p) ==
  IF At(p) = "\""
    THEN LET q == First(p + 1, {"\""}) IN IF q = End THEN 0 ELSE q + 1
    ELSE After(First(p, {"\"", ":", ","}), "\"")

NoTag == "none"
Result(r, tag, p, state, stack) == [ret |-> r, tag |-> tag, mptr |-> p, mstate |-> state, mstack |-> stack]
Fails(r) == Result(r, NoTag, mptr, mstate, mstack)
Syntax == Fails("syntax")
Ok(tag, p, state, stack) == Result("ok", tag, p, state, stack)
NothingLeft == Fails(IF Len(mstack) = 1 THEN "eof" ELSE "incomplete")

\* A key: a string, or if permissive anything, and the colon behind it.
Key(n) ==
  IF (At(mptr) = "\"" \/ input.permissive) /\ At(n) = ":"
    THEN Ok("key", n + 1, "value", mstack) ELSE Syntax

Opens(kind) == Ok(kind, mptr + 1, kind, Append(mstack, kind))

ClosesAnything(kind, tag) ==
  Ok(tag, After(mptr + 1, ","), IF Len(mstack) > 1 THEN mstack[Len(mstack) - 1] ELSE "bottom",
     IF Len(mstack) > 1 THEN Front(mstack) ELSE mstack)

\* The end of a container of the kind, and a comma behind it.
Closes(kind, tag) ==
  IF Last(mstack) = kind
    THEN Ok(tag, After(mptr + 1, ","), Last(Front(mstack)), Front(mstack)) ELSE Syntax

\* A mutant: the state is not taken from the stack again.
ValueLosesState(n) ==
  LET p == IF At(mptr) = "t" THEN mptr + 1 ELSE n
  IN  IF mstate \in {"[", "value"} /\ At(p) \in {",", "]", "}"}
        THEN Ok("value", After(p, ","), mstate, mstack)
      ELSE Syntax

\* A value, a string or a bare word, and a comma behind it.  The characters
\* of a number go up to the next colon or comma: closing brackets, too.
Value(n) ==
  LET p == IF At(mptr) = "t" THEN mptr + 1 ELSE n
  IN  IF mstate \in {"[", "value"} /\ At(p) \in {",", "]", "}"}
        THEN Ok("value", After(p, ","), Last(mstack), mstack)
      ELSE Syntax

EndOfText(n) == mptr >= End \/ n <= mptr

\* xs_json_next.
JsonNext ==
  LET n == ReadString(mptr)
      implicit == mstate = "none" /\ input.permissive /\ At(mptr) \notin {"{", "["}
      state == IF implicit THEN "{" ELSE mstate
  IN  IF EndOfText(n) THEN NothingLeft
      ELSE IF mstate = "bottom" THEN Syntax
      ELSE IF state = "{" /\ At(mptr) # "}" THEN Key(n)
      ELSE CASE At(mptr) \in {"{", "["} -> Opens(At(mptr))
             [] At(mptr) = "}" -> Closes("{", "}")
             [] At(mptr) = "]" -> Closes("[", "]")
             [] OTHER -> Value(n)

\* The loop of load_redirfile.
Read ==
  /\ ret = "ok"
  /\ LET next == JsonNext
     IN  /\ ret' = next.ret
         /\ mptr' = next.mptr /\ mstate' = next.mstate /\ mstack' = next.mstack
         /\ tags' = IF next.ret = "ok" THEN Append(tags, next.tag) ELSE tags
  /\ UNCHANGED input

Next == Read

Spec == Init /\ [][Next]_vars /\ WF_vars(Next)

-----------------------------------------------------------------------------
\* The containers open after one more tag, and after the first n tags, by the
\* tags alone.
OpenAfter(open, tag) ==
  CASE tag \in {"{", "["} -> Append(open, tag)
    [] tag \in {"}", "]"} ->
         IF open # <<>> /\ <<Last(open), tag>> \in {<<"{", "}">>, <<"[", "]">>}
           THEN Front(open) ELSE Append(open, "unmatched")
    [] OTHER -> open

Open[n \in 0 .. Len(tags)] == IF n = 0 THEN <<>> ELSE OpenAfter(Open[n - 1], tags[n])

InObject(n) == Open[n - 1] # <<>> /\ Last(Open[n - 1]) = "{"

(***************************************************************************)
(* Whatever the text, the tags that are handed out nest: an end closes the *)
(* container opened last, a key stands in an object (or, permissive, in    *)
(* the object that is implied), a value in an object has its key before    *)
(* it, and EndOfFile is reported only when everything is closed            *)
(* (xs_json_next, the uses of mstack and mstate).                          *)
(***************************************************************************)
TagsNested ==
  /\ \A n \in DOMAIN tags :
       /\ Open[n] = <<>> \/ Last(Open[n]) # "unmatched"
       /\ tags[n] = "key" => InObject(n) \/ (n = 1 /\ input.permissive)
       /\ InObject(n) /\ tags[n] \in {"value", "{", "["} => tags[n - 1] = "key"
  /\ ret = "eof" => Open[Len(tags)] = <<>>

(***************************************************************************)
(* A document is read to its end and its tags are those of its contents    *)
(* (the loop of load_redirfile ends with EndOfFile and no error).          *)
(***************************************************************************)
DocumentsRead ==
  ret # "ok" /\ input.tags # <<"any">> => ret = "eof" /\ tags = input.tags
=============================================================================
