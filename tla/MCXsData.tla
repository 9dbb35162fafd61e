------------------------------ MODULE MCXsData ------------------------------
(***************************************************************************)
(* Inputs for XsSort and XsJson, of which a behaviour runs one: every      *)
(* array over few keys; every text of up to MaxText characters, and        *)
(* documents with containers in containers, each strict and permissive.    *)
(* A number is never the last thing in a container: the reader takes the   *)
(* closing bracket for a part of it.                                       *)
(***************************************************************************)
EXTENDS XsData, FiniteSets

CONSTANT MaxText

\* The stack of the run is one that the theorem StackAlwaysSuffices is about.
ASSUME InstanceHasEnoughStack == EnoughStack

Chars == {"{", "}", "[", "]", ",", ":", "\"", "x", "t"}

Part(text, ts) == [text |-> text, tags |-> ts]
Scalars == {Part(<<"t">>, <<"value">>), Part(<<"\"", "x", "\"">>, <<"value">>), Part(<<"\"", "\"">>, <<"value">>)}
Number == Part(<<"x">>, <<"value">>)
Name == Part(<<"\"", "x", "\"", ":">>, <<"key">>)
Cat(d, e) == Part(d.text \o e.text, d.tags \o e.tags)
Comma == Part(<<",">>, <<>>)

\* Containers of up to two parts, each behind its key if name is not empty.
Containers(open, close, name, D) ==
  {Cat(Part(<<open>>, <<open>>), Cat(c, Part(<<close>>, <<close>>))) : c \in
     {Part(<<>>, <<>>)} \union {Cat(name, d) : d \in D}
     \union {Cat(Cat(name, d), Cat(Comma, Cat(name, e))) : d \in D \union {Number}, e \in D}}
Both(D) == Containers("[", "]", Part(<<>>, <<>>), D) \union Containers("{", "}", Name, D)

Documents == Both(Scalars \union Both(Scalars))
Anything == [text : UNION {[1 .. n -> Chars] : n \in 0 .. MaxText}, tags : {<<"any">>}]

MCTexts == {[text |-> d.text, tags |-> d.tags, permissive |-> p] :
              d \in Documents \union Anything, p \in BOOLEAN}
=============================================================================
