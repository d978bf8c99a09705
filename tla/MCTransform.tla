---------------------------- MODULE MCTransform -----------------------------
(***************************************************************************)
(* Instances of the transformers for TLC.                                  *)
(***************************************************************************)
EXTENDS TransformProperties

Param(k, n) == [key |-> k, parses |-> TRUE, value |-> n]
Broken == [key |-> "id", parses |-> FALSE, value |-> 9]     \* id=1;v=2
Address(form, query) == [form |-> form, padded |-> FALSE, query |-> query]

Posting(title, company, url) == [title |-> title, company |-> company, url |-> url]

\* Two values of one parameter.
Usual == Address("http", <<Param("id", 2), Param("id", 1)>>)

\* One word, two words, a board's name within a title, a separator in a title,
\* and nothing; companies that begin alike, one with a separator.
Texts ==
    {Posting(t, <<"a">>, Usual) :
        t \in {<<"b", "a">>, <<"a", "space", "b">>, <<"b", "|", "a">>, <<>>,
               <<"a", "space", "|", "space", "LinkedIn", "b">>}}
    \cup {Posting(<<"a">>, c, Usual) : c \in {<<"a", "b">>, <<"a", "|", "b">>, <<>>}}

\* Addresses with two parameters that are shared already and one that does
\* not parse, and those that are refused.
Links == {Posting(<<"b">>, <<"a">>, u) : u \in {
    Address("http", <<Param("ref", 1), Broken, Param("id", 1)>>),
    Address("other", <<>>), Address("malformed", <<Param("ref", 1)>>), Address("blank", <<>>)}}

MCPostings == Texts \cup Links \cup {Posting(<<>>, <<>>, Address("blank", <<>>))}

MCUserID == <<"b">>
MCSpellings == {<<"space", "b">>}
=============================================================================
