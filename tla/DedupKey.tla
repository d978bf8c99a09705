------------------------------ MODULE DedupKey ------------------------------
(***************************************************************************)
(* Text, and the key that a submission is deduplicated by.                 *)
(*                                                                         *)
(* A text is a sequence of characters, of which only their kind counts;    *)
(* the name of a job board is one character.  The em space stands for what *)
(* Unicode knows besides, NEL for what a browser does not know of that.    *)
(***************************************************************************)
EXTENDS SequencesExt

Ascii == {"space", "tab"}           \* what collapseWhitespace knows, with \n and \r
White == Ascii \cup {"nbsp", "emsp", "nel"}    \* what unicode.IsSpace knows
JsWhite == Ascii \cup {"nbsp", "emsp", "bom"}  \* what \s and trim know in a browser
ZeroWidth == {"zwsp", "bom"}

LowerOf == [A |-> "a", LinkedIn |-> "linkedin"]
ToLower(s) == [i \in DOMAIN s |-> IF s[i] \in DOMAIN LowerOf THEN LowerOf[s[i]] ELSE s[i]]

TrimSpace(s) ==
    LET solid == {i \in DOMAIN s : s[i] \notin White}
    IN  IF solid = {} THEN <<>> ELSE SubSeq(s, Min(solid), Max(solid))

normalize(s) == ToLower(TrimSpace(s))

\* A mistake: the parts are not separated.
Concatenated(company, title) == company \o title

\* What is hashed; the hash is taken to be injective.
Payload(company, title) == company \o <<"|">> \o title

Key(userID, company, jobTitle) ==
    <<userID, Payload(normalize(company), normalize(jobTitle))>>
=============================================================================
