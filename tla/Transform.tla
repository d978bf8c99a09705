----------------------------- MODULE Transform ------------------------------
(***************************************************************************)
(* The transformers, from what a source sends to the canonical event, and  *)
(* its validation.                                                         *)
(*                                                                         *)
(* A posting has a title, a company and an address.  The page a source     *)
(* finds it on shows them with noise: white space of all kinds, the site's *)
(* name behind the title, tracking parameters in the address.              *)
(***************************************************************************)
EXTENDS DedupKey

CONSTANTS
    Characters, \* what texts are made of
    Postings,   \* records of title, company and url
    Noise,      \* the characters a page adds to a text
    MaxNoise,   \* bound: how much a page adds, but for the site's name
    UserID,     \* who submits
    Spellings   \* the texts a client may send for that, with space around

ASSUME TransformAssumption ==
    /\ MaxNoise \in Nat /\ Noise \subseteq White \cup ZeroWidth
    /\ White \cup ZeroWidth \cup {"a", "A", "|", "-", "linkedin", "LinkedIn"} \subseteq Characters
    /\ \A id \in Spellings : TrimSpace(id) = UserID

Sources == {"dashboard", "chrome", "scraper", "unspecified"}
NoEvent == [source |-> "none"]

VARIABLES
    posting,    \* as its author wrote it
    page,       \* as the source finds it
    noise,      \* how much has been added
    tagged,     \* the site's name has been
    parsed,     \* history: the extension has read the page
    event,      \* the canonical event
    verdict     \* what For or Validate says

transformVars == <<posting, page, noise, tagged, parsed, event, verdict>>

-----------------------------------------------------------------------------
(* Texts.                                                                  *)

\* A mistake: the characters without width stay.
NbspOnly(s) == [i \in DOMAIN s |-> IF s[i] = "nbsp" THEN "space" ELSE s[i]]

invisibleReplacer(s) ==
    FoldLeft(LAMBDA out, c : IF c \in ZeroWidth THEN out
                             ELSE Append(out, IF c = "nbsp" THEN "space" ELSE c), <<>>, s)

\* Runs of the given spaces become one space, at the start nothing: a space is
\* written only behind something that is none.
Squeeze(s, spaces) ==
    FoldLeft(LAMBDA out, c :
                 IF c \notin spaces THEN Append(out, c)
                 ELSE IF out = <<>> \/ Last(out) = "space" THEN out ELSE Append(out, "space"),
             <<>>, s)

TrimRight(s) == IF s # <<>> /\ Last(s) = "space" THEN Front(s) ELSE s

Collapse(s, spaces) == TrimRight(Squeeze(s, spaces))

\* A mistake: the invisible characters are replaced last.
CollapseFirst(s) == invisibleReplacer(Collapse(s, Ascii))

collapseWhitespace(s) == Collapse(invisibleReplacer(s), Ascii)

\* What the extension's parser makes of an element of the page.
textOf(s) == Collapse(s, JsWhite)

boardSuffixes == {<<"space", bar, "space", "linkedin">> : bar \in {"|", "-"}}

\* At most one is removed, and only from the end.
stripBoardSuffix(s) ==
    IF \E suffix \in boardSuffixes : IsSuffix(suffix, ToLower(s))
    THEN TrimSpace(SubSeq(s, 1, Len(s) - 4))
    ELSE s

-----------------------------------------------------------------------------
(* Addresses.  An address is "http", "other" (no http scheme, or no host), *)
(* "malformed" or "blank", has parameters, of which some do not parse, and *)
(* may be padded: have a space before it.                                  *)

TrimURL(url) == [url EXCEPT !.padded = FALSE]

trackingParams == {"utm_source", "ref"}
Keys == <<"id", "ref", "utm_source">>   \* in the order Encode sorts them

Tracked(url) == \E i \in DOMAIN url.query :
                    url.query[i].parses /\ url.query[i].key \in trackingParams

\* Query: what parses, the values of each parameter in their order.
Query(query, k) ==
    FoldLeft(LAMBDA out, p : IF p.parses /\ p.key = k THEN Append(out, p) ELSE out,
             <<>>, query)

\* A mistake: the first value of a parameter stands for all.
EncodeFirst(query) ==
    LET first == Query(query, "id") IN IF first = <<>> THEN <<>> ELSE <<Head(first)>>

\* Encode sorts the parameters that are left by key.
Encode(query) ==
    FlattenSeq([k \in DOMAIN Keys |->
        IF Keys[k] \in trackingParams THEN <<>> ELSE Query(query, Keys[k])])

stripTrackingParams(url) ==
    IF url.form = "malformed" \/ ~Tracked(url) THEN url
    ELSE [url EXCEPT !.query = Encode(url.query)]

-----------------------------------------------------------------------------
(* The transformers.                                                       *)

\* A missing time is now.
appliedAtOrNow(at) == IF at = "none" THEN "now" ELSE at

Canonical(source, req, title, company, url) ==
    [source |-> source, userID |-> TrimSpace(req.userID), jobTitle |-> title,
     company |-> company, url |-> url, appliedAt |-> appliedAtOrNow(req.appliedAt)]

FromDashboard(req) ==
    Canonical("dashboard", req, TrimSpace(req.title), TrimSpace(req.company), TrimURL(req.url))

\* A mistake: the suffix is looked for before the text is cleaned.
FromChromeStripFirst(req) ==
    Canonical("chrome", req, collapseWhitespace(stripBoardSuffix(req.title)),
              collapseWhitespace(req.company), stripTrackingParams(TrimURL(req.url)))

FromChromeExt(req) ==
    Canonical("chrome", req, stripBoardSuffix(collapseWhitespace(req.title)),
              collapseWhitespace(req.company), stripTrackingParams(TrimURL(req.url)))

FromScraper(req) ==
    Canonical("scraper", req, collapseWhitespace(req.title),
              collapseWhitespace(req.company), TrimURL(req.url))

For(source, req) ==
    CASE source = "dashboard" -> FromDashboard(req)
      [] source = "chrome" -> FromChromeExt(req)
      [] source = "scraper" -> FromScraper(req)

Absent(url) == url.form = "blank" /\ ~url.padded

\* The rules, in their order; the user, the source and the version are set.
\* An address with a space before it does not parse.
Validate(e) ==
    CASE e.jobTitle = <<>> -> "job_title"
      [] e.jobTitle # <<>> /\ e.company = <<>> -> "company"
      [] e.jobTitle # <<>> /\ e.company # <<>> /\ Absent(e.url) -> "url"
      [] OTHER -> IF e.url.form # "http" \/ e.url.padded THEN "invalid_url" ELSE "ok"

\* The command line client looks for absent flags, untrimmed, then at the time.
BuildRequest(req) ==
    CASE req.title = <<>> -> "job_title"
      [] req.title # <<>> /\ req.company = <<>> -> "company"
      [] req.title # <<>> /\ req.company # <<>> /\ Absent(req.url) -> "url"
      [] OTHER -> IF req.appliedAt = "garbled" THEN "applied_at" ELSE "ok"

\* The gateway: a browser's source and time.
parseSource(source) ==
    CASE source = "" -> "chrome"
      [] source \in Sources \ {"unspecified"} -> source
      [] OTHER -> "invalid"

parseAppliedAt(at) == IF at = "" THEN "now" ELSE at

-----------------------------------------------------------------------------
(* From a posting to an event.                                             *)

\* Single spaces between words, nothing invisible.
Tidy(s) ==
    \A i \in DOMAIN s :
        /\ s[i] \notin {"tab", "nbsp"} \cup ZeroWidth
        /\ s[i] = "space" => i \notin {1, Len(s)} /\ s[i - 1] # "space"

Parameters == [key : {"id", "ref", "utm_source"}, parses : BOOLEAN, value : Nat]

Addresses == [form : {"http", "other", "malformed", "blank"}, padded : BOOLEAN,
              query : Seq(Parameters)]

\* An author's texts are tidy and know one space, and no title ends in a
\* board's name, as the boards append it.
ASSUME PostingsAssumption ==
    \A p \in Postings :
        /\ p = [title |-> p.title, company |-> p.company, url |-> p.url]
        /\ \A s \in {p.title, p.company} :
              s \in Seq(Characters \ (White \ {"space"})) /\ Tidy(s)
        /\ \A suffix \in boardSuffixes : ~IsSuffix(suffix, normalize(p.title))
        /\ p.url \in Addresses

TransformInit ==
    /\ posting \in Postings
    /\ page = posting
    /\ noise = 0
    /\ tagged = FALSE
    /\ parsed = FALSE
    /\ event = NoEvent
    /\ verdict = "none"

Show(field, value) ==
    /\ verdict = "none"
    /\ page' = [page EXCEPT ![field] = value]
    /\ UNCHANGED <<posting, parsed, event, verdict>>

Add(field, value) ==
    /\ noise < MaxNoise /\ noise' = noise + 1
    /\ tagged' = tagged
    /\ Show(field, value)

\* What a reader does not see: white space where some is, or around the text,
\* and what has no width anywhere.
Spoil(field) ==
    LET s == page[field]
    IN  \E i \in 1..Len(s) + 1, c \in Noise :
          /\ c \in White =>
                \/ i \in {1, Len(s) + 1}
                \/ \E j \in {i - 1, i} \cap DOMAIN s : s[j] \in White
          /\ Add(field, InsertAt(s, i, c))

\* A space is shown as another one.
Harden ==
    \E i \in DOMAIN page.title :
        /\ page.title[i] = "space"
        /\ \E c \in (Noise \cap White) \ {"space"} : Add("title", [page.title EXCEPT ![i] = c])

Capitalise ==
    \E i \in DOMAIN page.title :
        /\ page.title[i] = "a"
        /\ Add("title", [page.title EXCEPT ![i] = "A"])

\* The site's name is put behind the title.
Tag ==
    /\ ~tagged /\ tagged' = TRUE
    /\ noise' = noise
    /\ \E bar \in {"|", "-"} :
          Show("title", page.title \o <<"space", bar, "space", "LinkedIn">>)

\* A link is shared.
Share ==
    \E k \in trackingParams, place \in {"first", "final"} :
        LET p == <<[key |-> k, parses |-> TRUE, value |-> 0]>>
        IN  Add("url", [page.url EXCEPT !.query = IF place = "first" THEN p \o @ ELSE @ \o p])

\* An address is copied with the space before it.
Pad ==
    /\ ~page.url.padded
    /\ Add("url", [page.url EXCEPT !.padded = TRUE])

Request(id, at) == [userID |-> id, title |-> page.title, company |-> page.company,
                    url |-> page.url, appliedAt |-> at]

\* submitOne's first two steps: For and the transformer, then Validate.
Transform(source) ==
    /\ verdict = "none"
    /\ \E id \in Spellings, at \in {"none", "given"} :
          /\ event' = IF source = "unspecified" THEN NoEvent ELSE For(source, Request(id, at))
          /\ verdict' = IF source = "unspecified" THEN "unsupported" ELSE Validate(event')
    /\ UNCHANGED <<posting, page, noise, tagged, parsed>>

\* The command line client: its own refusal, or the service's verdict.  It
\* sends its own time where it was given none.
RunCLI ==
    /\ verdict = "none"
    /\ \E id \in Spellings, at \in {"now", "given", "garbled"} :
          LET built == BuildRequest(Request(id, at))
          IN  /\ event' = IF built = "ok" THEN FromDashboard(Request(id, at)) ELSE NoEvent
              /\ verdict' = IF built = "ok" THEN Validate(event') ELSE built
    /\ UNCHANGED <<posting, page, noise, tagged, parsed>>

\* A browser posts to the gateway, which has its own opinion of source and time.
Post(req, source) ==
    LET via == parseSource(source)
        at == parseAppliedAt(req.appliedAt)
    IN  \/ via = "invalid" /\ event' = NoEvent /\ verdict' = "source"
        \/ /\ via # "invalid" /\ at = "garbled"
           /\ event' = NoEvent /\ verdict' = "applied_at"
        \/ /\ via # "invalid" /\ at # "garbled"
           /\ event' = For(via, [req EXCEPT !.appliedAt = at])
           /\ verdict' = Validate(event')

PostAny ==
    /\ verdict = "none"
    /\ \E source \in Sources \cup {"", "unknown"}, id \in Spellings,
          at \in {"", "given", "garbled"} :
          Post(Request(id, at), source)
    /\ UNCHANGED <<posting, page, noise, tagged, parsed>>

\* The extension scrapes the page, refuses one without a title or company,
\* and posts the rest: as an extension's, without a time.
submitJob ==
    /\ verdict = "none"
    /\ \E id \in Spellings :
          LET scraped == [Request(id, "") EXCEPT !.title = textOf(page.title),
                                                 !.company = textOf(page.company)]
          IN  \/ /\ scraped.title = <<>> \/ scraped.company = <<>>
                 /\ event' = NoEvent /\ verdict' = "unparsed"
              \/ /\ scraped.title # <<>> /\ scraped.company # <<>>
                 /\ Post(scraped, "chrome")
    /\ parsed' = TRUE
    /\ UNCHANGED <<posting, page, noise, tagged>>

TransformNext ==
    \/ Spoil("title") \/ Spoil("company") \/ Harden \/ Capitalise \/ Tag \/ Share \/ Pad
    \/ \E source \in Sources : Transform(source)
    \/ RunCLI \/ PostAny \/ submitJob
    \/ verdict # "none" /\ UNCHANGED transformVars

TransformSpec == TransformInit /\ [][TransformNext]_transformVars
=============================================================================
