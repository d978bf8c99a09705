------------------------ MODULE TransformProperties -------------------------
(***************************************************************************)
(* What cleaning is for: one posting, one key, and no other posting's.     *)
(***************************************************************************)
EXTENDS Transform

Accepted == verdict = "ok"
KeyOf(p) == Key(UserID, p.company, p.title)
EventKey == Key(event.userID, event.company, event.jobTitle)

\* What a posting means: that of it which a reader sees, in lower case.
Written(s) == normalize(s)

SameWords(p) ==
    /\ Written(p.company) = Written(event.company)
    /\ Written(p.title) = Written(event.jobTitle)

\* Characters that occur in a posting's texts.
In(p) == {p.title[i] : i \in DOMAIN p.title} \cup {p.company[i] : i \in DOMAIN p.company}

\* White space that nobody takes for it on the way to the event:
\* collapseWhitespace knows the ASCII ones and nbsp, the extension's parser
\* all but NEL.
Unknown == IF parsed THEN {"nel"} ELSE {"emsp", "nel"}

\* The values of the variables.  An event of a page that was scraped has
\* single ASCII spaces only and nothing invisible, and every event has a time.
TransformTypeOK ==
    /\ posting \in Postings
    /\ noise \in 0..MaxNoise
    /\ tagged \in BOOLEAN
    /\ parsed \in BOOLEAN
    /\ verdict \in {"none", "unsupported", "job_title", "company", "url",
                    "invalid_url", "source", "applied_at", "unparsed", "ok"}
    /\ verdict \in {"ok", "invalid_url"} => event # NoEvent
    /\ event # NoEvent => event.appliedAt \in {"now", "given"}
    /\ event.source \in {"chrome", "scraper"} =>
          Tidy(event.jobTitle) /\ Tidy(event.company)

\* A posting is one application, however it is submitted: an event has the
\* key of the posting as its author would enter it into the dashboard,
\* whatever a page has added to its texts, but for white space that is
\* Unknown, and for a byte order mark that the extension's parser has read: it
\* takes that for a space where collapseWhitespace drops it.  The scraper
\* leaves the site's name behind the title; the extension takes it for the
\* title where there is no other.
SourcesAgree ==
    /\ Accepted
    /\ In(page) \cap Unknown = {} /\ (parsed => "bom" \notin In(page))
    /\ \/ event.source = "chrome" /\ (tagged => Written(posting.title) # <<>>)
       \/ event.source = "scraper" /\ ~tagged
    => EventKey = KeyOf(posting)

\* What is accepted says something: but for white space that is Unknown, no
\* title or company of a page that has nothing to read passes Validate, and
\* nothing else is refused but addresses.  The clients that look themselves
\* before they send anything refuse nothing that says something: the command
\* line nothing that the service would accept, the extension's parser, of all
\* pages, none with a title and a company to read.
BlankRefused ==
    /\ event.source \in {"chrome", "scraper"} /\ ~tagged /\ In(page) \cap Unknown = {} =>
          CASE Written(posting.title) = <<>> -> verdict = "job_title"
            [] Written(posting.title) # <<>> /\ Written(posting.company) = <<>> ->
                  verdict = "company"
            [] OTHER -> verdict \in {"ok", "url", "invalid_url"}
    /\ event = NoEvent /\ verdict \in {"job_title", "company", "url"} =>
          \A id \in Spellings : Validate(FromDashboard(Request(id, "given"))) # "ok"
    /\ verdict = "unparsed" => Written(posting.title) = <<>> \/ Written(posting.company) = <<>>

\* Whoever shares the link, the address accepted from the extension is the
\* posting's: without tracking parameters and the space before it, and with
\* every other parameter that parses, the values of each in their order.
AddressKept ==
    Accepted /\ event.source = "chrome" =>
        /\ ~Tracked(event.url) /\ ~event.url.padded
        /\ \A k \in {"id"} :
              Query(event.url.query, k) = Query(posting.url.query, k)

\* Postings of different companies or titles never share a key, and so never
\* an application id, if no company has the separator in its name.
KeysTellApart ==
    Accepted =>
        \A p \in Postings :
            /\ ~Contains(p.company, "|") /\ ~Contains(event.company, "|")
            /\ KeyOf(p) = EventKey
            => SameWords(p)
=============================================================================
