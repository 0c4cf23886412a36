----------------------------- MODULE PageLinks ------------------------------
(***************************************************************************)
(* crawler_crawl of link_crawler.c, as far as it is about characters: the  *)
(* URL of a page is split, and if it is recognised the page's links are    *)
(* collected, each to be a URL that is split in its turn.                  *)
(***************************************************************************)
EXTENDS LinkParser, HttpUrl

VARIABLE http_url       \* what http_url_parse_s has made of url

pageVars == <<vars, http_url>>

(* What is asked of the server. *)
RequestPath(u) == IF u.search = <<>> THEN u.path ELSE u.path \o <<"?">> \o u.search

Recognized(u) == u.status = "URL_RECOGNIZED"

CrawlInit == Init /\ http_url = http_url_parse_s(url)

ReadPage ==
    /\ Recognized(http_url)
    /\ Next
    /\ UNCHANGED http_url

\* CRAWLER_UNKNOWN: nothing is fetched.
Rejected == ~Recognized(http_url) /\ UNCHANGED pageVars

CrawlNext == ReadPage \/ Rejected

CrawlSpec == CrawlInit /\ [][CrawlNext]_pageVars

-----------------------------------------------------------------------------
(* Properties. *)

Colons == {i \in DOMAIN url : url[i] = ":"}
Schemes == {i \in Colons : IsPrefix(<<":", "/", "/">>, SubSeq(url, i, Len(url)))}

(* The ways to read url: with its "://" at s, the ":" of its port at c and *)
(* its "?" at q, if it has them (else 0), and its path from f on, if it    *)
(* has one.                                                                *)
SplitAt(s, c, f, q) ==
    LET Part(i, j) == SubSeq(url, i, j)
        from == IF s = 0 THEN 1 ELSE s + 3
    IN  [status   |-> "URL_RECOGNIZED",
         protocol |-> Part(1, s - 1),
         host     |-> Part(from, IF c = 0 THEN f - 1 ELSE c - 1),
         port     |-> IF c = 0 THEN <<>> ELSE Part(c + 1, f - 1),
         path     |-> Part(f, IF q = 0 THEN Len(url) ELSE q - 1),
         search   |-> IF q = 0 THEN <<>> ELSE Part(q + 1, Len(url))]

Ends == {i \in 1..(Len(url) + 1) : i = Len(url) + 1 \/ url[i] = "/"}

Marks == {i \in 1..Len(url) : url[i] = "?"}

(* Such places, in their order.                                            *)
Ordered(s, c, f, q) ==
    /\ (IF s = 0 THEN 1 ELSE s + 3) <= (IF c = 0 THEN f ELSE c)
    /\ c < f /\ (q = 0 \/ f < q)

(* A reading with parts of the characters that http_url.c tests for: more  *)
(* than the grammar has, since a part may be empty and a search anything.  *)
Readable(s, c, f, q) ==
    LET r == SplitAt(s, c, f, q)
    IN  /\ Ordered(s, c, f, q)
        /\ All(r.protocol, Alnum) /\ All(r.host, HostChars)
        /\ All(r.port, Digits) /\ All(r.path, PathChars)

(* http_url.h:17: labels of 1 to 63 characters that begin with a letter or *)
(* digit, two at least, a dot between them and perhaps one at the end.     *)
HostName(h) ==
    /\ ToSet(h) \subseteq Alnum \cup {"-", "."}
    /\ \A i \in DOMAIN h : i = 1 \/ h[i - 1] = "." => h[i] \in Alnum
    /\ \E i \in 2..(Len(h) - 1) : h[i] = "."
    /\ \A i \in 64..Len(h) : \E k \in (i - 63)..i : h[k] = "."

Segment == Alnum \cup {";", ":", "@", "&", "=", ".", "_", "-", "+"}

(* A reading by the grammar of http_url.h:13-17, uchar being what its      *)
(* patterns make of it (lines 23 and 24).                                  *)
Grammatical(s, c, f, q) ==
    LET r == SplitAt(s, c, f, q)
    IN  /\ Ordered(s, c, f, q)
        /\ s # 0 /\ r.protocol \in {<<"h", "t", "t", "p">>, <<"h", "t", "t", "p", "s">>}
        /\ HostName(r.host)
        /\ c # 0 => r.port # <<>> /\ ToSet(r.port) \subseteq Digits
        /\ ToSet(r.path) \subseteq Segment \cup {"/"}
        /\ ToSet(r.search) \subseteq Segment \cup {","}

(* A URL is recognised only if it can be read with parts of the characters *)
(* tested for, which the parts found are; and the path asked for is what   *)
(* follows the host and port.  Every such reading is found in which ":"    *)
(* stands before the path only, unless there is a port, and "://" nowhere  *)
(* without a scheme.  So is every reading by the grammar of http_url.h, if *)
(* it has a port or has ":" before the path only.                          *)
UrlSplit ==
    ch = 1 =>
      /\ Recognized(http_url) =>
           \E s \in Schemes \cup {0}, c \in Colons \cup {0}, f \in Ends, q \in Marks \cup {0} :
              /\ Readable(s, c, f, q) /\ http_url = SplitAt(s, c, f, q)
              /\ SubSeq(url, f, Len(url))
                    \in {RequestPath(http_url), RequestPath(http_url) \o <<"?">>}
      /\ \A s \in Schemes \cup {0}, c \in Colons \cup {0}, f \in Ends, q \in Marks \cup {0} :
              /\ \/ Readable(s, c, f, q) /\ (s = 0 => Schemes = {})
                 \/ Grammatical(s, c, f, q)
              /\ c = 0 => \A i \in Colons : i < f
              => http_url = SplitAt(s, c, f, q)

\* http_url.h:15, "hsegment = *[ uchar | ";" | ":" | "@" | "&" | "=" ]": a ":"
\* may stand in the path of a URL without a port.
ColonInPath ==
    \A s \in Schemes, f \in Ends :
        Grammatical(s, 0, f, 0) /\ f <= Len(url) => Recognized(http_url)

(* A link that is not absolute, and does not climb above the page's path,  *)
(* leads to the page's site if it leads anywhere: put together from the    *)
(* characters of two strings, it is split again where the page's URL was.  *)
(* (Not if the URL has no scheme and nothing between ":" and the path: of  *)
(* "x:/y" and "/z" comes "x://z", which is another site.)                  *)
SameSite ==
    ~Reading => \A m \in DOMAIN urllist :
        LET link == SubSeq(htmltxt, urllist[m].so, urllist[m].eo)
            to == http_url_parse_s(urllist[m].link)
        IN  /\ ~IsPrefix(http, link)
            /\ Ups(link, Len(link)) < Slashes(http_url.path)
            /\ http_url.port = <<>> => Schemes # {} \/ Colons = {}
            /\ Recognized(to)
            => /\ to.protocol = http_url.protocol
               /\ to.host = http_url.host
               /\ to.port = http_url.port
=============================================================================
