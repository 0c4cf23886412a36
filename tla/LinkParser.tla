----------------------------- MODULE LinkParser -----------------------------
(***************************************************************************)
(* extract_absolute_link_s of link_parser.c: a machine that reads a page   *)
(* character by character and collects the links of its anchors, each made *)
(* absolute with the page's URL.  Of the characters those are told apart   *)
(* that the machine tells apart: both quotes are one, and so are a space   *)
(* and a tab.                                                              *)
(***************************************************************************)
EXTENDS Integers, Sequences, SequencesExt

CONSTANT Inputs     \* bound: the URLs and the pages there, as sequences of characters

(* A character is a string.                                                *)
ASSUME InputsAssumption == Inputs \subseteq Seq(STRING) \X Seq(STRING)

NULL == 0
Blank == " "
Quote == "'"
Newline == "|"
http == <<"h", "t", "t", "p", ":", "/", "/">>

VARIABLES
    url,        \* the URL of the page
    htmltxt,    \* the page
    ch,         \* the place of the character to be read
    status,
    as_, ls, le, \* the places of an anchor's "<" (the code's as) and of its link's ends
    urllist,    \* the links collected: where each is in the page, and as pushed
    dropped     \* history: where those are that list_push_back had no memory for

vars == <<url, htmltxt, ch, status, as_, ls, le, urllist, dropped>>

Init ==
    /\ \E in \in Inputs : url = in[1] /\ htmltxt = in[2]
    /\ ch = 1 /\ status = "S_START"
    /\ as_ = NULL /\ ls = NULL /\ le = NULL
    /\ urllist = <<>> /\ dropped = {}

Here == htmltxt[ch]

-----------------------------------------------------------------------------
(* _search_root *)

\* Whether a "./" or "../" begins at c + 1 and something follows it.
Dot(link, c) == c + 2 < Len(link) /\ SubSeq(link, c + 1, c + 2) = <<".", "/">>

DotDot(link, c) == c + 3 < Len(link) /\ SubSeq(link, c + 1, c + 3) = <<".", ".", "/">>

\* The characters skipped and the layers to go up, from c on.
Skip(link) ==
    LET skip[c \in 0..Len(link)] ==
            CASE Dot(link, c)    -> skip[c + 2]
              [] DotDot(link, c) -> [skip[c + 3] EXCEPT !.layer = @ + 1]
              [] OTHER           -> [c |-> c, layer |-> 1]
    IN  skip[0]

\* Faulty: the last slash is left out.
PrefixSizeShort(layer) ==
    LET slashes == {i \in DOMAIN url : url[i] = "/"}
        last == {i \in slashes : Cardinality({k \in slashes : k >= i}) = layer}
    IN  IF last = {} THEN 0 ELSE Max(last) - 1

\* Back from the end of url over its characters, until layer slashes have
\* been seen: the length of what is before, the last slash included.
PrefixSize(layer) ==
    LET back[p \in (0..Len(url)) \X (1..layer)] ==
            LET i == p[1]
                l == p[2]
            IN  CASE i = 0                             -> 0
                  [] i > 0 /\ url[i] = "/" /\ l = 1 -> i
                  [] i > 0 /\ url[i] = "/" /\ l > 1 -> back[<<i - 1, l - 1>>]
                  [] OTHER                             -> back[<<i - 1, l>>]
    IN  back[<<Len(url), layer>>]

\* Faulty: a link of no more than these characters is relative.
IsAbsoluteLonger(link) == Len(link) > 7 /\ IsPrefix(http, link)

IsAbsolute(link) == Len(link) >= 7 /\ IsPrefix(http, link)

\* The links pushed for the one between ls and le: one or none.
Absolute(link) ==
    IF IsAbsolute(link) THEN <<link>>
    ELSE LET path == SubSeq(link, Skip(link).c + 1, Len(link))
             prefix == SubSeq(url, 1, PrefixSize(Skip(link).layer))
         IN  IF prefix # <<>> /\ path # <<>> THEN <<prefix \o path>> ELSE <<>>

-----------------------------------------------------------------------------
(* the machine *)

\* In a tag, what makes the machine go on to the next state.
Expected == [S_BLANK |-> "h", S_H |-> "r", S_R |-> "e", S_E |-> "f", S_F |-> "="]
Following == [S_BLANK |-> "S_H", S_H |-> "S_R", S_R |-> "S_E", S_E |-> "S_F", S_F |-> "S_EQ"]

\* The state after reading c within a tag, other than a ">".
After(s, c) ==
    IF c = Newline THEN "S_END"
    ELSE CASE s = "S_LEFT" -> (CASE c = "a"   -> "S_A"
                                 [] c = Blank -> "S_LEFT"
                                 [] OTHER     -> "S_END")
           [] s = "S_A"    -> IF c = Blank THEN "S_BLANK" ELSE "S_END"
           [] s = "S_EQ"   -> (CASE c = Quote -> "S_LQ"
                                 [] c = Blank -> "S_EQ"
                                 [] OTHER     -> "S_BLANK")
           [] s = "S_LQ"   -> IF c = Quote THEN "S_RQ" ELSE "S_LQ"
           [] s = "S_RQ"   -> "S_RQ"
           [] s \in DOMAIN Expected -> (CASE c = Expected[s]        -> Following[s]
                                         [] s = "S_F" /\ c = Blank -> "S_F"
                                         [] OTHER                  -> "S_BLANK")

Reading == ch <= Len(htmltxt)

ReadText ==
    /\ Reading /\ status = "S_START"
    /\ status' = CASE Here = "<"     -> "S_LEFT"
                   [] Here = Newline -> "S_END"
                   [] OTHER          -> "S_START"
    /\ as_' = IF Here = "<" THEN ch ELSE as_
    /\ ch' = ch + 1
    /\ UNCHANGED <<url, htmltxt, ls, le, urllist, dropped>>

ReadTag ==
    /\ Reading /\ status \notin {"S_START", "S_RIGHT", "S_END"} /\ Here # ">"
    /\ status' = After(status, Here)
    /\ ls' = IF status = "S_EQ" /\ Here = Quote THEN ch + 1 ELSE ls
    /\ le' = IF status = "S_LQ" /\ Here = Quote THEN ch - 1 ELSE le
    /\ ch' = ch + 1
    /\ UNCHANGED <<url, htmltxt, as_, urllist, dropped>>

\* The ">" is left for S_RIGHT.
TagEnds ==
    /\ Reading /\ status \notin {"S_START", "S_RIGHT", "S_END"} /\ Here = ">"
    /\ status' = "S_RIGHT"
    /\ UNCHANGED <<url, htmltxt, ch, as_, ls, le, urllist, dropped>>

\* Faulty: a link of one character is taken for none.
FoundLonger == ls # NULL /\ le # NULL /\ le - ls > 0

Found == ls # NULL /\ le # NULL

\* What is pushed when the tag ends: no link, or one.
Pushed ==
    LET links == Absolute(SubSeq(htmltxt, ls, le))
    IN  IF Found THEN [i \in DOMAIN links |-> [so |-> ls, eo |-> le, link |-> links[i]]]
        ELSE <<>>

\* list_push_back drops the link if malloc fails, and the machine goes on.
Right ==
    /\ Reading /\ status = "S_RIGHT"
    /\ \/ urllist' = urllist \o Pushed /\ UNCHANGED dropped
       \/ Pushed # <<>> /\ dropped' = dropped \cup {<<ls, le>>} /\ UNCHANGED urllist
    /\ status' = "S_START"
    /\ as_' = NULL /\ ls' = NULL /\ le' = NULL
    /\ ch' = ch + 1
    /\ UNCHANGED <<url, htmltxt>>

\* Faulty: the link of a tag that is broken off is not forgotten.
EndKeepsLink ==
    /\ Reading /\ status = "S_END"
    /\ status' = "S_START"
    /\ as_' = NULL
    /\ UNCHANGED <<url, htmltxt, ch, ls, le, urllist, dropped>>

\* Reads nothing: the character at which a tag broke off is passed over.
End ==
    /\ Reading /\ status = "S_END"
    /\ status' = "S_START"
    /\ as_' = NULL /\ ls' = NULL /\ le' = NULL
    /\ UNCHANGED <<url, htmltxt, ch, urllist, dropped>>

Finished == ~Reading /\ UNCHANGED vars

Next == ReadText \/ ReadTag \/ TagEnds \/ Right \/ End \/ Finished

Spec == Init /\ [][Next]_vars

-----------------------------------------------------------------------------
(* What an anchor is, said of the page as a whole.                         *)

Places == 1..Len(htmltxt)

Blanks(i, j) == \A k \in i..j : htmltxt[k] = Blank

\* The "<" at i opens an anchor: "a" follows after blanks, and a blank it.
Opens(i) ==
    /\ htmltxt[i] = "<"
    /\ \E k \in Places : /\ k > i /\ htmltxt[k] = "a" /\ Blanks(i + 1, k - 1)
                         /\ k < Len(htmltxt) /\ htmltxt[k + 1] = Blank

\* The place of the first ">" or newline after i, if there is any.
Closes(i) == {j \in Places : /\ j > i /\ htmltxt[j] \in {">", Newline}
                             /\ \A k \in i..(j - 1) : htmltxt[k] \notin {">", Newline}}

\* The anchors, each from its "<" to the ">" or newline it ends at: those
\* that do not begin within another.
Anchors ==
    LET from[n \in 1..(Len(htmltxt) + 1)] ==
            IF n > Len(htmltxt) THEN {}
            ELSE IF ~Opens(n) THEN from[n + 1]
            ELSE UNION {{<<n, j>>} \cup from[j + 1] : j \in Closes(n)}
    IN  {a \in from[1] : htmltxt[a[2]] = ">"}

\* The "<" at i is the character at which another may have broken off.
PassedOver(i) ==
    \E k \in 1..(i - 1) :
        /\ htmltxt[k] = "<"
        /\ Blanks(k + 1, i - 1) \/ (htmltxt[i - 1] = "a" /\ Blanks(k + 1, i - 2))

HrefAt(p) == p + 3 <= Len(htmltxt) /\ SubSeq(htmltxt, p, p + 3) = <<"h", "r", "e", "f">>

\* An href at p, with blanks about its "=", has the value from s to e.
Value(p, s, e) ==
    /\ HrefAt(p)
    /\ \E q \in (p + 4)..(s - 2) : /\ htmltxt[q] = "="
                                   /\ Blanks(p + 4, q - 1) /\ Blanks(q + 1, s - 2)
    /\ htmltxt[s - 1] = Quote /\ htmltxt[e + 1] = Quote
    /\ \A k \in s..e : htmltxt[k] # Quote

(* The variables have their types, and the pointers point into the tag.    *)
TypeOK ==
    /\ ch \in 1..(Len(htmltxt) + 1)
    /\ status \in {"S_START", "S_LEFT", "S_A", "S_RIGHT", "S_END", "S_EQ", "S_LQ", "S_RQ"}
                    \cup DOMAIN Expected
    /\ as_ \in 0..(ch - 1)
    /\ ls \in 0..ch /\ le \in 0..(ch - 1)
    /\ (Found => as_ < ls /\ ls <= le + 1)

(* Every link collected is the value of an href within one anchor: none is *)
(* put together from two tags, or from what was left over of a broken one; *)
(* and an anchor gives one link, in the page's order.                      *)
OwnHref ==
    ~Reading =>
      /\ \A m \in DOMAIN urllist : \E a \in Anchors : \E p \in a[1]..a[2] :
            /\ urllist[m].eo + 1 < a[2]
            /\ Value(p, urllist[m].so, urllist[m].eo)
      /\ \A m, n \in DOMAIN urllist : m < n =>
            \E a \in Anchors : urllist[m].eo < a[2] /\ a[2] < urllist[n].so

Slashes(s) == Cardinality({i \in DOMAIN s : s[i] = "/"})

\* The number of ".." among the first c characters of link.
Ups(link, c) == Cardinality({i \in 1..(c - 1) : SubSeq(link, i, i + 1) = <<".", ".">>})

(* An anchor whose first href follows a blank, and has a value, is not     *)
(* missed when the page has been read, whatever stands around it.  (After  *)
(* another character it may be: "hhref" is; and so is an anchor at whose   *)
(* "<" another tag breaks off, as in "<<a".)  A link with as many ".." as  *)
(* the page's URL has slashes leads nowhere, and may be left out; and one  *)
(* that list_push_back has no memory for is not in the list.               *)
AnchorsFound ==
    ~Reading => \A a \in Anchors : \A p, s, e \in (a[1] + 1)..a[2] :
        /\ ~PassedOver(a[1])
        /\ \A q \in a[1]..(p - 1) : ~HrefAt(q)
        /\ htmltxt[p - 1] = Blank
        /\ s <= e /\ e + 1 < a[2] /\ Value(p, s, e)
        /\ \/ IsPrefix(http, SubSeq(htmltxt, s, e))
           \/ Ups(SubSeq(htmltxt, s, e), e - s + 1) < Slashes(url)
        => \/ \E m \in DOMAIN urllist : urllist[m].so = s /\ urllist[m].eo = e
           \/ <<s, e>> \in dropped

(* A link collected is the one in the page if it begins with "http://";    *)
(* else it is a path put behind a part of the page's URL that ends with a  *)
(* slash, and that leaves as many slashes out as the link has "../" at its *)
(* beginning; and the path is not nothing.                                 *)
Resolved ==
    /\ TypeOK
    /\ ~Reading => \A m \in DOMAIN urllist :
        LET link == SubSeq(htmltxt, urllist[m].so, urllist[m].eo)
            abs == urllist[m].link
            Rest(c) == SubSeq(link, c + 1, Len(link))
        IN  IF IsPrefix(http, link) THEN abs = link
            ELSE \E c \in 0..(Len(link) - 1), n \in 1..Len(url) :
                    /\ abs = SubSeq(url, 1, n) \o Rest(c)
                    /\ url[n] = "/"
                    /\ ToSet(SubSeq(link, 1, c)) \subseteq {".", "/"}
                    /\ Slashes(SubSeq(url, n + 1, Len(url))) = Ups(link, c)
                    /\ \A up \in {<<".", "/">>, <<".", ".", "/">>} :
                          IsPrefix(up, Rest(c)) => up = Rest(c)
=============================================================================
