---------------------------- MODULE MCPageLinks -----------------------------
(* A small instance of PageLinks for TLC: pages that are made of a few      *)
(* pieces, anchors whole and broken off at every place among them, on a few *)
(* URLs, and empty pages on many.                                           *)
EXTENDS PageLinks

CONSTANTS MaxPieces, MaxUrlPieces

Tag == <<"<", "a", " ">>
Href == <<"h", "r", "e", "f">>
Open == Href \o <<"=", "'">>
Up == <<".", ".", "/">>

Pieces == {Tag, Href, Open, <<"'">>, <<">">>, <<"'", ">">>, <<"|">>, <<" ">>, <<"=">>,
           <<"<">>, <<"h">>, Up \o Up, <<".", "/">> \o Up \o <<"x">>, http,
           Tag \o Open, Tag \o Open \o <<"x", "'">>}

SmallPages == {FlattenSeq(s) : s \in SeqOf(Pieces, MaxPieces)}

Anchor(link) == Tag \o Open \o link \o <<"'", ">">>

LinkPieces == {<<".", "/">>, Up, <<"/">>, <<"x">>, <<":">>, <<":", "/", "/">>, <<"8">>, <<"?">>}

LinkPages == {Anchor(FlattenSeq(s)) : s \in SeqOf(LinkPieces, MaxPieces - 1)}

UrlPieces == {http, http \o <<"x", ".", "x">>, <<"x">>, <<".">>, <<":">>, <<":", "8">>, <<"/">>,
              <<"/", "x">>, <<"?">>, <<"=">>, <<",">>}

\* http://x/x
SmallUrl == http \o <<"x", "/", "x">>

LinkUrls == {<<"x", "/">>, <<"x", ":", "/", "x">>, <<"x", "/", "x", "?", "/">>,
             http \o <<"x">>, http \o <<"x", ":", "8", "/", "x", "/", "x">>}

SmallInputs ==
    ({SmallUrl} \X SmallPages)
    \cup (LinkUrls \X LinkPages)
    \cup ({FlattenSeq(s) : s \in SeqOf(UrlPieces, MaxUrlPieces)} \X {<<>>})

SmallLetters == {"h", "t", "p", "s", "x"}
SmallDigits == {"8"}
=============================================================================
