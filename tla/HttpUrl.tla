------------------------------ MODULE HttpUrl -------------------------------
(***************************************************************************)
(* http_url_parse_s of http_url.c: a URL cut at its delimiters, from the   *)
(* left.  URLs are sequences of characters.  What is found before a part   *)
(* that is not recognised stays in http_url.                               *)
(***************************************************************************)
EXTENDS Integers, Sequences, SequencesExt

CONSTANTS Letters, Digits   \* bound: the characters there are of either kind

(* isalnum and isdigit hold for no delimiter, and isalnum for letters.     *)
ASSUME CharactersAssumption ==
    /\ (Letters \cup Digits) \cap {":", "/", "?"} = {}
    /\ {"h", "t", "p", "s"} \subseteq Letters

Alnum == Letters \cup Digits
HostChars == Alnum \cup {".", "-"}
PathChars == Alnum \cup {"/", ";", ":", "@", "%", "&", "=", "_", ".", "-", "+"}

(* _check_protocol and the others *)
All(s, chars) == ToSet(s) \subseteq chars

(* The length of what is before the first c, or of the whole string.      *)
Upto(s, c) == IF Contains(s, c) THEN SelectInSeq(s, LAMBDA x : x = c) - 1 ELSE Len(s)

\* Faulty form: the last "://" is looked for.
SchemeLast(url) ==
    LET at == {i \in 1..Len(url) : IsPrefix(<<":", "/", "/">>, SubSeq(url, i, Len(url)))}
    IN  IF at = {} THEN 0 ELSE Max(at)

(* Where "://" begins, or 0. *)
Scheme(url) ==
    LET at == {i \in 1..Len(url) : IsPrefix(<<":", "/", "/">>, SubSeq(url, i, Len(url)))}
    IN  IF at = {} THEN 0 ELSE Min(at)

Nothing == [status |-> "", protocol |-> <<>>, host |-> <<>>, port |-> <<>>,
            path |-> <<>>, search |-> <<>>]

http_url_parse_s(url) ==
    LET Drop(s, n) == SubSeq(s, n + 1, Len(s))
        scheme   == Scheme(url)
        protocol == SubSeq(url, 1, scheme - 1)
        afterScheme == IF scheme = 0 THEN url ELSE Drop(url, scheme + 2)
        hasPort  == Contains(afterScheme, ":")
        host     == SubSeq(afterScheme, 1, Upto(afterScheme, IF hasPort THEN ":" ELSE "/"))
        afterHost == Drop(afterScheme, Len(host) + IF hasPort THEN 1 ELSE 0)
        port     == IF hasPort THEN SubSeq(afterHost, 1, Upto(afterHost, "/")) ELSE <<>>
        afterPort == Drop(afterHost, Len(port))
        path     == SubSeq(afterPort, 1, Upto(afterPort, "?"))
    IN  IF ~All(protocol, Alnum)
        THEN [Nothing EXCEPT !.status = "URL_PROTO_UNRECOGNIZED"]
        ELSE IF ~All(host, HostChars)
        THEN [Nothing EXCEPT !.status = "URL_HOST_UNRECOGNIZED", !.protocol = protocol]
        ELSE IF ~All(port, Digits)
        THEN [Nothing EXCEPT !.status = "URL_PORT_UNRECOGNIZED", !.protocol = protocol,
                             !.host = host]
        ELSE IF ~All(path, PathChars)
        THEN [Nothing EXCEPT !.status = "URL_PATH_UNRECOGNIZED", !.protocol = protocol,
                             !.host = host, !.port = port]
        ELSE [status |-> "URL_RECOGNIZED", protocol |-> protocol, host |-> host, port |-> port,
              path |-> path, search |-> Drop(afterPort, Len(path) + 1)]
=============================================================================
