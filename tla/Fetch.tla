------------------------------- MODULE Fetch --------------------------------
(***************************************************************************)
(* One crawl job in detail: the attempts of do_crawler (worker.c), each a  *)
(* crawler_crawl (link_crawler.c) that opens a connection (network.c),     *)
(* asks for the page and receives it into a buffer that doubles            *)
(* (http_client.c), and closes.  The network answers anything.             *)
(*                                                                         *)
(* The page itself is its length: what has been received of it.            *)
(***************************************************************************)
EXTENDS Integers

CONSTANTS
    BodyDefault,    \* ENTITY_BODY_SIZE_DEFAULT, the first size of the buffer
    Limit,          \* LIMIT, the most one recv is asked for
    MaxPage,        \* bound: no server sends more than this
    AllocFails      \* whether malloc and realloc may return NULL

ASSUME SizesAssumption ==
    /\ BodyDefault \in Nat /\ Limit \in Nat \ {0} /\ Limit <= BodyDefault
    /\ MaxPage \in Nat
    /\ AllocFails \in BOOLEAN

Attempts == 3

VARIABLES
    pc,             \* where the job is
    timeout,        \* do_crawler's count of the attempts left
    retval,         \* what crawler_crawl answered last
    sockets,        \* descriptors the job has opened and not closed
    blocks,         \* heap blocks of page buffers not freed
    body_len,       \* enti_body.len: not 0 when there is a buffer to free
    size,           \* entity_body_size
    received,       \* recv_body_length
    timeouts,       \* receives of this attempt that timed out
    kept            \* blocks of link_info, which do_work is to free

buffer == <<blocks, body_len, size, received>>
vars == <<pc, timeout, retval, sockets, buffer, timeouts, kept>>

Init ==
    /\ pc = "crawl" /\ timeout = Attempts /\ retval = "NULL"
    /\ sockets = 0 /\ blocks = 0 /\ body_len = 0 /\ size = 0 /\ received = 0
    /\ timeouts = 0 /\ kept = 0

Goto(from, to) == pc = from /\ pc' = to
Answer(status) == retval' = status

-----------------------------------------------------------------------------
(* crawler_crawl: the URL, then open_tcp by http_connect. *)

UrlUnrecognized ==
    /\ Goto("crawl", "judge")
    /\ Answer("UNKNOWN")
    /\ UNCHANGED <<timeout, sockets, buffer, timeouts, kept>>

\* Faulty: timeout is declared inside the loop.
UrlRecognizedAnew ==
    /\ Goto("crawl", "socket")
    /\ body_len' = 0 /\ timeouts' = 0
    /\ timeout' = Attempts
    /\ UNCHANGED <<retval, sockets, blocks, size, received, kept>>

\* http_response_init forgets the last attempt's response.
UrlRecognized ==
    /\ Goto("crawl", "socket")
    /\ body_len' = 0 /\ timeouts' = 0
    /\ UNCHANGED <<timeout, retval, sockets, blocks, size, received, kept>>

SocketOpened ==
    /\ Goto("socket", "connect")
    /\ sockets' = sockets + 1
    /\ UNCHANGED <<timeout, retval, buffer, timeouts, kept>>

SocketFails ==
    /\ Goto("socket", "judge")
    /\ Answer("UNREACH")
    /\ UNCHANGED <<timeout, sockets, buffer, timeouts, kept>>

Connected ==
    /\ Goto("connect", "send")
    /\ UNCHANGED <<timeout, retval, sockets, buffer, timeouts, kept>>

\* No host of that name, or it refuses: open_tcp returns and leaves the
\* socket open.
Unreachable ==
    /\ Goto("connect", "judge")
    /\ Answer("UNREACH")
    /\ UNCHANGED <<timeout, sockets, buffer, timeouts, kept>>

-----------------------------------------------------------------------------
(* http_do_get. *)

Sent ==
    /\ Goto("send", "allocate")
    /\ UNCHANGED <<timeout, retval, sockets, buffer, timeouts, kept>>

\* Faulty: returns before http_disconnect.
SendFailsOpen ==
    /\ Goto("send", "judge")
    /\ Answer("FAILED")
    /\ UNCHANGED <<timeout, sockets, buffer, timeouts, kept>>

SendFails ==
    /\ Goto("send", "disconnect")
    /\ Answer("FAILED")
    /\ UNCHANGED <<timeout, sockets, buffer, timeouts, kept>>

Allocated ==
    /\ Goto("allocate", "receive")
    /\ blocks' = blocks + 1
    /\ body_len' = BodyDefault /\ size' = BodyDefault /\ received' = 0
    /\ UNCHANGED <<timeout, retval, sockets, timeouts, kept>>

AllocateFails ==
    /\ AllocFails
    /\ Goto("allocate", "disconnect")
    /\ body_len' = 0
    /\ Answer("BREAK")
    /\ UNCHANGED <<timeout, sockets, blocks, size, received, timeouts, kept>>

\* Faulty: the buffer grows when it has overflowed.
TooSmallLate(n) == received > size

\* n more bytes do not fit in the buffer, which doubles, once.
TooSmall(n) == received + n > size
Doubled == 2 * size

Received(n) ==
    /\ Goto("receive", "receive")
    /\ received + n <= MaxPage
    /\ size' = IF TooSmall(n) THEN Doubled ELSE size
    /\ body_len' = size'
    /\ received' = received + n
    /\ UNCHANGED <<timeout, retval, sockets, blocks, timeouts, kept>>

\* realloc fails: enti_body forgets the old block, and nothing frees it.
GrowFails(n) ==
    /\ AllocFails
    /\ Goto("receive", "disconnect")
    /\ received + n <= MaxPage
    /\ TooSmall(n)
    /\ body_len' = 0 /\ size' = Doubled
    /\ Answer("BREAK")
    /\ UNCHANGED <<timeout, sockets, blocks, received, timeouts, kept>>

\* The server has closed: the page is whole.
ReceivedAll ==
    /\ Goto("receive", "status")
    /\ UNCHANGED <<timeout, retval, sockets, buffer, timeouts, kept>>

\* Faulty: forgets the buffer, as when realloc fails.
ReceiveFailsUnfreed ==
    /\ Goto("receive", "disconnect")
    /\ body_len' = 0
    /\ Answer("BREAK")
    /\ UNCHANGED <<timeout, sockets, blocks, size, received, timeouts, kept>>

ReceiveFails ==
    /\ Goto("receive", "disconnect")
    /\ Answer("BREAK")
    /\ UNCHANGED <<timeout, sockets, buffer, timeouts, kept>>

\* Ten seconds without a byte (SO_RCVTIMEO): recv answers as for any error.
ReceiveTimesOut ==
    /\ Goto("receive", "disconnect")
    /\ Answer("BREAK")
    /\ timeouts' = timeouts + 1
    /\ UNCHANGED <<timeout, sockets, buffer, kept>>

-----------------------------------------------------------------------------
(* crawler_crawl: the status line and the links, then http_disconnect. *)

ReadStatus ==
    /\ Goto("status", "disconnect")
    /\ \E status \in {"OK", "NONEED"} : Answer(status)
    /\ UNCHANGED <<timeout, sockets, buffer, timeouts, kept>>

Disconnect ==
    /\ Goto("disconnect", "judge")
    /\ blocks' = IF body_len # 0 THEN blocks - 1 ELSE blocks
    /\ body_len' = 0
    /\ sockets' = sockets - 1
    /\ UNCHANGED <<timeout, retval, size, received, timeouts, kept>>

-----------------------------------------------------------------------------
(* do_crawler: what to do with the answer. *)

Again == {"TIMEOUT", "OVERFLOW", "FAILED", "UNREACH"}

UrlCopied ==
    /\ Goto("judge", "list")
    /\ retval = "OK"
    /\ kept' = kept + 1
    /\ UNCHANGED <<timeout, retval, sockets, buffer, timeouts>>

UrlNoMemory ==
    /\ AllocFails
    /\ Goto("judge", "release")
    /\ retval = "OK"
    /\ UNCHANGED <<timeout, retval, sockets, buffer, timeouts, kept>>

ListAllocated ==
    /\ Goto("list", "filter")
    /\ kept' = kept + 1
    /\ UNCHANGED <<timeout, retval, sockets, buffer, timeouts>>

\* The copy of the URL is not freed.
ListNoMemory ==
    /\ AllocFails
    /\ Goto("list", "release")
    /\ UNCHANGED <<timeout, retval, sockets, buffer, timeouts, kept>>

\* filter has kept what it keeps, and do_work gets the URL and the list.
Push ==
    /\ Goto("filter", "count")
    /\ kept' = 0
    /\ UNCHANGED <<timeout, retval, sockets, buffer, timeouts>>

\* The page has no link at all, or there is no memory for the bits: neither
\* the URL nor the list is freed.
PushNothing ==
    /\ Goto("filter", "release")
    /\ UNCHANGED <<timeout, retval, sockets, buffer, timeouts, kept>>

\* Faulty: a request that could not be sent does not count.
CountDownButFailed ==
    /\ retval # "OK"
    /\ timeout' = IF retval = "FAILED" THEN timeout ELSE timeout - 1
    /\ Goto("judge", IF retval \in Again /\ timeout' > 0 THEN "crawl" ELSE "release")
    /\ UNCHANGED <<retval, sockets, buffer, timeouts, kept>>

CountDown ==
    /\ retval # "OK"
    /\ timeout' = timeout - 1
    /\ Goto("judge", IF retval \in Again /\ timeout' > 0 THEN "crawl" ELSE "release")
    /\ UNCHANGED <<retval, sockets, buffer, timeouts, kept>>

Terminated == pc \in {"count", "release"} /\ UNCHANGED vars

Next ==
    \/ UrlUnrecognized \/ UrlRecognized
    \/ SocketOpened \/ SocketFails
    \/ Connected \/ Unreachable
    \/ Sent \/ SendFails
    \/ Allocated \/ AllocateFails
    \/ \E n \in 1..Limit : Received(n) \/ GrowFails(n)
    \/ ReceivedAll \/ ReceiveFails \/ ReceiveTimesOut
    \/ ReadStatus \/ Disconnect
    \/ UrlCopied \/ UrlNoMemory \/ ListAllocated \/ ListNoMemory
    \/ Push \/ PushNothing \/ CountDown
    \/ Terminated

Spec == Init /\ [][Next]_vars

(* The thread runs on, and a page comes to its end.                        *)
FairSpec == Spec /\ WF_vars(Next)

-----------------------------------------------------------------------------
(* Properties. *)

Bit(b) == IF b THEN 1 ELSE 0

\* The variables hold what the code can store in them.
TypeOK ==
    /\ pc \in {"crawl", "socket", "connect", "send", "allocate", "receive", "status",
               "disconnect", "judge", "list", "filter", "count", "release"}
    /\ timeout \in 0..Attempts
    /\ retval \in {"NULL", "OK", "NONEED", "FAILED", "BREAK", "UNREACH", "UNKNOWN"}
    /\ sockets \in Nat /\ blocks \in Nat
    /\ body_len \in Nat /\ size \in Nat /\ received \in Nat
    /\ timeouts \in Nat /\ kept \in Nat

(* Places where the attempt's own socket is open. *)
Online == {"connect", "send", "allocate", "receive", "status", "disconnect"}

\* http_client.c: what memcpy writes of a page is inside its buffer, one
\* doubling being enough for whatever one recv brings.
InsideBuffer == pc \in {"receive", "status"} => received <= size /\ body_len = size

\* An attempt closes its socket unless it failed to connect: a job leaves no
\* more sockets open than attempts it has used up.
SocketBalance ==
    /\ sockets <= (Attempts - timeout) + Bit(pc \in Online) + Bit(pc = "judge" /\ retval = "UNREACH")
    /\ pc = "count" => sockets <= Attempts - 1

\* realloc has failed: the size was doubled for bytes that never came in.
GrowFailed == retval = "BREAK" /\ size > BodyDefault /\ 2 * received <= size

\* The page's buffer is freed once, on every path: only a failed realloc
\* leaves one behind, and such a page is not tried again.  Of a link_info a
\* job leaves two blocks at most, and those of a page that came in but is not
\* pushed; one that is pushed is do_work's to free.
BodyBalance ==
    /\ TypeOK
    /\ blocks >= Bit(body_len # 0)
    /\ pc \in {"crawl", "judge", "list", "filter", "count", "release"} => blocks <= Bit(GrowFailed)
    /\ kept <= 2 * Bit(retval = "OK" /\ pc \in {"list", "filter", "release"})

\* The job is one of CrawlJob's, whatever happens on the network.
Job == INSTANCE CrawlJob WITH phase <- IF pc \in {"count", "release"} THEN pc ELSE "crawl"
JobSpec == Job!Spec

\* Every job ends, with its page pushed or with nothing.
JobEnds == <>(pc \in {"count", "release"})

\* http_client.c, http_do_get: "send or recv timeout more than 3 times will
\* stop", that is, a page is not given up at its first timeout.
StopsAfterThreeTimeouts == retval = "BREAK" /\ timeouts > 0 => timeouts > 3
=============================================================================
