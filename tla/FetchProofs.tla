----------------------------- MODULE FetchProofs ----------------------------
(***************************************************************************)
(* What is proved of Fetch: a page never runs over its buffer, whatever    *)
(* the sizes, as long as one recv brings no more than the first buffer     *)
(* holds (SizesAssumption); the sockets and the memory a job leaves are    *)
(* bounded on every path; and the job is one of CrawlJob's.                *)
(***************************************************************************)
EXTENDS Fetch, TLAPS

(* While a page is being received, the buffer is at least its first size:  *)
(* so doubling it adds at least what one recv can bring.                   *)
Grown ==
    pc \in {"receive", "status"} =>
        /\ size \in Nat /\ received \in Nat
        /\ BodyDefault <= size
        /\ received <= size
        /\ body_len = size

LEMMA GrownInit == Init => Grown
BY DEF Init, Grown

LEMMA GrownStep == Grown /\ [Next]_vars => Grown'
<1> SUFFICES ASSUME Grown, [Next]_vars PROVE Grown'
    OBVIOUS
<1> USE SizesAssumption DEF Grown, Goto
<1>1. CASE UrlUnrecognized \/ UrlRecognized \/ SocketOpened \/ SocketFails \/ Connected \/ Unreachable
      BY <1>1 DEF UrlUnrecognized, UrlRecognized, SocketOpened, SocketFails, Connected, Unreachable
<1>2. CASE Sent \/ SendFails \/ AllocateFails
      BY <1>2 DEF Sent, SendFails, AllocateFails
<1>3. CASE Allocated
      BY <1>3 DEF Allocated
<1>4. ASSUME NEW n \in 1..Limit, Received(n) PROVE Grown'
  <2>1. size \in Nat /\ received \in Nat /\ BodyDefault <= size /\ received <= size
        BY <1>4 DEF Received
  <2>2. CASE TooSmall(n)
        BY <2>1, <2>2, <1>4 DEF Received, Doubled
  <2>3. CASE ~TooSmall(n)
        BY <2>1, <2>3, <1>4 DEF Received, TooSmall
  <2> QED BY <2>2, <2>3
<1>5. ASSUME NEW n \in 1..Limit, GrowFails(n) PROVE Grown'
      BY <1>5 DEF GrowFails
<1>6. CASE ReceivedAll
      BY <1>6 DEF ReceivedAll, buffer
<1>7. CASE ReceiveFails \/ ReceiveTimesOut \/ ReadStatus \/ Disconnect
      BY <1>7 DEF ReceiveFails, ReceiveTimesOut, ReadStatus, Disconnect
<1>8. CASE \/ UrlCopied \/ UrlNoMemory \/ ListAllocated \/ ListNoMemory
           \/ Push \/ PushNothing \/ CountDown
      BY <1>8 DEF UrlCopied, UrlNoMemory, ListAllocated, ListNoMemory, Push, PushNothing, CountDown
<1>9. CASE UNCHANGED vars
      BY <1>9 DEF vars, buffer
<1> QED
    BY <1>1, <1>2, <1>3, <1>4, <1>5, <1>6, <1>7, <1>8, <1>9 DEF Next, Terminated

(* The sockets: one is open within an attempt, and none is left but by an  *)
(* attempt that could not connect.                                         *)
SocketInv ==
    /\ sockets + timeout <=
          Attempts + Bit(pc \in Online) + Bit(pc = "judge" /\ retval = "UNREACH")
    /\ pc \in Online => sockets >= 1
    /\ pc # "release" => timeout >= 1
    /\ pc \in {"list", "filter", "count"} => retval = "OK"

(* The page's buffer: enti_body.len tells if there is one, but for the one *)
(* a failed realloc has left, and then there is no further attempt.        *)
HeapInv ==
    /\ body_len # 0 => blocks = 1
    /\ body_len = 0 => blocks <= Bit(GrowFailed)
    /\ pc \in {"crawl", "socket", "connect", "send", "allocate"} => blocks = 0
    /\ pc \in {"receive", "status"} => body_len # 0
    /\ pc \in {"judge", "list", "filter", "count", "release"} => body_len = 0

(* The blocks of link_info, as far as they have been allocated.            *)
KeptInv ==
    /\ kept <= 2
    /\ pc = "list" => kept <= 1
    /\ pc \in {"list", "filter"} \/ (pc = "release" /\ retval = "OK") \/ kept = 0

FetchInv == TypeOK /\ Grown /\ SocketInv /\ HeapInv /\ KeptInv

LEMMA FetchInit == Init => FetchInv
<1> SUFFICES ASSUME Init PROVE FetchInv
    OBVIOUS
<1>1. TypeOK
    BY DEF Init, TypeOK, Attempts
<1>2. SocketInv /\ HeapInv /\ KeptInv
    BY DEF Init, SocketInv, HeapInv, KeptInv, Bit, Online, Attempts
<1> QED
    BY <1>1, <1>2, GrownInit DEF FetchInv

LEMMA TypeStep == FetchInv /\ [Next]_vars => TypeOK'
<1> SUFFICES ASSUME FetchInv, [Next]_vars PROVE TypeOK'
    OBVIOUS
<1> USE SizesAssumption DEF FetchInv, TypeOK, Goto, Answer, buffer
<1>1. CASE UrlUnrecognized \/ UrlRecognized \/ SocketOpened \/ SocketFails \/ Connected \/ Unreachable
    BY <1>1 DEF UrlUnrecognized, UrlRecognized, SocketOpened, SocketFails, Connected, Unreachable
<1>2. CASE Sent \/ SendFails \/ Allocated \/ AllocateFails
    BY <1>2 DEF Sent, SendFails, Allocated, AllocateFails
<1>3. ASSUME NEW n \in 1..Limit, Received(n) \/ GrowFails(n) PROVE TypeOK'
    BY <1>3 DEF Received, GrowFails, Doubled
<1>4. CASE ReceivedAll \/ ReceiveFails \/ ReceiveTimesOut \/ ReadStatus
    BY <1>4 DEF ReceivedAll, ReceiveFails, ReceiveTimesOut, ReadStatus
<1>5. CASE Disconnect
  <2>1. sockets - 1 \in Nat
    BY <1>5 DEF Disconnect, SocketInv, Online
  <2>2. body_len # 0 => blocks - 1 \in Nat
    BY <1>5 DEF HeapInv
  <2> QED
    BY <1>5, <2>1, <2>2 DEF Disconnect
<1>6. CASE UrlCopied \/ UrlNoMemory \/ ListAllocated \/ ListNoMemory \/ Push \/ PushNothing
    BY <1>6 DEF UrlCopied, UrlNoMemory, ListAllocated, ListNoMemory, Push, PushNothing
<1>7. CASE CountDown
    BY <1>7 DEF CountDown, SocketInv, Attempts
<1>8. CASE UNCHANGED vars
    BY <1>8 DEF vars
<1> QED
    BY <1>1, <1>2, <1>3, <1>4, <1>5, <1>6, <1>7, <1>8 DEF Next, Terminated

(* A socket is opened before, and closed after, everything that can go     *)
(* wrong with it, but for the connection.                                  *)
LEMMA SocketStep == FetchInv /\ [Next]_vars => SocketInv'
<1> SUFFICES ASSUME FetchInv, [Next]_vars PROVE SocketInv'
    OBVIOUS
<1> USE DEF FetchInv, TypeOK, SocketInv, Goto, Answer, Bit, Online, Attempts
<1>1. CASE UrlUnrecognized \/ UrlRecognized \/ SocketOpened \/ SocketFails \/ Connected \/ Unreachable
    BY <1>1 DEF UrlUnrecognized, UrlRecognized, SocketOpened, SocketFails, Connected, Unreachable
<1>2. CASE Sent \/ SendFails \/ Allocated \/ AllocateFails
    BY <1>2 DEF Sent, SendFails, Allocated, AllocateFails
<1>3. ASSUME NEW n \in 1..Limit, Received(n) \/ GrowFails(n) PROVE SocketInv'
    BY <1>3 DEF Received, GrowFails
<1>4. CASE ReceivedAll \/ ReceiveFails \/ ReceiveTimesOut \/ ReadStatus
    BY <1>4 DEF ReceivedAll, ReceiveFails, ReceiveTimesOut, ReadStatus
<1>5. CASE Disconnect
    BY <1>5 DEF Disconnect
<1>6. CASE UrlCopied \/ UrlNoMemory \/ ListAllocated \/ ListNoMemory \/ Push \/ PushNothing
    BY <1>6 DEF UrlCopied, UrlNoMemory, ListAllocated, ListNoMemory, Push, PushNothing
<1>7. CASE CountDown
    BY <1>7 DEF CountDown
<1>8. CASE UNCHANGED vars
    BY <1>8 DEF vars
<1> QED
    BY <1>1, <1>2, <1>3, <1>4, <1>5, <1>6, <1>7, <1>8 DEF Next, Terminated

(* The one step that loses a buffer is a failed realloc, which leaves      *)
(* GrowFailed true for good: BREAK is not an answer to try again after.    *)
LEMMA HeapStep == FetchInv /\ [Next]_vars => HeapInv'
<1> SUFFICES ASSUME FetchInv, [Next]_vars PROVE HeapInv'
    OBVIOUS
<1> USE SizesAssumption DEF FetchInv, TypeOK, HeapInv, Goto, Answer, Bit, buffer
<1>1. CASE UrlUnrecognized \/ UrlRecognized \/ SocketOpened \/ SocketFails \/ Connected \/ Unreachable
    BY <1>1 DEF UrlUnrecognized, UrlRecognized, SocketOpened, SocketFails, Connected, Unreachable
<1>2. CASE Sent \/ SendFails \/ Allocated \/ AllocateFails
    BY <1>2 DEF Sent, SendFails, Allocated, AllocateFails
<1>3. ASSUME NEW n \in 1..Limit, Received(n) PROVE HeapInv'
    BY <1>3 DEF Received, Grown, Doubled
<1>4. ASSUME NEW n \in 1..Limit, GrowFails(n) PROVE HeapInv'
  <2>1. size >= BodyDefault /\ received <= size /\ blocks = 1
    BY <1>4 DEF GrowFails, Grown
  <2>2. GrowFailed'
    BY <1>4, <2>1 DEF GrowFails, GrowFailed, Doubled
  <2> QED
    BY <1>4, <2>1, <2>2 DEF GrowFails
<1>5. CASE ReceivedAll \/ ReceiveFails \/ ReceiveTimesOut \/ ReadStatus
    BY <1>5 DEF ReceivedAll, ReceiveFails, ReceiveTimesOut, ReadStatus
<1>6. CASE Disconnect
    BY <1>6 DEF Disconnect, GrowFailed
<1>7. CASE UrlCopied \/ UrlNoMemory \/ ListAllocated \/ ListNoMemory \/ Push \/ PushNothing
    BY <1>7 DEF UrlCopied, UrlNoMemory, ListAllocated, ListNoMemory, Push, PushNothing, GrowFailed
<1>8. CASE CountDown
    BY <1>8 DEF CountDown, GrowFailed, Again
<1>9. CASE UNCHANGED vars
    BY <1>9 DEF vars, GrowFailed
<1> QED
    BY <1>1, <1>2, <1>3, <1>4, <1>5, <1>6, <1>7, <1>8, <1>9 DEF Next, Terminated

LEMMA KeptStep == FetchInv /\ [Next]_vars => KeptInv'
<1> SUFFICES ASSUME FetchInv, [Next]_vars PROVE KeptInv'
    OBVIOUS
<1> USE DEF FetchInv, TypeOK, KeptInv, Goto, Answer
<1>1. CASE UrlUnrecognized \/ UrlRecognized \/ SocketOpened \/ SocketFails \/ Connected \/ Unreachable
    BY <1>1 DEF UrlUnrecognized, UrlRecognized, SocketOpened, SocketFails, Connected, Unreachable
<1>2. CASE Sent \/ SendFails \/ Allocated \/ AllocateFails
    BY <1>2 DEF Sent, SendFails, Allocated, AllocateFails
<1>3. ASSUME NEW n \in 1..Limit, Received(n) \/ GrowFails(n) PROVE KeptInv'
    BY <1>3 DEF Received, GrowFails
<1>4. CASE ReceivedAll \/ ReceiveFails \/ ReceiveTimesOut \/ ReadStatus \/ Disconnect
    BY <1>4 DEF ReceivedAll, ReceiveFails, ReceiveTimesOut, ReadStatus, Disconnect
<1>5. CASE UrlCopied \/ UrlNoMemory \/ ListAllocated \/ ListNoMemory
    BY <1>5, SocketStep DEF UrlCopied, UrlNoMemory, ListAllocated, ListNoMemory, SocketInv
<1>6. CASE Push \/ PushNothing
    BY <1>6 DEF Push, PushNothing, SocketInv
<1>7. CASE CountDown
    BY <1>7 DEF CountDown
<1>8. CASE UNCHANGED vars
    BY <1>8 DEF vars
<1> QED
    BY <1>1, <1>2, <1>3, <1>4, <1>5, <1>6, <1>7, <1>8 DEF Next, Terminated

LEMMA FetchAlways == Spec => []FetchInv
<1>1. FetchInv /\ [Next]_vars => FetchInv'
    BY TypeStep, GrownStep, SocketStep, HeapStep, KeptStep DEF FetchInv
<1> QED
    BY <1>1, FetchInit, PTL DEF Spec

(* http_do_get: memcpy always writes inside the page's buffer.             *)
THEOREM PageFits == Spec => []InsideBuffer
<1>1. Grown => InsideBuffer
      BY DEF Grown, InsideBuffer
<1> QED
    BY <1>1, GrownInit, GrownStep, PTL DEF Spec

(* crawler_crawl: a job leaves no more sockets open than attempts it has   *)
(* used up, and its last attempt none if the page came in.                 *)
THEOREM SocketsBounded == Spec => []SocketBalance
<1>1. FetchInv => SocketBalance
    BY DEF FetchInv, TypeOK, SocketInv, SocketBalance, Bit, Online, Attempts
<1> QED
    BY <1>1, FetchAlways, PTL

(* do_crawler: every path frees the page's buffer but a failed realloc,    *)
(* and leaves a link_info only where a page came in and was not pushed.    *)
THEOREM MemoryBounded == Spec => []BodyBalance
<1>1. ASSUME FetchInv PROVE BodyBalance
  <2>1. blocks >= Bit(body_len # 0)
    BY <1>1 DEF FetchInv, TypeOK, HeapInv, Bit
  <2>2. pc \in {"crawl", "judge", "list", "filter", "count", "release"} => blocks <= Bit(GrowFailed)
    BY <1>1 DEF FetchInv, TypeOK, HeapInv, Bit
  <2>3. kept <= 2 * Bit(retval = "OK" /\ pc \in {"list", "filter", "release"})
    BY <1>1 DEF FetchInv, TypeOK, KeptInv, SocketInv, Bit
  <2> QED
    BY <1>1, <2>1, <2>2, <2>3 DEF FetchInv, BodyBalance
<1> QED
    BY <1>1, FetchAlways, PTL

(* do_crawler: whatever the network answers, the job makes at most three   *)
(* attempts and ends with its page pushed or with nothing, as the crawl    *)
(* assumes of it.                                                          *)
THEOREM JobIsCrawlJob == Spec => JobSpec
<1>1. Init => Job!Init
    BY DEF Init, Job!Init
<1>2. FetchInv /\ [Next]_vars => [Job!Next]_Job!vars
  <2> SUFFICES ASSUME FetchInv, [Next]_vars PROVE [Job!Next]_Job!vars
    OBVIOUS
  <2> USE DEF Goto, Answer, Job!vars
  <2>1. CASE UrlUnrecognized \/ UrlRecognized \/ SocketOpened \/ SocketFails \/ Connected \/ Unreachable
    BY <2>1 DEF UrlUnrecognized, UrlRecognized, SocketOpened, SocketFails, Connected, Unreachable
  <2>2. CASE Sent \/ SendFails \/ Allocated \/ AllocateFails
    BY <2>2 DEF Sent, SendFails, Allocated, AllocateFails
  <2>3. ASSUME NEW n \in 1..Limit, Received(n) \/ GrowFails(n) PROVE UNCHANGED Job!vars
    BY <2>3 DEF Received, GrowFails
  <2>4. CASE ReceivedAll \/ ReceiveFails \/ ReceiveTimesOut \/ ReadStatus \/ Disconnect
    BY <2>4 DEF ReceivedAll, ReceiveFails, ReceiveTimesOut, ReadStatus, Disconnect
  <2>5. CASE UrlCopied \/ ListAllocated
    BY <2>5 DEF UrlCopied, ListAllocated
  <2>6. CASE UrlNoMemory \/ ListNoMemory \/ PushNothing
    BY <2>6 DEF UrlNoMemory, ListNoMemory, PushNothing, Job!Next, Job!Dropped
  <2>7. CASE Push
    BY <2>7 DEF Push, Job!Next, Job!Fetched
  <2>8. CASE CountDown
    BY <2>8 DEF CountDown, FetchInv, TypeOK, Job!Next, Job!Dropped, Job!Failed
  <2>9. CASE UNCHANGED vars
    BY <2>9 DEF vars
  <2> QED
    BY <2>1, <2>2, <2>3, <2>4, <2>5, <2>6, <2>7, <2>8, <2>9 DEF Next, Terminated
<1> QED
    BY <1>1, <1>2, FetchAlways, PTL DEF Spec, JobSpec, Job!Spec
=============================================================================
