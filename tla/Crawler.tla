------------------------------ MODULE Crawler -------------------------------
(***************************************************************************)
(* The crawl: main (main.c), the one thread that runs do_work and the pool *)
(* threads that run do_crawler (worker.c), over the thread pool and the    *)
(* web graph.                                                              *)
(*                                                                         *)
(* The worker takes the pages the pool has fetched from urlqueue, records  *)
(* them in the graph and sets a crawl job for each URL not asked for yet.  *)
(* global_lock counts the work not finished; the worker stops the pool     *)
(* when it reads 0 there, or when the graph is full.  Each increase of     *)
(* global_lock comes after the push it accounts for and before the post    *)
(* that announces it, so the counter and the queues disagree in between,   *)
(* and all of the stopping protocol rests on when they may.                *)
(***************************************************************************)
EXTENDS ThreadPool, WebGraph

CONSTANTS
    Seed,           \* the URL of the command line
    Pages,          \* the lists of links filter can leave of a page
    VertexMax       \* VERTEX_DEFAULT, the size of the vertex array

ASSUME UrlsAssumption ==
    /\ Seed \in Urls
    /\ Exit \notin Urls
    /\ Pages \subseteq Seq(Urls)
    /\ VertexMax \in Nat

Attempts == 3       \* the initial value of timeout in do_crawler

VARIABLES
    mpc,            \* where main is
    seeded,         \* crawl_job_arg is not NULL
    killed,         \* a thread followed a NULL pointer and the process is gone
    wpc,            \* where do_work is
    urlqueue,       \* pages fetched and not taken yet, oldest first
    pages_lost,     \* the URLs of the pages queue_push dropped (as jobs_lost, no
                    \* variable of the code)
    work_sem,       \* value of the semaphore work_sem
    global_lock,    \* the count of work not finished
    link_info,      \* do_work's local variable: the page being recorded
    rest,           \* the links of it that iter has not passed yet
    exits,          \* do_work's local variable i of the closing loop
    timeout         \* do_crawler's local variable, one a thread

mainVars == <<mpc, seeded, killed>>
workVars == <<wpc, link_info, rest, exits>>
urlVars == <<urlqueue, pages_lost>>
sharedVars == <<urlVars, work_sem, global_lock>>
vars == <<poolVars, graphVars, mainVars, workVars, sharedVars, timeout>>

Init ==
    /\ PoolInit
    /\ WebGraphInit
    /\ mpc = "seed" /\ seeded = FALSE /\ killed = FALSE
    /\ wpc = "off" /\ exits = 0
    /\ link_info = [url |-> Seed, link_url |-> <<>>]   \* uninitialized until the first top
    /\ rest = <<>>
    /\ urlqueue = <<>> /\ pages_lost = <<>> /\ work_sem = 0 /\ global_lock = 0
    /\ timeout = [t \in Threads |-> Attempts]

Increase == global_lock' = global_lock + 1
Decrease == global_lock' = global_lock - 1
PostWork == work_sem' = work_sem + 1

-----------------------------------------------------------------------------
(* main, from the running of the pool to the joining of it. *)

MainGoto(from, to) == mpc = from /\ mpc' = to

SeedSet ==
    /\ MainGoto("seed", "incr")
    /\ seeded' = TRUE
    /\ SetJob(Seed)
    /\ UNCHANGED <<job_sem, idle, tpc, job, doneVars, graphVars, killed, workVars, sharedVars, timeout>>

SeedNoMemory ==
    /\ "main" \in AllocFails
    /\ MainGoto("seed", "create")
    /\ UNCHANGED <<poolVars, graphVars, seeded, killed, workVars, sharedVars, timeout>>

SeedIncrease ==
    /\ MainGoto("incr", "post")
    /\ Increase
    /\ UNCHANGED <<poolVars, graphVars, seeded, killed, workVars, urlVars, work_sem, timeout>>

SeedPost ==
    /\ MainGoto("post", "create")
    /\ PostJob
    /\ UNCHANGED <<job_queue, jobs_lost, idle, tpc, job, doneVars, graphVars, seeded, killed, workVars, sharedVars, timeout>>

CreateWorker ==
    /\ MainGoto("create", "joinworker")
    /\ wpc' = "check"
    /\ UNCHANGED <<poolVars, graphVars, seeded, killed, link_info, rest, exits, sharedVars, timeout>>

\* main returns, and the process and every thread with it.
CreateFails ==
    /\ MainGoto("create", "aborted")
    /\ UNCHANGED <<poolVars, graphVars, seeded, killed, workVars, sharedVars, timeout>>

JoinWorker ==
    /\ MainGoto("joinworker", "joinpool")
    /\ wpc = "returned"
    /\ UNCHANGED <<poolVars, graphVars, seeded, killed, workVars, sharedVars, timeout>>

\* Faulty form: the pool is not waited for.
JoinPoolEarly ==
    /\ MainGoto("joinpool", "report")
    /\ UNCHANGED <<poolVars, graphVars, seeded, killed, workVars, sharedVars, timeout>>

JoinPool ==
    /\ MainGoto("joinpool", "report")
    /\ Joined
    /\ UNCHANGED <<poolVars, graphVars, seeded, killed, workVars, sharedVars, timeout>>

Main ==
    \/ SeedSet
    \/ SeedNoMemory
    \/ SeedIncrease
    \/ SeedPost
    \/ CreateWorker
    \/ CreateFails
    \/ JoinWorker
    \/ JoinPool

-----------------------------------------------------------------------------
(* do_work. *)

WorkGoto(from, to) == wpc = from /\ wpc' = to

Full == Len(vertex) >= VertexMax

Check ==
    /\ WorkGoto("check", IF global_lock # 0 /\ ~Full THEN "wait" ELSE "exit")
    /\ UNCHANGED <<poolVars, graphVars, mainVars, link_info, rest, exits, sharedVars, timeout>>

WaitWork ==
    /\ WorkGoto("wait", "size")
    /\ work_sem > 0
    /\ work_sem' = work_sem - 1
    /\ UNCHANGED <<poolVars, graphVars, mainVars, link_info, rest, exits, urlVars, global_lock, timeout>>

\* Faulty form: every post is taken for a page.
SizeUnread ==
    /\ WorkGoto("size", "top")
    /\ UNCHANGED <<poolVars, graphVars, mainVars, link_info, rest, exits, sharedVars, timeout>>

Size ==
    /\ WorkGoto("size", IF Len(urlqueue) > 0 THEN "top" ELSE "check")
    /\ UNCHANGED <<poolVars, graphVars, mainVars, link_info, rest, exits, sharedVars, timeout>>

Top ==
    /\ WorkGoto("top", "insert")
    /\ urlqueue # <<>>                  \* as GetJob: no step is defined on an empty queue
    /\ link_info' = Head(urlqueue)
    /\ urlqueue' = Tail(urlqueue)
    /\ UNCHANGED <<poolVars, graphVars, mainVars, rest, exits, pages_lost, work_sem, global_lock, timeout>>

Edges(links) == IF "list_push_back" \in AllocFails THEN Stored(links) ELSE {links}

Insert ==
    /\ WorkGoto("insert", "iter")
    /\ \E edges \in Edges(link_info.link_url) :
          InsertEdge(link_info.url, link_info.link_url, edges)
    /\ rest' = link_info.link_url
    /\ UNCHANGED <<poolVars, mainVars, link_info, exits, sharedVars, timeout>>

\* Without memory for a vertex_info, of the page or of a link, insert_edge or
\* do_work after it follows the NULL pointer it got instead.
InsertCrash ==
    /\ "insert_edge" \in AllocFails
    /\ wpc = "insert"
    /\ killed' = TRUE
    /\ UNCHANGED <<poolVars, graphVars, mpc, seeded, workVars, sharedVars, timeout>>

\* The next link has been asked for: iter passes it.
Skip ==
    /\ WorkGoto("iter", "iter")
    /\ rest # <<>> /\ vertex_dict[Head(rest)].in
    /\ rest' = Tail(rest)
    /\ UNCHANGED <<poolVars, graphVars, mainVars, link_info, exits, sharedVars, timeout>>

\* Faulty form: the link is not marked.
AskUnmarked ==
    /\ WorkGoto("iter", "incr")
    /\ rest # <<>> /\ ~vertex_dict[Head(rest)].in
    /\ SetJob(Head(rest))
    /\ rest' = Tail(rest)
    /\ UNCHANGED <<job_sem, idle, tpc, job, doneVars, graphVars, mainVars, link_info, exits, sharedVars, timeout>>

Ask ==
    /\ WorkGoto("iter", "incr")
    /\ rest # <<>> /\ ~vertex_dict[Head(rest)].in
    /\ SetJob(Head(rest))
    /\ MarkAsked(Head(rest))
    /\ rest' = Tail(rest)
    /\ UNCHANGED <<job_sem, idle, tpc, job, doneVars, vertex, mainVars, link_info, exits, sharedVars, timeout>>

AskNoMemory ==
    /\ "do_work" \in AllocFails
    /\ WorkGoto("iter", "iter")
    /\ rest # <<>> /\ ~vertex_dict[Head(rest)].in
    /\ rest' = Tail(rest)
    /\ UNCHANGED <<poolVars, graphVars, mainVars, link_info, exits, sharedVars, timeout>>

\* Faulty form: the new job is not counted.
AskUncounted ==
    /\ WorkGoto("incr", "post")
    /\ UNCHANGED <<poolVars, graphVars, mainVars, link_info, rest, exits, sharedVars, timeout>>

AskIncrease ==
    /\ WorkGoto("incr", "post")
    /\ Increase
    /\ UNCHANGED <<poolVars, graphVars, mainVars, link_info, rest, exits, urlVars, work_sem, timeout>>

AskPost ==
    /\ WorkGoto("post", "iter")
    /\ PostJob
    /\ UNCHANGED <<job_queue, jobs_lost, idle, tpc, job, doneVars, graphVars, mainVars, link_info, rest, exits, sharedVars, timeout>>

\* Faulty form: the loop ends at the last link, not after it.
DoneEarly ==
    /\ WorkGoto("iter", "check")
    /\ Len(rest) <= 1
    /\ Decrease
    /\ UNCHANGED <<poolVars, graphVars, mainVars, link_info, rest, exits, urlVars, work_sem, timeout>>

Done ==
    /\ WorkGoto("iter", "check")
    /\ rest = <<>>
    /\ Decrease
    /\ UNCHANGED <<poolVars, graphVars, mainVars, link_info, rest, exits, urlVars, work_sem, timeout>>

SetExit ==
    /\ WorkGoto("exit", "exitpost")
    /\ exits < Cardinality(Threads)
    /\ SetJob(Exit)
    /\ UNCHANGED <<job_sem, idle, tpc, job, doneVars, graphVars, mainVars, link_info, rest, exits, sharedVars, timeout>>

PostExit ==
    /\ WorkGoto("exitpost", "exit")
    /\ PostJob
    /\ exits' = exits + 1
    /\ UNCHANGED <<job_queue, jobs_lost, idle, tpc, job, doneVars, graphVars, mainVars, link_info, rest, sharedVars, timeout>>

Return ==
    /\ WorkGoto("exit", "returned")
    /\ exits = Cardinality(Threads)
    /\ UNCHANGED <<poolVars, graphVars, mainVars, link_info, rest, exits, sharedVars, timeout>>

Work ==
    \/ Check
    \/ WaitWork
    \/ Size
    \/ Top
    \/ Insert
    \/ InsertCrash
    \/ Skip
    \/ Ask
    \/ AskNoMemory
    \/ AskIncrease
    \/ AskPost
    \/ Done
    \/ SetExit
    \/ PostExit
    \/ Return

-----------------------------------------------------------------------------
(* do_crawler, run by pool thread t on job[t].  Its find_vertex reads the  *)
(* dictionary while the worker writes it, but nothing uses the answer.     *)

BeginCrawl(t) ==
    /\ job[t] # Exit
    /\ Goto(t, "run", "crawl")
    /\ timeout' = [timeout EXCEPT ![t] = Attempts]
    /\ UNCHANGED <<queueVars, idle, job, doneVars, graphVars, mainVars, workVars, sharedVars>>

\* crawler_crawl answers CRAWLER_OK, and filter leaves links of the page.  The
\* push may fail, and the page is counted and announced all the same.
Fetched(t) ==
    /\ Goto(t, "crawl", "count")
    /\ \/ /\ \E links \in Pages :
                urlqueue' = Append(urlqueue, [url |-> job[t], link_url |-> links])
          /\ UNCHANGED pages_lost
       \/ /\ "queue_push" \in AllocFails
          /\ pages_lost' = Append(pages_lost, job[t])
          /\ UNCHANGED urlqueue
    /\ UNCHANGED <<queueVars, idle, job, doneVars, graphVars, mainVars, workVars, work_sem, global_lock, timeout>>

\* Faulty form: an early return that leaves the job counted.
DroppedCounted(t) ==
    /\ Goto(t, "crawl", "signal")
    /\ UNCHANGED <<queueVars, idle, job, doneVars, graphVars, mainVars, workVars, sharedVars, timeout>>

\* Nothing is pushed, and nothing will be tried again: the answer is
\* CRAWLER_OK for a page without any link (bloom_init refuses the size 0) or
\* without memory to keep it, or CRAWLER_BREAK, _NONEED or _UNKNOWN, which
\* only count down the timeout that nothing reads again.
Dropped(t) ==
    /\ Goto(t, "crawl", "release")
    /\ UNCHANGED <<queueVars, idle, job, doneVars, graphVars, mainVars, workVars, sharedVars, timeout>>

\* Faulty forms: the attempts are counted but not limited, and start over.
FailedUnlimited(t) ==
    /\ Goto(t, "crawl", "crawl")
    /\ timeout' = [timeout EXCEPT ![t] = @ - 1]
    /\ UNCHANGED <<queueVars, idle, job, doneVars, graphVars, mainVars, workVars, sharedVars>>

FailedRefreshed(t) ==
    /\ Goto(t, "crawl", "crawl")
    /\ timeout' = [timeout EXCEPT ![t] = IF @ = 1 THEN Attempts ELSE @ - 1]
    /\ UNCHANGED <<queueVars, idle, job, doneVars, graphVars, mainVars, workVars, sharedVars>>

\* The answer is CRAWLER_TIMEOUT, _OVERFLOW, _FAILED or _UNREACH.
Failed(t) ==
    /\ Goto(t, "crawl", IF timeout[t] - 1 > 0 THEN "crawl" ELSE "release")
    /\ timeout' = [timeout EXCEPT ![t] = @ - 1]
    /\ UNCHANGED <<queueVars, idle, job, doneVars, graphVars, mainVars, workVars, sharedVars>>

CountUrl(t) ==
    /\ Goto(t, "count", "posturl")
    /\ Increase
    /\ UNCHANGED <<queueVars, idle, job, doneVars, graphVars, mainVars, workVars, urlVars, work_sem, timeout>>

\* Faulty forms: the page is not announced, and its URL is fetched again.
PostUrlForgotten(t) ==
    /\ Goto(t, "posturl", "release")
    /\ UNCHANGED <<queueVars, idle, job, doneVars, graphVars, mainVars, workVars, sharedVars, timeout>>

PostUrlRetried(t) ==
    /\ Goto(t, "posturl", "crawl")
    /\ PostWork
    /\ UNCHANGED <<queueVars, idle, job, doneVars, graphVars, mainVars, workVars, urlVars, global_lock, timeout>>

PostUrl(t) ==
    /\ Goto(t, "posturl", "release")
    /\ PostWork
    /\ UNCHANGED <<queueVars, idle, job, doneVars, graphVars, mainVars, workVars, urlVars, global_lock, timeout>>

Release(t) ==
    /\ Goto(t, "release", "signal")
    /\ Decrease
    /\ UNCHANGED <<queueVars, idle, job, doneVars, graphVars, mainVars, workVars, urlVars, work_sem, timeout>>

\* Faulty form: the worker is not woken to look at global_lock.
SignalForgotten(t) ==
    /\ Goto(t, "signal", "end")
    /\ UNCHANGED <<queueVars, idle, job, doneVars, graphVars, mainVars, workVars, sharedVars, timeout>>

Signal(t) ==
    /\ Goto(t, "signal", "end")
    /\ PostWork
    /\ UNCHANGED <<queueVars, idle, job, doneVars, graphVars, mainVars, workVars, urlVars, global_lock, timeout>>

Crawl(t) ==
    \/ BeginCrawl(t)
    \/ Fetched(t)
    \/ Dropped(t)
    \/ Failed(t)
    \/ CountUrl(t)
    \/ PostUrl(t)
    \/ Release(t)
    \/ Signal(t)

\* thread_do_job: the pool's own steps change the pool's variables only.
Pool(t) == PoolStep(t) /\ UNCHANGED <<graphVars, mainVars, workVars, sharedVars, timeout>>

\* A thread that has a post and finds no job: queue_top follows the NULL pointer
\* of the empty queue.
Crash(t) ==
    /\ tpc[t] = "get" /\ job_queue = <<>>
    /\ killed' = TRUE
    /\ UNCHANGED <<poolVars, graphVars, mpc, seeded, workVars, sharedVars, timeout>>

Thread(t) == Pool(t) \/ Crash(t) \/ Crawl(t)

-----------------------------------------------------------------------------
Alive == mpc # "aborted" /\ ~killed

(* main has joined every thread, or has returned before. *)
Over == mpc \in {"report", "aborted"}

(* The program is at its end, or gone: no deadlock. *)
Terminated == (Over \/ killed) /\ UNCHANGED vars

Next ==
    \/ Alive /\ (Main \/ Work \/ \E t \in Threads : Thread(t))
    \/ Terminated

Spec == Init /\ [][Next]_vars

(* Every thread is scheduled: each one that can go on does.  A fetch ends, *)
(* if only by the receive timeout open_tcp sets.                           *)
Fairness ==
    /\ WF_vars(Alive /\ Main)
    /\ WF_vars(Alive /\ Work)
    /\ \A t \in Threads : WF_vars(Alive /\ Thread(t))

FairSpec == Spec /\ Fairness

-----------------------------------------------------------------------------
(* Properties. *)

Stopping == {"exit", "exitpost", "returned"}
Recording == {"insert", "iter", "incr", "post"}
Crawls == {"crawl", "count", "posturl", "release"}

\* The variables hold what the code can store in them.
TypeOK ==
    /\ job_queue \in Seq(Urls \cup {Exit})
    /\ job_sem \in Nat
    /\ jobs_lost \in Seq(Urls \cup {Exit})
    /\ idle \in [Threads -> {"IDLE", "BUSY"}]
    /\ tpc \in [Threads -> {"start", "test", "wait", "get", "run", "signal", "end", "gone"} \cup Crawls]
    /\ job \in [Threads -> Urls \cup {Exit}]
    /\ thread_idle \in Int
    /\ job_done \in Nat
    /\ Known \subseteq Urls
    /\ vertex_dict \in [Known -> [vid : Int, in : BOOLEAN]]
    /\ vertex \in Seq([addr : Urls, edge : Seq(Urls)])
    /\ mpc \in {"seed", "incr", "post", "create", "joinworker", "joinpool", "report", "aborted"}
    /\ seeded \in BOOLEAN
    /\ killed \in BOOLEAN
    /\ wpc \in {"off", "check", "wait", "size", "top"} \cup Recording \cup Stopping
    /\ urlqueue \in Seq([url : Urls, link_url : Seq(Urls)])
    /\ pages_lost \in Seq(Urls)
    /\ work_sem \in Nat
    /\ global_lock \in Int
    /\ link_info \in [url : Urls, link_url : Seq(Urls)]
    /\ rest \in Seq(Urls)
    /\ exits \in 0..Cardinality(Threads)
    /\ timeout \in [Threads -> 0..Attempts]

Count(S) == Cardinality(S)
Bit(b) == IF b THEN 1 ELSE 0
Occurs(s, e) == {i \in 1..Len(s) : s[i] = e}

At(labels) == {t \in Threads : tpc[t] \in labels}

(* The crawl jobs that wait in the queue, by their position, and those     *)
(* that queue_push dropped.                                                *)
CrawlJobs == {i \in 1..Len(job_queue) : job_queue[i] # Exit}
LostJobs == {i \in 1..Len(jobs_lost) : jobs_lost[i] # Exit}

(* The threads that have taken a crawl job and not pushed its page.        *)
Fetching == {t \in Threads : tpc[t] = "crawl" \/ (tpc[t] = "run" /\ job[t] # Exit)}

(* The threads whose crawl job still counts in global_lock.                *)
Crawling == {t \in Threads : tpc[t] \in Crawls \/ (tpc[t] = "run" /\ job[t] # Exit)}

(* The threads that have taken an exit job, from then on.                  *)
Leaving ==
    {t \in Threads : \/ tpc[t] = "run" /\ job[t] = Exit
                     \/ tpc[t] # "start" /\ idle[t] = "IDLE"}

\* thread_pool.c, set then post: every job in the queue or dropped by
\* queue_push has its post in the semaphore, in a thread already woken, or
\* still to come from its client.
TokensMatchJobs ==
    Len(job_queue) + Len(jobs_lost) =
        job_sem + Count(At({"get"}))
        + Bit(mpc \in {"incr", "post"}) + Bit(wpc \in {"incr", "post", "exitpost"})

\* As long as no push has failed, the pool never calls queue_top on an empty
\* queue; do_work never does, although it reads the size and takes the page in
\* two critical sections.
NeverTopEmpty ==
    /\ jobs_lost = <<>> /\ At({"get"}) # {} => job_queue # <<>>
    /\ wpc = "top" => urlqueue # <<>>

\* global_lock is the work not finished: the crawl jobs waiting or running
\* and the pages fetched and not recorded, but for those whose push is done
\* and whose increase is not.  The jobs and pages that queue_push dropped
\* count with them, for ever: nothing takes them out again.
Accounting ==
    global_lock = (Count(CrawlJobs) + Count(LostJobs)) + Count(Crawling) - Count(At({"count"}))
                  + (Len(urlqueue) + Len(pages_lost)) + Bit(wpc \in Recording)
                  - Bit(mpc = "incr") - Bit(wpc = "incr")

\* Every page in urlqueue will be looked for: a post of work_sem for it is
\* waiting, was taken by the worker now looking, or is still to come.
UrlTokens ==
    Len(urlqueue) <= work_sem + Bit(wpc \in {"size", "top"}) + Count(At({"count", "posturl"}))

\* do_work stops the pool before the graph is full only when the crawl is
\* over: no page waits to be recorded, no crawl job waits or is being fetched,
\* and none was dropped, for after that it never stops short of the limit.
NoEarlyStop ==
    wpc \in Stopping /\ ~Full =>
        /\ urlqueue = <<>> /\ CrawlJobs = {} /\ Fetching = {}
        /\ pages_lost = <<>> /\ LostJobs = {}

\* do_work reads global_lock and only then blocks on work_sem: whenever it
\* blocks, a post is there or a crawl job that will end with one is, unless a
\* page or a crawl job was dropped: then nobody may be left to wake it.
WorkerNotStranded ==
    wpc = "wait" =>
        \/ work_sem > 0
        \/ CrawlJobs # {} \/ Crawling \cup At({"signal"}) # {}
        \/ pages_lost # <<>> \/ LostJobs # {}

\* Until do_work stops the pool no thread has left it, and every exit job is
\* behind every crawl job.  The exit jobs waiting, dropped or taken, each by a
\* thread of its own, are none before do_work stops the pool, never more than
\* the threads, and as many as those once it has returned.
PoolServes ==
    /\ At({"gone"}) # {} => wpc \in Stopping /\ CrawlJobs = {}
    /\ \A i, j \in 1..Len(job_queue) : i < j /\ job_queue[i] = Exit => job_queue[j] = Exit
    /\ LET set == Count(Occurs(job_queue, Exit)) + Count(Occurs(jobs_lost, Exit)) + Count(Leaving)
       IN  /\ set <= Cardinality(Threads)
           /\ wpc \notin Stopping => set = 0
           /\ wpc = "returned" => set = Cardinality(Threads)

\* A URL is in at most one place: its job waiting or dropped, its page being
\* fetched, waiting, dropped or about to be recorded, or its vertex made.  So
\* no page is fetched twice and insert_edge never takes the branch of its
\* warning, "you must crawl the same url more than twice".
CrawledOnce ==
    \A u \in Urls :
        Count(Occurs(job_queue, u)) + Count(Occurs(jobs_lost, u))
        + Count({t \in Fetching : job[t] = u})
        + Count({i \in 1..Len(urlqueue) : urlqueue[i].url = u}) + Count(Occurs(pages_lost, u))
        + Bit(wpc = "insert" /\ link_info.url = u)
        + Bit(IsVertex(u)) <= 1

\* The vertex array is never written past its end.
TableBound == Len(vertex) <= VertexMax

\* When main has joined the pool it may free it: every thread has left and
\* counts as idle, no job is left, and no post but those of the jobs queue_push
\* dropped.  global_lock still counts the pages that the full graph left in
\* urlqueue and the crawl jobs and pages dropped, none unless the graph is full.
Quiescent ==
    mpc = "report" =>
        /\ Joined /\ thread_idle = Cardinality(Threads)
        /\ job_queue = <<>> /\ job_sem = Len(jobs_lost)
        /\ Occurs(jobs_lost, Exit) = {}
        /\ global_lock = Len(urlqueue) + Len(pages_lost) + Len(jobs_lost)
        /\ global_lock # 0 => Full

-----------------------------------------------------------------------------
(* The crawl implements SiteCrawl: a URL is open from the setting of its   *)
(* job until its page is given up, or recorded and gone through, and for   *)
(* ever when queue_push dropped its job or its page.                       *)

Asked == {u \in Known : vertex_dict[u].in} \cup (IF seeded THEN {Seed} ELSE {})

Open ==
    {job_queue[i] : i \in CrawlJobs} \cup {jobs_lost[i] : i \in LostJobs}
    \cup {job[t] : t \in Fetching}
    \cup {urlqueue[i].url : i \in 1..Len(urlqueue)} \cup Range(pages_lost)
    \cup (IF wpc \in Recording THEN {link_info.url} ELSE {})

RecordedPages ==
    [u \in {vertex[i].addr : i \in 1..Len(vertex)} |-> vertex[vertex_dict[u].vid + 1].edge]

LinksFollowed == IF wpc \in Recording \ {"insert"} THEN Range(link_info.link_url) ELSE {}

Site == INSTANCE SiteCrawl
            WITH asked <- Asked, open <- Open, pages <- RecordedPages,
                 links <- LinksFollowed, stopped <- wpc \in Stopping

\* Every step of the program is a step of SiteCrawl or leaves it alone.
SiteSpec == Site!Spec

\* When the report starts short of the limit, every URL known has been asked
\* for, nothing is open, and every link of every page recorded was followed:
\* only do_work's own malloc may pass over a link, none of the others that fail.
Complete ==
    /\ mpc = "report" /\ "do_work" \notin AllocFails /\ ~Full => \A u \in Known : vertex_dict[u].in
    /\ Site!AllFollowed

\* The crawl ends: main comes to the report, or gave up at its start.
Termination == <>Over

\* worker.c:183, "push urlqueue need post work to deal it": what do_crawler has
\* pushed and posts for is recorded, unless the crawl is stopped before.
PushedIsDealt ==
    \A t \in Threads, u \in Urls :
        tpc[t] = "count" /\ job[t] = u ~> IsVertex(u) \/ wpc \in Stopping \/ Over \/ killed
=============================================================================
