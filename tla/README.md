# A TLA+ model of siteanalyzer

siteanalyzer crawls one site with a pool of threads, builds the graph of its
pages and the links between them, and when the crawl is over writes reports on
the graph. This directory models the program in TLA+: the modules are
translated from `src/`, checked by TLC on small instances, and the safety
properties the passing runs check are proved with TLAPS for every value of the
constants. What is only model-checked is that things end.

## The system

```
 main --- seed ---> job_queue (ts_queue) + job_sem ---> pool threads: do_crawler
                         ^                                   |  crawler_crawl: fetch, parse, filter
                         |                                   v
                      do_work <--- work_sem + urlqueue (ts_queue) <--- page and its links
                         |
                         v
                      webgraph (vertex_dict, vertex[])          global_lock: work not finished
```

| component | code | state | operations | modules |
|---|---|---|---|---|
| crawl driver | `main.c` | the globals; how far main is | seed, create the work thread, join it and the pool, report | `Crawler` |
| work thread | `worker.c` `do_work` | `link_info`, loop position | test `global_lock`, wait, take a page, `insert_edge`, set jobs for its links, post the exit jobs | `Crawler`, `SiteCrawl` |
| crawl job | `worker.c` `do_crawler` | attempts left, `link_info` | fetch up to three times, copy the URL, push the page, signal | `Crawler`, `CrawlJob`, `Fetch` |
| HTTP client | `link_crawler.c`, `http_client.c`, `http_protocol.c`, `network.c` | socket, page buffer | connect, send, receive and grow, read the status, disconnect | `Fetch` |
| thread pool | `thread_pool.c`, `thread.c`, `job.h` | `job_queue`, `job_sem`, each thread's `idle` | start, wait, get a job, run it, exit; set and post a job; join | `ThreadPool` |
| counters | `thread_counter.c` | a count under a mutex | increase, decrease, get, set | steps of `Crawler`, `ThreadPool` |
| thread-safe queue | `ts_queue.c`, `queue.c` | linked list, `tail`, `len`, mutex | push, pop, top, clear, front, size, destroy | `TsQueue`, `Fifo` |
| web graph | `webgraph.c` | `vertex_dict`, `vertex[]` | `insert_edge`, `find_vertex`, mark as asked for | `WebGraph` |
| graph reports | `webgraph.c` | degrees, ranks, files | `printWebg`, `calc_degree`, `calc_pagerank`, `gen_ind_cdf`, `gen_graphviz`, `gen_ind_pagerank`, `gen_top` | `Reports` |
| link filter | `worker.c`, `bloomfilter.c`, `hash.c` | bits | check, add | `FilterLinks` |
| dictionary | `dict.c` | buckets, chains | insert, find, remove, destroy | `Dict`, `KeyValue` |
| list | `list.c` | linked list, `tail`, `len` | push at either end, insert, look up, erase, clear, iterate | `List`, `AbstractList` |
| link parser | `link_parser.c`, `link_crawler.c` | position, state | extract the links of a page, make them absolute | `LinkParser`, `PageLinks` |
| URL parser | `http_url.c` | none | split a URL | `HttpUrl`; a choice in `Fetch` |
| unit tests, makefile | `*_unittest.c` | | read for what they expect | not modelled |

What makes it hard:

* **Stopping.** Nobody knows when the crawl is over except by `global_lock`, a
  counter of jobs and pages not finished, that `main`, `do_work` and every
  `do_crawler` raise and lower, each in its own order relative to its push and
  its post. `do_work` tests it, without holding anything, and then waits on
  `work_sem`. Too low, and the crawl drops pages; not noticed at 0, and
  everything waits for ever.
* **Tokens and queues are separate.** `job_sem` and `work_sem` are posted
  after a push and taken before a pop; `queue_top` tests nothing.
* **Shared elements.** A `vertex_info` is referred to by pointer from the
  array and from edge lists, and holds both the page's id and whether it has
  been asked for.
* **The limit.** The vertex array has `VERTEX_DEFAULT` places and only the
  loop's condition stands before the write; the crawl stops with work left.
* **Memory.** `queue_push` and `list_push_back` drop their element when `malloc`
  fails and answer nothing; their callers count, announce and mark it all the same.
* **The network.** Any call may fail, at any attempt; the buffer grows while
  the page comes in.
* **Strings put together and taken apart.** A relative link is joined to a URL at
  one set of delimiters and split again, when it is crawled, at another.
* **Passes that must agree.** Each report goes over the graph by itself, and what
  counts as an edge depends on pages that came after it.

Every place where one of these bites is in `PROJECT.json` under `hazards`, with
the properties aimed at it.

## The modules

```
ThreadPool ---+
WebGraph -----+--> Crawler --> MCCrawler          Crawler  implements SiteCrawl
  |  |             |
  |  |             +--> CrawlerProofs
  |  +--> WebGraphProofs --^
  |               |
  +--> Reports ---+--> ReportsProofs
          +--> MCReports
Fetch --> MCFetch, FetchProofs                    Fetch    implements CrawlJob
TsQueue --> MCTsQueue, TsQueueProofs              TsQueue  implements Fifo
Dict --> MCDict, DictProofs                       Dict     implements KeyValue
List --> MCList, ListProofs                       List     implements AbstractList
FilterLinks --> MCFilterLinks
        |
        +--------------+
                       +--> PageProofs
LinkParser --+         |
HttpUrl -----+--> PageLinks --> MCPageLinks
```

**`ThreadPool`** is the loop of `thread_do_job`, one action a step: `Start`,
`Test` (the loop's condition), `WaitJob` (`sem_wait`), `GetJob`
(`thread_idle--` and `ts_queue_top`), `DoExit` (the exit job's body), `Finish`.
`SetJob` and `PostJob` are operators its users conjoin with their own control.
The queue is a sequence; `TsQueue` says why it may be. A push may fail; `jobs_lost`,
which no code reads, remembers the jobs dropped so. The decrease of
`thread_idle` and the taking of the job are one action: the counter is read
only to be printed. The pool's thread being within a job is a value of `tpc`
that `Crawler` gives a meaning to.

**`WebGraph`** keeps `vertex_dict` as a function from the URLs known to
`[vid, in]`, and `vertex` as a sequence of `[addr, edge]`. Pointers to a
`vertex_info` are modelled by its URL. `vertex[vid + 1]` of the model is
`vertex[vid]` of the code. `InsertEdge` is given the links and the edges to them that were
stored, since `list_push_back` may drop any (`Stored`).

**`Crawler`** extends both with `main` (`mpc`), `do_work` (`wpc`) and
`do_crawler` (the values of `tpc` from `crawl` to `signal`). Every access to
`global_lock`, `urlqueue`, `work_sem`, `job_queue` and `job_sem` is a step of its
own, in the code's order: `AskIncrease` and `AskPost`, say, follow `Ask`, which
sets the job and marks the URL. `AllocFails` names the functions whose `malloc` may fail
(in `Fetch`, `TsQueue` and `Dict`, where there is one, it is TRUE or FALSE). A push to
either queue that fails is counted and posted like any other: `jobs_lost` and `pages_lost`
remember what was dropped, for the properties to speak of. A thread that then finds
`job_queue` empty (`Crash`), and `insert_edge` without memory (`InsertCrash`), follow a
NULL pointer, and nothing more happens (`killed`). (`Ask` is one step although set and mark are two
statements: only `do_work` reads or writes the mark.) Each page's fetch is one
step here, with the three ends it can have; `Fetch` is the detail.

**`SiteCrawl`** is what the crawl promises: URLs become open by being asked
for, an open URL is recorded with a page or closed with none, and links are asked for
only of the page that is being gone through, whether or not their edges were stored; it
stops when nothing is open, or at the limit. A URL whose job or page was dropped stays open.
`Crawler` implements it (`SiteSpec`), so every step of every thread is one of
these or changes none of it.

**`Fetch`** is one run of `do_crawler`'s loop with `crawler_crawl`,
`http_connect`, `http_do_get` and `http_disconnect` inside it, up to the moment
`do_work` gets the page. A page is the number of bytes received of it. `blocks`
and `kept` count what `malloc` has given for its buffer and for `link_info` and
nobody has freed. `timeouts` counts what happened and influences nothing. `CRAWLER_TIMEOUT` and `CRAWLER_OVERFLOW` are in `Again` as in the code,
though no path answers them. **`CrawlJob`** is the job as `Crawler` has it.

**`TsQueue`** is the linked list of `queue.c` with nodes from a heap, one
statement a step, between the `Lock` and `Unlock` of `ts_queue.c`, with the
clients the program has (`Uses`, one of which is chosen at the start): consumers
that take one element a token, as the pool's threads do, or one checker that asks
for the size first, as `do_work` does, and may be woken for nothing; and the
destruction after all have gone. `ts_queue_clear`, which only the tests of the
queue use, is a call of the checker, the only client that could make it. **`Fifo`** is what it promises: a sequence
to which each call does one thing at one moment. A top takes its element at the
moment it has copied it, a push appends when it has linked its node.

**`Reports`** lets anybody insert any pages into a `WebGraph`, any of their edges missing, the
same page twice included as the unit test may (the crawl never does: `CrawledOnce`), and then
makes all reports in the program's order: `printWebg` of `do_work`,
`calc_degree`, the rounds of `calc_pagerank` one a step, `gen_ind_cdf`,
`gen_graphviz`, `gen_ind_pagerank` and `gen_top` of `main`. A file is what it
says, not how. A rank is a whole number of `Scale`-ths, rounded down where the
code computes with doubles, and `Rate` is `PAGE_RANK_PRATE` in `Scale`-ths.
Of `ind_vector[vertex_size]` only the first byte is allocated and set to zero, so
what the others hold is a choice (`rest`). `qsort` is the C library's merge sort,
written out because the comparisons answer 1 and 0 only and the order is then the
algorithm's affair.

**`Dict`** is the hash table with its chains of heap elements, one store a step:
`_bucket_insert` allocates, takes an old element of the key out, fills the new
one in, links it, puts it at the head, and counts. The writer is `do_work`, which
takes no lock; the readers are pool threads, whose `find_vertex` in `do_crawler`
takes none either. `shared` is chosen at the start: with it the writer keeps to what
the graph does, which is to insert a URL once; without it the calls exclude each other
and may do anything, as `dict_unittest.c` does. **`KeyValue`** is what it promises: calls with their effect at one
moment. An insertion has it when the element is put at the head (or, replacing,
when the old one is taken out), a look-up when it reads the head. Stores are seen
in their order because the makefile builds without optimisation and for a
processor that keeps it; a compiler free to move them could break `NoStrayRead`.

**`FilterLinks`** is `filter` with the Bloom filter inside. A link is what
`check` can tell of it (shorter than the domain, beginning with it, ending as a page
does) and the hashes it has; the functions of `hash.c` are any functions. `lost` remembers
the links `list_push_back` had no memory for, whose bits are set all the same. Its variables,
and the names of its formulas, are its own, so that `PageProofs` can extend it and
`PageLinks` both.

**`List`** is the linked list of `list.c` on nodes of a heap. A list belongs to one
thread at a time, so an operation is one action; `list_clear` is a loop whose
rounds are steps, since what could go wrong with it is that it does not end.
Any operation may be called at any time, at any index there is. `end` remembers what has
become of `tail`: "behind" once `list_push_front` has put the first element in, "lost" once
`list_push_back` has then overwritten it, and "kept" else; erasing the last element
puts `tail` right again. What is called after a write to a freed node, or to the node
NULL, is left open (`Misstep`).
**`AbstractList`** is a sequence with a size, a number of blocks, and calls, look-ups
among them.

**`LinkParser`** is the machine of `extract_absolute_link_s`, a character a step,
with `_search_root` as operators. A character stands for those the machine treats
alike. The properties are stated on the page as a whole: what an anchor is,
where it ends, what the value of an href is; so they do not repeat the machine.
The code's `as` is `as_` here, the other word being one of the solver's. `dropped`
remembers the links `list_push_back` had no memory for.

**`HttpUrl`** is `http_url_parse_s`, which looks for one delimiter after another
in what is left of the URL. **`PageLinks`** is `crawler_crawl` as far as it is
about characters: the URL of a page is split; if it is recognised the page is
read by `LinkParser`; and its properties split the links again. The reference
for the splitting is in two parts, both as sets of ways a URL can be read. `Readable` is a
reading whose parts have the characters that `http_url.c` tests for, wherever the delimiters
are; a URL recognised is one of these. `Grammatical` is a reading by the comment in
`http_url.h` (lines 13 to 17), which wants more: `http` or `https`, a host of two labels, a
port that is not empty, and a path and search of the characters listed. Its "uchar" is what
the patterns below it make of that (lines 23 and 24); the "_" that the pattern for a host (line 26)
has and the comment has not is not in it. A grammatical URL is recognised, but for the
colon that `url_colon` shows; so are many others (see below).

An operator whose comment begins "Faulty" is not part of a specification. It is
the definition after it with a plausible mistake; `PROJECT.json` (`mutants`)
pairs each property with one that violates it.

## What is checked

| run | instance | what it shows |
|---|---|---|
| `crawl_limits` | 2 threads, URLs a, b, c, two vertices at most; `malloc` may fail in `main`, `do_work`, `queue_push` and `insert_edge` | `TokensMatchJobs`, `NeverTopEmpty`, `Accounting`, `UrlTokens`: the bookkeeping of the queues. `NoEarlyStop`, `WorkerNotStranded`: the stopping. `PoolServes`, `Quiescent`: the shutdown. `CrawledOnce`: the graph. `SiteSpec`: the refinement, and with it the limit of the vertex array. |
| `crawl_complete` | the same, with a limit never reached, pages of two kinds, `malloc` not failing, and fairness | `Complete`: nothing known is left unasked, no page recorded is left with links not followed. `Termination` |
| `lost_push` | 1 thread, no limit, a push may fail, fairness | violated: a page that `queue_push` drops is counted and posted, and `do_work` waits for ever |
| `fetch` | buffer 2, `recv` of at most 2, pages to 9 | `InsideBuffer`, `SocketBalance`, `BodyBalance`, `JobSpec`, `JobEnds` |
| `fetch_timeout` | the same, smaller | violated: a page is given up at its first receive timeout |
| `queue` | 1 producer, 2 consumers, 1 reader; or 2 producers whose `malloc` may fail, 1 checker, 1 reader; 3 nodes, 2 elements | `Linked`, `LiveNodes`, `FifoSpec` for the job queue and the URL queue |
| `reports` | 3 URLs, any 3 insertions of pages of at most 2 links, any edges missing | `GraphConsistent`, `InfoKept`: the graph. `FilesAgree`, `TopRanked`, `RankMonotone`, `RankEnds`: the reports |
| `dict` | 3 keys in one of 2 buckets, 2 values, 2 readers, 4 addresses, `malloc` may fail; each key inserted once with readers about, or any calls one by one | `ChainsSound`, `NoStrayRead`, `NothingLost`, `KeyValueSpec` |
| `filter` | pages of at most 3 links of 5 kinds, all pairs of hash functions to 0..2, `malloc` may fail | `KeptOnce`, `LostOnlyByCollision`, `Filtered` |
| `page` | URLs of at most 4 of 11 pieces; pages of at most 4 of 16 pieces on one URL; links of at most 3 of 8 pieces on five other URLs | `OwnHref`, `AnchorsFound`, `Resolved`: the links of a page. `UrlSplit`, `SameSite`: their URLs |
| `url_colon` | the same, shorter | violated: a URL with a colon in its path is not recognised |
| `list` | 3 nodes, 2 elements, any calls, `malloc` may fail | `ListSpec`, which includes that clearing ends, as far as no element was overwritten |

**The bounds.** Two threads are the fewest that interleave with each other and
with `do_work`; a third adds only another of the same kind. Three URLs give a
page with two links, of which one is new, one is itself or the seed, so that the
tests of `in` go both ways; pages without links end branches. `VertexMax = 2`
lets the limit be reached with a page left in `urlqueue` and jobs still running;
`VertexMax = 10` is never reached. `crawl_complete` has no symmetry and
fewer kinds of page, for the sake of liveness checking, and no failing `malloc`, with which the
crawl need not end, as `lost_push` shows. That a crawl which the full graph stops comes to its
end is not checked as liveness: `PoolServes` says that its exit jobs are neither too few nor too
early. No run of the crawl lets `list_push_back` fail, which has too many states: the
graph with edges missing is checked in `reports`, and that it changes nothing else in the crawl
is what `SiteSpec`, `Complete` and the others, proved for any failing functions, say.
In `Fetch` the page limit allows the buffer to double
twice, to exactly full and beyond; `Limit = BodyDefault` is the tightest
relation the assumption allows (the code has 4096 and 819200). Three nodes allow
a list of two while a third is being linked or freed, and addresses to be reused.
`Dict` has chains of three, so that an element is first, in the middle or last
when it is taken out, and `MaxSize` stops the counting of replacements. Three links with
hashes to 2 let a third collide with two others together, which is how a Bloom
filter errs. The pieces of a page are fragments of anchors, whole and broken
off at every place that matters, a "hhref", and paths that climb as far as the URL goes and
farther; four allow a broken anchor before a whole one.
Links of pages have fragments too: the delimiters of a URL, dots and a digit, in any order;
each is put behind a URL with one slash, with a colon and no port, with a slash in its
search, without a path, and with a port. `Letters` and `Digits` name the characters there are of each kind.
`MaxItems` and `Room` bound the tokens and pushes in flight of `TsQueue`. Three nodes
let `List` insert and erase in the middle as well as at both ends, and be full.

In `reports` three insertions make three vertices, or fewer with a URL that stays
without one, cycles, pages without links, and a page inserted again with
other links. A page's links come in one order, and `printWebg` waits until every
URL known has been marked, so that states that no report can tell apart are not told
apart. The code's rate of one in ten thousand is less than the rounding of whole
`Scale`-ths, so `Rate` is 10 of 1000: the run shows that the rounds come to rest at
a coarser threshold than the code's, not how many the code needs.
`RankMonotone` tolerates one `Scale`-th a vertex. `Top = 2` is less than three
vertices and more than one, as ten may be in the code.

**Fairness.** `Termination` assumes that `main`, `do_work`, and each pool
thread (in the pool's loop and in the crawl) go on when they can: the
scheduler of the threads, no more. It is weak: a wait on a semaphore is only
promised to end if the semaphore stays positive, and TLC finds that this is
enough. That a fetch ends is in the model, every call in `Fetch` being one that
returns: `recv` has a timeout of ten seconds, a page has an end
(`MaxPage`), and `connect` is bounded by the operating system. `JobEnds` assumes
weak fairness of the job's thread. Nothing is assumed of what the network answers.
`RankEnds` and the end of `list_clear` (in `ListSpec`) assume that a
loop that can go round does: of each only the loop's own action is fair.

Type invariants are called `TypeOK` (in `FilterLinks`, `FilterTypes`). Of the runs only `crawl_limits` checks it by
itself; in the other modules it is a conjunct of a property that could not be
evaluated without it (`BodyBalance`, `Linked`, `ChainsSound`, `Filtered`, `Resolved`). `WebGraph`,
`Reports` and `List` have none: a variable out of its type would not survive
`GraphConsistent`, `FilesAgree` or the refinement.

`reports` runs without deadlock checking, as it ends; so do `crawl_limits` and `lost_push`,
where the program may really stop for good with `do_work` waiting, which `WorkerNotStranded`
allows only after a push has failed. The others have explicit final steps instead, or
never stop, and are checked for deadlock.

### What the runs found

* `http_do_get` gives up at the first `recv` that times out, and
  `do_crawler` does not try the page again. The comment in the function
  ("send or recv timeout more than 3 times will stop") describes neither this
  function nor its caller; the retries for `CRAWLER_TIMEOUT` are never reached.
* `http_url_parse_s` takes any colon after the scheme for that of a port, so that
  a URL without a port and with a colon in its path is not recognised and
  not fetched, where the grammar in `http_url.h` and `_check_path` let the colon through.
* A page that `queue_push` drops is counted in `global_lock` and posted all the same
  ("push urlqueue need post work to deal it"): `do_work` finds `urlqueue` empty, the counter
  never falls to 0, and unless the vertex limit stops the crawl `do_work` waits for ever, and `main`
  with it. `Accounting`, `WorkerNotStranded`, `NoEarlyStop` and `Quiescent` say what is left
  true: the counter is too high by what was dropped, never too low, so that the crawl may hang
  but does not stop early. A job dropped by `main` or `do_work` leaves a post behind, and
  the thread that takes it when `job_queue` is empty follows NULL, which ends the program.

Also at odds with what the repository says, with no run of their own; the passing runs check what
the code does instead:

* `check` compares a link with the domain only if it is at least as long: a
  shorter link to another site that ends in ".htm" or ".html" is crawled, where the comment in
  `filter` says "only crawl local link".
* `http_url_parse_s` recognises much that the grammar does not have: the empty string, an empty
  host or one without a dot, any letters and digits for a protocol or none, an empty
  port, a "%" in the path, any search. `UrlSplit` says what it does
  recognise (`Readable`), against what the grammar has (`Grammatical`).
* `list_push_front` on an empty list leaves `tail` at the meta node: the next `list_push_back`
  overwrites the element while the length counts it, and `list_clear` does not end, where
  `list.h` says that it removes all elements. The program pushes at the back only. `ListSpec` says that
  no other order of calls loses an element (`end = "lost"`).
* `list_index_of` of an empty list and `queue_front` of an empty queue answer an offset from
  `NULL`, which is not `NULL`, where `list.h` and `queue.h` say NULL; `tsqueue_unittest.c`
  tests for NULL before it prints what `ts_queue_front` answers. The program calls neither.

Also seen, with nothing in the repository that says otherwise; what can be
reached is listed under `hazards`:

* A link that `list_push_back` drops in `filter` sets its bits all the same, so that it takes
  others with it (`LostOnlyByCollision`), and it has no further chance if the page has it again.
* An edge that `list_push_back` drops is missing in the graph while its link is followed
  (`FollowLink` of `SiteCrawl`).
* `open_tcp` leaves its socket open when it fails, which `SocketBalance` bounds by
  three a job.
* A failed `realloc` leaves the old buffer, which is the only way one is left; and
  a page that came in but was not pushed leaves its URL and its list (`BodyBalance`).
* `gen_ind_cdf` has room for one counter less than it may use: `FilesAgree` shows
  that index `vertex_size` suffices (if no page is inserted twice), and that every line
  before it is right; it is reached when every page links to one of them.
* A page that fits its buffer exactly has no room for the zero put behind it.
* The parser passes over the character a tag breaks off at, so that it misses
  the anchor in "<<a", and one whose href follows an "h" ("hhref"):
  `AnchorsFound` says which it does not miss.
* A link that begins with a slash is put behind the page's directory, not the
  site's root; and of a page whose URL has no path, "http://h", the link "y"
  becomes "http://y"; and of "x:/y", a URL without a scheme whose port is empty, the
  link "/z" becomes "x://z", the site "z". `SameSite` says which links stay on the site: the
  last of these was met when it could not be proved without its third condition.
* `main` does not look whether its seed was recognised; the crawl then ends with nothing fetched.

## What is proved

All theorems are of `Spec` without fairness, for any finite set of threads or clients, any
set of URLs and of pages, any limit or size, from the named assumptions of the modules
only. In each, a named invariant is shown to hold at first and to be kept by every
action, one step an action, and the properties follow from it.

* **The stopping of the crawl** (`CrawlerProofs`). `TypeCorrect` (`TypeOK`) is from
  `TypeInv`, which adds that a thread fetching has an attempt left and a URL to fetch,
  and that an exit job is posted only while one is due. The rest is from one inductive
  invariant, `StopInv`, none of whose parts is inductive alone:
  * `TokensAlwaysMatch` (`TokensMatchJobs`): jobs in the queue + jobs dropped = tokens
    + threads that took one + clients between set and post. `TopIsSafe`
    (`NeverTopEmpty`, of the pool's threads if no job was dropped) needs it, together with
    the fact that only `do_work` takes
    from `urlqueue`, so that a size it has read can only have grown.
  * `LockCounts` (`Accounting`): `global_lock` = crawl jobs waiting
    and running + pages waiting and in `do_work` + jobs and pages dropped, corrected for the
    actors between a push and its increase. It is a sum of cardinalities; the lemmas
    `Account...` say how each action moves one thread or job between them, on top
    of `AtMoves`, `AtKept`, `JobsAppend`, `JobsTail` about the sets themselves.
  * `PagesAnnounced` (`UrlTokens`): each page in `urlqueue` has a token of
    `work_sem`, taken, there or to come.
  * `LockMeansWork`: if the counter is not 0 when `do_work` is about to
    wait, some thread or job will post, a token is there, or something was dropped.
    `LossStays`: what was dropped is never forgotten, so that the counter stays above 0.
  * From these `StopsInTime` (`NoEarlyStop`) and `WorkerIsWoken`
    (`WorkerNotStranded`): `do_work` does not stop early, a failed push included, nor sleep through
    the end unless a push has failed. The window between the test of `global_lock` and the wait is covered
    because every decrease is followed by a post from the same thread.
  * `TableIsBounded` (`TableBound`, which no run checks by itself, as `SiteSpec` includes
    it): the loop's test is enough for the array, as one round inserts at most one vertex.
* **The shutdown** (`CrawlerProofs`), from `StopInv` and `PoolInv`: a thread's `idle`
  flag says where it is (`FlagInv`); exit jobs stand behind all crawl jobs and, waiting,
  dropped or taken, are as many as `do_work` has set (`ExitsLast`, `ExitsCounted`); once one
  is taken no crawl job is left (`LeavingLast`); `thread_idle` counts the threads not
  running a job (`IdleCounted`). `PoolAlwaysServes` (`PoolServes`): no thread leaves before
  `do_work` stops the pool, and of the exit jobs there are never more than threads, none before
  that and one a thread when `do_work` has returned. `PoolEndsQuiet` (`Quiescent`): when
  everybody is joined there is no job, no token but those of jobs dropped, every thread counts
  as idle, and `global_lock` is what the full graph left in `urlqueue` and what was dropped. That
  there are as many exit jobs as threads is a count, so both compare cardinalities of
  the threads gone and the jobs left.
* **The graph of the crawl** (`CrawlerProofs`, on the lemmas of `WebGraphProofs` on
  what `insert_edge` and a mark do to `vertex_dict` and `vertex`), from `GraphInv`:
  * `CrawlConsistent` (`GraphConsistent`): `vertex_dict` and `vertex` are inverse to each
    other, whatever page is inserted and whichever URL is marked.
  * `CrawlsOnce` (`CrawledOnce`) is from `Once`: a URL has at most one place among the jobs
    waiting or dropped, the threads crawling it, the pages waiting or dropped, `do_work`'s hands
    and the vertices.
    Its place only moves, and it is given one only when it is marked for the first
    time (`AskedOnly`).
  * `CrawlIsComplete` (`Complete`) needs `Followed`: unless `do_work` lacks memory for a job, below the limit, a URL known and
    not marked is one of those `do_work`'s iterator has yet to come to.
  * `CrawlImplementsSite` (`SiteSpec`): every step of every thread is a step of `SiteCrawl`
    or changes nothing of what it shows. A link is asked for only of a page recorded because
    those that `do_work` goes through are links of the page it has just inserted (`InHand`).
* **The fetch** (`FetchProofs`), for any sizes with `Limit <= BodyDefault`, from `FetchInv`:
  * `PageFits` (`InsideBuffer`): a page never runs over its buffer.
    It needs that the buffer never gets smaller than its first size (`Grown`), so
    that doubling adds at least what one `recv` brings; this is where
    `Limit <= BodyDefault` is used.
  * `SocketsBounded` (`SocketBalance`): an attempt that counts as `Online` has
    its own socket, and one counted down may have left one (`SocketInv`).
  * `MemoryBounded` (`BodyBalance`): `enti_body.len` tells whether there is a buffer,
    but for the one a failed `realloc` left; and after that answer there is no
    further attempt, so there is never a second (`HeapInv`, `KeptInv`).
  * `JobIsCrawlJob` (`JobSpec`): `Fetch` implements `CrawlJob`, whose two ends and three
    attempts are what `Crawler` makes of a fetch. It needs of `FetchInv` that
    an attempt is only begun with one left.
* **The filter** (`PageProofs`). `NoneTwice` (`KeptOnce`) and `LostByCollision`
  (`LostOnlyByCollision`), from `FilterInv`: the bits that are set are those of
  the links kept and of those that found no memory, but for the one just handed to
  `list_push_back` (`Settled`, `LastIsHere`), and cover each link gone by. A link is appended
  only with a bit none of the others has, so it is none of them. Nothing is assumed of the
  hash functions or their number.
  `AnswersRight` (`Filtered`), from `AnswerInv`: the list so far is the page's
  links at increasing positions, each of which passes `check`.
* **The links of a page** (`PageProofs`), for any page and any URL, from `PageInv`. The
  functions that `_search_root` is modelled by, and the one that says what the
  anchors of a page are, are recursive; each is shown to be the function its equation
  says, and to have a property (`SkipRight`, `PrefixRight`, `AnchorRight`), by taking
  the least argument at which it would not (`LeastNumber`). The invariant has what the machine
  knows in each state: which pointers are set (`PointersInv`), what it has read of the tag
  (`TagInv`) and of the href (`HrefInv`: from the "h" to where it is, with the value begun at
  `ls`); that each link collected is in an anchor of its own that has ended (`LinksInv`); and how
  far the first href of every anchor of the page has been read (`ProgressInv`).
  `TagStep`, `LinksStep` and `ProgressStep` are one for each of these, a step an action.
  * `PagesLinks` (`OwnHref`) is `LinksInv` when the page has been read, `LinksFound`
    (`AnchorsFound`) is `ProgressInv` then. That an anchor is not passed over needs that at its
    "<" the machine is in no tag (`NotInTag`), which is what `PassedOver` leaves.
  * `LinksResolved` (`Resolved`): what is pushed is what `Absolute` makes of the link
    (`LinksInv`), and `AbsoluteRight` says what that is: the "../" skipped and
    the slashes gone back over are as many, both counted as sets of places.
* **The URLs** (`PageProofs`), for any URL, letters and digits. `Cuts` says at which places
  `http_url_parse_s` cuts a URL, without mentioning what is left of it: each is the first of
  its kind from the one before on. There is one such cut and the parser finds it
  (`ParseIs`, `CutsUnique`), by `CutOff`, which is about one delimiter.
  * `UrlsSplit` (`UrlSplit`): a cut is a reading with the characters tested for if it passes
    the tests (`CutsReadable`); such a reading, with the colons where the property has them,
    is a cut (`ReadableCuts`), as no delimiter is among the characters of the parts before it;
    and a reading by the grammar of `http_url.h` is one of these (`GrammaticalReadable`).
  * `LinksSameSite` (`SameSite`): the link's URL is the page's up to a slash of its path,
    because what is left of the page's URL has fewer slashes than its path
    (`WithinPath`); and a URL that is another's up to there is cut at the same places (`SameCut`).

  `InputsAssumption` says that a URL and a page are sequences of characters,
  `CharactersAssumption` that ":", "/" and "?" are no letters or digits.
* **The reports** (`ReportsProofs`). `GraphStaysConsistent` (`GraphConsistent`) and
  `NothingForgotten` (`InfoKept`) are those of any sequence of insertions, pages inserted
  again and all. `IndegreesInArray` (`[]IndegreesFit`, a conjunct of `FilesAgree`): if no page
  was inserted twice, an indegree is at most `vertex_size`, because a vertex's edge list
  has no URL twice and no vertex is counted twice. `PagesAssumption`, that a page's links
  differ, is what `filter` answers (`KeptOnce`); so do the edges stored of them (`StoredDiffer`). The three that follow are from `ReportInv`: besides
  the graph's own invariant, that the degrees are those of the graph (`DegreesOfGraph`), the
  ranks are what the rounds so far make of them (`RanksOfGraph`), and each file says what its
  pass has found (`FilesOfGraph`).
  * `ReportsAgree` (`FilesAgree`): the five passes walk the edge lists each in its own way,
    so each is brought to a count of the same edges. Their recursive functions are shown to
    be sums over sets, by the least set or number for which they would not be.
  * `RanksMonotone` (`RankMonotone`): each round scales the ranks to a sum of 1.0 but for
    what is rounded off, so that in the next the part every vertex is given does not come to
    nothing; and a vertex that has as many links from every other vertex as another has
    gets no less than that one (`SumByFirst`). `ScaleAssumption`, that `Scale` is large
    against the vertices, says no more than that the fixed point is fine enough for a part of a
    rank to be seen; the code has doubles.
  * `TopIsRanked` (`TopRanked`): the merge sort leaves a list in order, though its comparisons
    answer 1 and 0 only, and with the same elements; so its first ones are the best.
* **The queue** (`TsQueueProofs`), for any number of clients, nodes and elements, from `Inv`:
  one call has the mutex (`Exclusive`), a client asks before it takes (`Disciplined`, `TokensFor`,
  `CheckedFor`), and there is a sequence of nodes which is the list (`Shape`: each points to
  the next, the last to NULL, `tail` to the last; what the call in progress has unlinked
  or not yet linked is accounted for by its program counter). The sequence is the
  witness for everything else.
  * `LiveNodesHeld` (`LiveNodes`): only allocated nodes are read, written or freed.
  * `QueueLinked` (`Linked`): between calls the walk from the meta node is that sequence. `Linked`
    walks by a recursive function; that it agrees with the sequence
    is proved by taking the least index at which it would not.
  * `QueueIsFifo` (`FifoSpec`): `TsQueue` implements `Fifo`, step by step.

  `ClientsAssumption` says that addresses and clients are finite and told apart, and that
  nobody both pushes to a queue and takes from it: in the program `job_queue` is filled by
  `main` and `do_work` and emptied by the pool, `urlqueue` is filled by the pool and emptied by
  `do_work`.

* **The dictionary** (`DictProofs`), for any keys, values, buckets, addresses and readers,
  from `Inv`: for each bucket there is a sequence of nodes that its chain is (`ChainOf`), and
  around it every call in progress is where it is. `WriterOn` says what the walk of
  `_bucket_remove` has passed, and that once an element is taken out, or none was there,
  its key is in no chain until `Publish`; `ElementOn` what is written of the new element, which nobody
  else knows; `Reading` that a reader is at a place of its key's chain; `Modes` who is
  about at all; `Sized` that a bucket counts at least what its chain has, but for the element at the
  head before `Count`; `Kept` that what is allocated is in a chain or in hand.
  * `ChainsStaySound` (`ChainsSound`), `ReadersStayOn` (`NoStrayRead`) and `NoneLost`
    (`NothingLost`) are read off it. That an unlocked reader is never overtaken by a `free`
    is `WriterOn`'s `shared => pc # "free"`: with readers about a key is inserted
    only when it is not there, so nothing is taken out.
    `NoneLost` rests on `Sized`: `dict_destroy` stops at a size of 0.
  * `DictIsKeyValue` (`KeyValueSpec`): `Dict` implements `KeyValue`, step by step.
    `Unlink` and `Publish` are the two that change the content; every other step leaves what
    `Lookup` finds from each bucket and from each reader's place (`LookupMoves`).
    A replacement is one change, at `Unlink`, though for a while no chain has its key.

  `DictAssumption` and `CallsAssumption` say that addresses are finitely many, that there is a
  bucket, and that what has a name of its own is told apart.
* **The list** (`ListProofs`), for any elements and addresses and any calls: `ListImplements`
  (`SequenceUnlessLost`, which is `ListSpec` without the end of `list_clear`) from `Inv`: unless
  an element was overwritten (`end = "lost"`) there is the sequence of nodes again (`Shape`),
  with `tail` at its end, or at the meta node if it is "behind". `InsertStep` and `EraseStep` say
  that a call puts one node into it, or takes one out, at the call's index, and what `tail` does;
  `NoMisstep` that no call writes where no node is; `IndexOfAnswers` that a look-up finds
  the sequence's element; `ChainIs` that an iteration meets just that sequence.
  `ListAssumption` says that addresses are finite and the meta node is none of `malloc`'s.

Only model-checked:

* `Termination`, `JobEnds` and `RankEnds`, and in `ListSpec` that `list_clear` ends: liveness
  under fairness is out of the prover's reach. Of `ListSpec` the rest is proved.
* The three properties that a run shows violated.

The library's induction theorems take an operator, which none of the installed provers can
instantiate. What recursive functions compute is therefore proved by a least counterexample,
from `WFMin` (a well-founded order has minimal elements); for that they are functions here, not
RECURSIVE operators.

## What is not modelled, and why

* Printing, the layout of the files, the statistics of `printThreadInfo`: output only.
  That a report's file cannot be opened, or its `malloc` fails, only leaves the report out.
* `recv_line`, `http_protocol.c`'s headers, `thread_counter_compare`, the
  regular-expression extractors of links and parser of URLs: never called by the program.
* The unit tests, which call the parts and say what they expect.
* Failures that leave nothing to model: a pool thread that cannot be created is joined through an
  uninitialised handle; `dict_insert` without memory answers NULL, which `insert_edge` follows
  (`InsertCrash` stands for it in the crawl); after the SIGPIPE of a `send` to a closed
  connection the process is gone.
* A failing push in the same run as consumers of `TsQueue`: a token without an element is
  `Crash` of `Crawler`.
* The functions of `hash.c`, of which only the collisions matter; lengths near the
  4096 characters of the parser's buffer or the sizes of the fields of a URL.
* Doubles: ranks are in fixed point, so the code's last digits are not shown.

## What could be added

1. A page from `recv` to the list in one piece: `PageLinks` and `FilterLinks` composed, with the
   link list of one the input of the other.
2. The queues inside the crawl: `TsQueue` in place of the sequences of `ThreadPool`, which
   `FifoSpec` now stands for.
3. Liveness, when a prover for it is at hand: `Termination` from `NoEarlyStop`,
   `WorkerNotStranded` and `PoolServes`, which say that whoever waits is owed a token.
