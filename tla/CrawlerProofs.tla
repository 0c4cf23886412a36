--------------------------- MODULE CrawlerProofs ---------------------------
(***************************************************************************)
(* What TLAPS proves of Crawler, for any number of threads, any pages, any *)
(* limit and whatever memory fails: its variables keep their types, posts  *)
(* match jobs, and the counter global_lock is what do_work takes it for,   *)
(* so that the crawl does not stop early and leaves do_work waiting only   *)
(* after a page or a job was dropped.  And the pool: no thread leaves      *)
(* before do_work stops it, there is at most one exit job a thread and     *)
(* none in front of a crawl job, and main joins a pool with no job left.   *)
(* And the graph: a URL is in one place at a time and gets one vertex, and *)
(* the crawl implements SiteCrawl.                                         *)
(***************************************************************************)
EXTENDS Crawler, WebGraphProofs, FiniteSetTheorems

USE DEF poolVars, queueVars, doneVars, graphVars, mainVars, workVars, urlVars, sharedVars

-----------------------------------------------------------------------------
(* The steps, with those that change no variable but killed put apart.     *)

Working ==
    \/ Check \/ WaitWork \/ Size \/ Top \/ Insert \/ Skip \/ Ask \/ AskNoMemory
    \/ AskIncrease \/ AskPost \/ Done \/ SetExit \/ PostExit \/ Return

Still ==
    /\ UNCHANGED <<poolVars, graphVars, mpc, seeded, workVars, sharedVars, timeout>>
    /\ killed' \in {killed, TRUE}

\* Every step is one of main, of do_work or of a thread, or changes nothing
\* but whether the process is there.
LEMMA Moves ==
    [Next]_vars => Main \/ Working \/ (\E t \in Threads : Pool(t) \/ Crawl(t)) \/ Still
  <1> SUFFICES ASSUME [Next]_vars
               PROVE  Main \/ Working \/ (\E t \in Threads : Pool(t) \/ Crawl(t)) \/ Still
    OBVIOUS
  <1>1. CASE Main \/ Work \/ \E t \in Threads : Thread(t)
    BY <1>1 DEF Work, Working, InsertCrash, Thread, Crash, Still
  <1>2. CASE UNCHANGED vars
    BY <1>2 DEF vars, Still
  <1> QED  BY <1>1, <1>2 DEF Next, Terminated

-----------------------------------------------------------------------------
(* Types. *)

(* TypeOK is not inductive: that a URL is fetched, an attempt left or an   *)
(* exit job still to post depends on where the thread is.                  *)
TypeInv ==
    /\ TypeOK
    /\ \A t \in Threads : tpc[t] = "crawl" => timeout[t] > 0
    /\ \A t \in Threads : tpc[t] \in Crawls => job[t] # Exit
    /\ wpc = "exitpost" => exits < Cardinality(Threads)

\* The number of threads is a natural number.
LEMMA ThreadCount == Cardinality(Threads) \in Nat
  BY ThreadsAssumption, FS_CardinalityType

\* The graph has the types its own lemmas ask for.
LEMMA GraphTyped == TypeOK => GraphTypes
  BY DEF TypeOK, GraphTypes, Info, Vertex

\* The edges stored of a page lead where its links do, and are the links when
\* no memory fails.
LEMMA EdgesStored ==
    ASSUME NEW links \in Seq(Urls), NEW edges \in Edges(links)
    PROVE  /\ edges \in Stored(links)
           /\ "list_push_back" \notin AllocFails => edges = links
  <1>1. CASE "list_push_back" \in AllocFails
    BY <1>1 DEF Edges
  <1>2. CASE "list_push_back" \notin AllocFails
    BY <1>2, StoredWhole DEF Edges
  <1> QED  BY <1>1, <1>2

\* Types hold at the start.
LEMMA TypeInit == Init => TypeInv
  <1> SUFFICES ASSUME Init PROVE TypeInv
    OBVIOUS
  <1> USE UrlsAssumption, ThreadCount DEF Init, Crawls, Recording, Stopping
  <1>1. Known \subseteq Urls /\ vertex_dict \in [Known -> [vid : Int, in : BOOLEAN]]
    BY DEF WebGraphInit, Known
  <1>2. /\ job_queue \in Seq(Urls \cup {Exit}) /\ jobs_lost \in Seq(Urls \cup {Exit})
        /\ pages_lost \in Seq(Urls) /\ urlqueue \in Seq([url : Urls, link_url : Seq(Urls)])
        /\ vertex \in Seq([addr : Urls, edge : Seq(Urls)]) /\ rest \in Seq(Urls)
    BY EmptySeq DEF PoolInit, WebGraphInit
  <1>3. link_info \in [url : Urls, link_url : Seq(Urls)]
    BY EmptySeq
  <1>4. timeout \in [Threads -> 0..Attempts] /\ thread_idle \in Int
    BY DEF PoolInit, Attempts
  <1>5. /\ idle \in [Threads -> {"IDLE", "BUSY"}]
        /\ tpc \in [Threads -> {"start", "test", "wait", "get", "run", "signal", "end", "gone"} \cup Crawls]
        /\ job \in [Threads -> Urls \cup {Exit}]
    BY DEF PoolInit
  <1>6. TypeOK
    <2>1. global_lock \in Int /\ work_sem \in Nat
      OBVIOUS
    <2>2. exits \in 0..Cardinality(Threads)
      OBVIOUS
    <2>3. seeded \in BOOLEAN /\ killed \in BOOLEAN
      BY Zenon
    <2>4. job_sem \in Nat /\ job_done \in Nat
      BY DEF PoolInit
    <2>5. mpc = "seed" /\ wpc = "off"
      OBVIOUS
    <2> HIDE DEF Init
    <2> QED  BY <1>1, <1>2, <1>3, <1>4, <1>5, <2>1, <2>2, <2>3, <2>4, <2>5 DEF TypeOK
  <1> QED  BY <1>6 DEF PoolInit, TypeInv

\* A job set is in the queue, or dropped.
LEMMA SetJobType ==
    ASSUME TypeOK, NEW j \in Urls \cup {Exit}, SetJob(j)
    PROVE  job_queue' \in Seq(Urls \cup {Exit}) /\ jobs_lost' \in Seq(Urls \cup {Exit})
  <1>1. job_queue \in Seq(Urls \cup {Exit}) /\ jobs_lost \in Seq(Urls \cup {Exit})
    BY DEF TypeOK
  <1>2. Append(job_queue, j) \in Seq(Urls \cup {Exit}) /\ Append(jobs_lost, j) \in Seq(Urls \cup {Exit})
    BY <1>1, AppendProperties
  <1> QED  BY <1>1, <1>2 DEF SetJob

\* Types hold after a step of main.
LEMMA TypeMain == TypeInv /\ Main => TypeInv'
  <1> SUFFICES ASSUME TypeInv, Main PROVE TypeInv'
    OBVIOUS
  <1> USE UrlsAssumption, ThreadCount
      DEF TypeInv, TypeOK, Known, Attempts, Crawls, Recording, Stopping, MainGoto
  <1>1. CASE SeedSet
    <2>1. job_queue' \in Seq(Urls \cup {Exit}) /\ jobs_lost' \in Seq(Urls \cup {Exit})
      BY <1>1, SetJobType DEF SeedSet
    <2> QED  BY <1>1, <2>1 DEF SeedSet
  <1>2. CASE SeedNoMemory
    BY <1>2 DEF SeedNoMemory
  <1>3. CASE SeedIncrease
    BY SMTT(30), <1>3 DEF SeedIncrease, Increase
  <1>4. CASE SeedPost
    BY SMTT(30), <1>4 DEF SeedPost, PostJob
  <1>5. CASE CreateWorker
    BY <1>5 DEF CreateWorker
  <1>6. CASE CreateFails
    BY <1>6 DEF CreateFails
  <1>7. CASE JoinWorker
    BY <1>7 DEF JoinWorker
  <1>8. CASE JoinPool
    BY <1>8 DEF JoinPool
  <1> QED  BY <1>1, <1>2, <1>3, <1>4, <1>5, <1>6, <1>7, <1>8 DEF Main

\* Types hold after a step of do_work.
LEMMA TypeWork == TypeInv /\ Working => TypeInv'
  <1> SUFFICES ASSUME TypeInv, Working PROVE TypeInv'
    OBVIOUS
  <1> USE UrlsAssumption, ThreadCount
      DEF TypeInv, TypeOK, Known, Attempts, Crawls, Recording, Stopping, WorkGoto
  <1>1. CASE Check
    BY <1>1 DEF Check
  <1>2. CASE WaitWork
    BY SMTT(30), <1>2 DEF WaitWork
  <1>3. CASE Size
    BY <1>3 DEF Size
  <1>4. CASE Top
    <2>1. Head(urlqueue) \in [url : Urls, link_url : Seq(Urls)] /\ Tail(urlqueue) \in Seq([url : Urls, link_url : Seq(Urls)])
      BY <1>4, HeadTailProperties DEF Top
    <2> QED  BY <1>4, <2>1 DEF Top
  <1>5. CASE Insert
    <2>1. PICK edges \in Edges(link_info.link_url) : InsertEdge(link_info.url, link_info.link_url, edges)
      BY <1>5 DEF Insert
    <2>2. link_info.url \in Urls /\ link_info.link_url \in Seq(Urls) /\ edges \in Stored(link_info.link_url)
      BY EdgesStored
    <2>3. /\ Known' \subseteq Urls
          /\ vertex_dict' \in [Known' -> [vid : Int, in : BOOLEAN]]
          /\ vertex' \in Seq([addr : Urls, edge : Seq(Urls)])
      <3>1. GraphTypes
        BY GraphTyped
      <3> QED  BY <2>1, <2>2, <3>1, InsertEdgeType DEF GraphTypes, Info, Vertex
    <2> QED  BY <1>5, <2>2, <2>3 DEF Insert
  <1>6. CASE Skip
    <2>1. Head(rest) \in Urls /\ Tail(rest) \in Seq(Urls)
      BY <1>6, HeadTailProperties DEF Skip
    <2> QED  BY <1>6, <2>1 DEF Skip
  <1>7. CASE Ask
    <2>1. Head(rest) \in Urls /\ Tail(rest) \in Seq(Urls)
      BY <1>7, HeadTailProperties DEF Ask
    <2>2. job_queue' \in Seq(Urls \cup {Exit}) /\ jobs_lost' \in Seq(Urls \cup {Exit})
      BY <1>7, <2>1, SetJobType DEF Ask
    <2>3. Known' = Known /\ vertex_dict' \in [Known -> [vid : Int, in : BOOLEAN]]
      BY ZenonT(30), <1>7 DEF Ask, MarkAsked
    <2> QED  BY <1>7, <2>1, <2>2, <2>3 DEF Ask
  <1>8. CASE AskNoMemory
    <2>1. Head(rest) \in Urls /\ Tail(rest) \in Seq(Urls)
      BY <1>8, HeadTailProperties DEF AskNoMemory
    <2> QED  BY <1>8, <2>1 DEF AskNoMemory
  <1>9. CASE AskIncrease
    BY SMTT(30), <1>9 DEF AskIncrease, Increase
  <1>10. CASE AskPost
    BY SMTT(30), <1>10 DEF AskPost, PostJob
  <1>11. CASE Done
    BY <1>11 DEF Done, Decrease
  <1>12. CASE SetExit
    <2>1. job_queue' \in Seq(Urls \cup {Exit}) /\ jobs_lost' \in Seq(Urls \cup {Exit})
      BY <1>12, SetJobType DEF SetExit
    <2> QED  BY <1>12, <2>1 DEF SetExit
  <1>13. CASE PostExit
    BY SMTT(30), <1>13 DEF PostExit, PostJob
  <1>14. CASE Return
    BY <1>14 DEF Return
  <1> QED  BY <1>1, <1>2, <1>3, <1>4, <1>5, <1>6, <1>7, <1>8, <1>9, <1>10, <1>11, <1>12, <1>13, <1>14 DEF Working

\* Types hold after a step of the pool.
LEMMA TypePool == TypeInv /\ (\E t \in Threads : Pool(t)) => TypeInv'
  <1> SUFFICES ASSUME TypeInv, NEW t \in Threads, Pool(t) PROVE TypeInv'
    OBVIOUS
  <1> USE UrlsAssumption, ThreadCount
      DEF TypeInv, TypeOK, Known, Attempts, Crawls, Recording, Stopping, Goto, Pool
  <1>1. CASE Start(t)
    BY <1>1 DEF Start
  <1>2. CASE Test(t)
    BY <1>2 DEF Test
  <1>3. CASE WaitJob(t)
    BY SMTT(30), <1>3 DEF WaitJob
  <1>4. CASE GetJob(t)
    <2>1. Head(job_queue) \in Urls \cup {Exit} /\ Tail(job_queue) \in Seq(Urls \cup {Exit})
      BY <1>4, HeadTailProperties DEF GetJob
    <2>2. job_queue' \in Seq(Urls \cup {Exit}) /\ job' \in [Threads -> Urls \cup {Exit}]
      BY <1>4, <2>1 DEF GetJob
    <2>3. tpc' \in [Threads -> {"start", "test", "wait", "get", "run", "signal", "end", "gone"} \cup Crawls]
      BY <1>4 DEF GetJob
    <2>4. thread_idle' \in Int
      BY <1>4 DEF GetJob
    <2>5. UNCHANGED <<job_sem, jobs_lost, idle, job_done, vertex_dict, vertex, mpc, seeded, killed, wpc, link_info, rest, exits, urlqueue, pages_lost, work_sem, global_lock, timeout>>
      BY <1>4 DEF GetJob
    <2>6. TypeOK'
      BY <2>2, <2>3, <2>4, <2>5
    <2>7. \A u \in Threads : (tpc'[u] = "crawl" => tpc[u] = "crawl") /\ (tpc'[u] \in Crawls => tpc[u] \in Crawls /\ job'[u] = job[u])
      BY <1>4 DEF GetJob
    <2> QED  BY <1>4, <2>6, <2>7 DEF GetJob
  <1>5. CASE DoExit(t)
    BY <1>5 DEF DoExit
  <1>6. CASE Finish(t)
    BY SMTT(30), <1>6 DEF Finish
  <1> QED  BY <1>1, <1>2, <1>3, <1>4, <1>5, <1>6 DEF PoolStep

\* Types hold after a step of do_crawler.
LEMMA TypeCrawl == TypeInv /\ (\E t \in Threads : Crawl(t)) => TypeInv'
  <1> SUFFICES ASSUME TypeInv, NEW t \in Threads, Crawl(t) PROVE TypeInv'
    OBVIOUS
  <1> USE UrlsAssumption, ThreadCount
      DEF TypeInv, TypeOK, Known, Attempts, Crawls, Recording, Stopping, Goto
  <1>1. CASE BeginCrawl(t)
    BY <1>1 DEF BeginCrawl
  <1>2. CASE Fetched(t)
    <2>1. urlqueue' \in Seq([url : Urls, link_url : Seq(Urls)]) /\ pages_lost' \in Seq(Urls)
      <3>1. job[t] \in Urls
        BY <1>2 DEF Fetched
      <3>2. ASSUME NEW links \in Pages, urlqueue' = Append(urlqueue, [url |-> job[t], link_url |-> links]),
                   UNCHANGED pages_lost
            PROVE  urlqueue' \in Seq([url : Urls, link_url : Seq(Urls)]) /\ pages_lost' \in Seq(Urls)
        BY <3>1, <3>2, AppendProperties
      <3>3. CASE pages_lost' = Append(pages_lost, job[t]) /\ UNCHANGED urlqueue
        BY <1>2, <3>1, <3>3, AppendProperties
      <3> QED  BY <1>2, <3>2, <3>3 DEF Fetched
    <2> QED  BY <1>2, <2>1 DEF Fetched
  <1>3. CASE Dropped(t)
    BY <1>3 DEF Dropped
  <1>4. CASE Failed(t)
    BY <1>4 DEF Failed
  <1>5. CASE CountUrl(t)
    BY SMTT(30), <1>5 DEF CountUrl, Increase
  <1>6. CASE PostUrl(t)
    BY SMTT(30), <1>6 DEF PostUrl, PostWork
  <1>7. CASE Release(t)
    BY SMTT(30), <1>7 DEF Release, Decrease
  <1>8. CASE Signal(t)
    BY SMTT(30), <1>8 DEF Signal, PostWork
  <1> QED  BY <1>1, <1>2, <1>3, <1>4, <1>5, <1>6, <1>7, <1>8 DEF Crawl

\* Types hold after any step.
LEMMA TypeStep == TypeInv /\ [Next]_vars => TypeInv'
  <1> SUFFICES ASSUME TypeInv, [Next]_vars PROVE TypeInv'
    OBVIOUS
  <1>1. CASE Main
    BY <1>1, TypeMain
  <1>2. CASE Working
    BY <1>2, TypeWork
  <1>3. CASE \E t \in Threads : Pool(t) \/ Crawl(t)
    BY <1>3, TypePool, TypeCrawl
  <1>4. CASE Still
    <2>1. killed' \in BOOLEAN
      BY <1>4 DEF Still, TypeInv, TypeOK
    <2> QED  BY <1>4, <2>1 DEF Still, TypeInv, TypeOK, Known
  <1> QED  BY <1>1, <1>2, <1>3, <1>4, Moves

\* Every variable of the crawl keeps its type, whatever the number of
\* threads, the pages and the limit.
THEOREM TypeCorrect == Spec => []TypeOK
  <1>1. TypeInv => TypeOK
    BY DEF TypeInv
  <1> QED  BY <1>1, TypeInit, TypeStep, PTL DEF Spec

-----------------------------------------------------------------------------
(* Counting threads and jobs. *)

\* The threads at some labels are finitely many.
LEMMA AtFinite ==
    ASSUME NEW L
    PROVE  IsFiniteSet(At(L)) /\ Count(At(L)) \in Nat
  <1>1. At(L) \subseteq Threads
    BY DEF At
  <1>2. IsFiniteSet(At(L))
    BY <1>1, ThreadsAssumption, FS_Subset
  <1> QED  BY <1>2, FS_CardinalityType DEF Count

\* A thread that goes from one label to another changes the counts of the
\* labels by one.
LEMMA AtMoves ==
    ASSUME TypeOK, NEW t \in Threads, NEW from, NEW to, Goto(t, from, to), NEW L
    PROVE  Count(At(L))' = Count(At(L)) - Bit(from \in L) + Bit(to \in L)
  <1> USE DEF Count, Bit
  <1>1. tpc \in [Threads -> {"start", "test", "wait", "get", "run", "signal", "end", "gone"} \cup Crawls]
    BY DEF TypeOK
  <1>2. \A u \in Threads : tpc'[u] = IF u = t THEN to ELSE tpc[u]
    BY <1>1 DEF Goto
  <1>3. IsFiniteSet(At(L)) /\ Cardinality(At(L)) \in Nat
    BY AtFinite
  <1>4. t \in At(L) <=> from \in L
    BY DEF Goto, At
  <1>5. CASE from \in L /\ to \notin L
    <2>1. At(L)' = At(L) \ {t}
      BY <1>2, <1>5 DEF At
    <2>2. Cardinality(At(L) \ {t}) = Cardinality(At(L)) - 1
      BY <1>3, <1>4, <1>5, FS_RemoveElement
    <2> QED  BY <1>3, <1>5, <2>1, <2>2
  <1>6. CASE from \notin L /\ to \in L
    <2>1. At(L)' = At(L) \cup {t}
      BY <1>2, <1>6 DEF At
    <2>2. Cardinality(At(L) \cup {t}) = Cardinality(At(L)) + 1
      BY <1>3, <1>4, <1>6, FS_AddElement
    <2> QED  BY <1>3, <1>6, <2>1, <2>2
  <1>7. CASE from \in L <=> to \in L
    <2>1. At(L)' = At(L)
      BY <1>2, <1>4, <1>7 DEF At
    <2> QED  BY <1>3, <1>7, <2>1
  <1> QED  BY <1>5, <1>6, <1>7

\* Counts of labels a thread neither leaves nor comes to stay the same.
LEMMA AtKept ==
    ASSUME TypeOK, NEW t \in Threads, NEW from, NEW to, Goto(t, from, to), NEW L,
           from \notin L, to \notin L
    PROVE  Count(At(L))' = Count(At(L))
  BY AtMoves, AtFinite DEF Bit

\* The crawl jobs in the queue are finitely many.
LEMMA JobsFinite ==
    ASSUME TypeOK
    PROVE  /\ IsFiniteSet(CrawlJobs) /\ Count(CrawlJobs) \in Nat
           /\ IsFiniteSet(LostJobs) /\ Count(LostJobs) \in Nat
  <1>1. Len(job_queue) \in Nat /\ Len(jobs_lost) \in Nat
    BY LenProperties DEF TypeOK
  <1>2. IsFiniteSet(1..Len(job_queue)) /\ IsFiniteSet(1..Len(jobs_lost))
    BY <1>1, FS_Interval
  <1>3. CrawlJobs \subseteq 1..Len(job_queue) /\ LostJobs \subseteq 1..Len(jobs_lost)
    BY DEF CrawlJobs, LostJobs
  <1>4. IsFiniteSet(CrawlJobs) /\ IsFiniteSet(LostJobs)
    BY <1>2, <1>3, FS_Subset
  <1> QED  BY <1>4, FS_CardinalityType DEF Count

\* Setting a job adds one to the jobs waiting and dropped, and to the crawl
\* jobs among them unless it is the exit job.
LEMMA JobsAppend ==
    ASSUME TypeOK, NEW j \in Urls \cup {Exit}, SetJob(j)
    PROVE  /\ Len(job_queue') + Len(jobs_lost') = Len(job_queue) + Len(jobs_lost) + 1
           /\ Count(CrawlJobs)' + Count(LostJobs)' = Count(CrawlJobs) + Count(LostJobs) + Bit(j # Exit)
           /\ j = Exit => CrawlJobs' = CrawlJobs /\ LostJobs' = LostJobs
           /\ LostJobs \subseteq LostJobs'
  <1> DEFINE CrawlPlaces(s) == {i \in 1..Len(s) : s[i] # Exit}
  <1>1. /\ job_queue \in Seq(Urls \cup {Exit}) /\ Len(job_queue) \in Nat
        /\ jobs_lost \in Seq(Urls \cup {Exit}) /\ Len(jobs_lost) \in Nat
    BY LenProperties DEF TypeOK
  <1>2. ASSUME NEW s \in Seq(Urls \cup {Exit}), IsFiniteSet(CrawlPlaces(s))
        PROVE  /\ Len(Append(s, j)) = Len(s) + 1
               /\ Cardinality(CrawlPlaces(Append(s, j))) = Cardinality(CrawlPlaces(s)) + Bit(j # Exit)
               /\ j = Exit => CrawlPlaces(Append(s, j)) = CrawlPlaces(s)
               /\ CrawlPlaces(s) \subseteq CrawlPlaces(Append(s, j))
    <2> DEFINE n == Len(s)
               r == Append(s, j)
    <2>1. n \in Nat /\ Len(r) = n + 1 /\ r[n + 1] = j /\ \A i \in 1..n : r[i] = s[i]
      BY LenProperties, AppendProperties
    <2>2. Cardinality(CrawlPlaces(s)) \in Nat /\ n + 1 \notin CrawlPlaces(s)
      BY <1>2, <2>1, FS_CardinalityType
    <2> HIDE DEF r
    <2>3. CASE j = Exit
      <3>1. CrawlPlaces(r) = CrawlPlaces(s)
        BY <2>1, <2>3
      <3> HIDE DEF CrawlPlaces
      <3> QED  BY <2>1, <2>2, <2>3, <3>1 DEF Bit, r
    <2>4. CASE j # Exit
      <3>1. CrawlPlaces(r) = CrawlPlaces(s) \cup {n + 1}
        BY <2>1, <2>4
      <3> HIDE DEF CrawlPlaces
      <3>2. Cardinality(CrawlPlaces(s) \cup {n + 1}) = Cardinality(CrawlPlaces(s)) + 1
        BY <1>2, <2>2, FS_AddElement
      <3> QED  BY <2>1, <2>4, <3>1, <3>2 DEF Bit, r
    <2> QED  BY <2>3, <2>4
  <1>3. /\ CrawlJobs = CrawlPlaces(job_queue) /\ LostJobs = CrawlPlaces(jobs_lost)
        /\ CrawlJobs' = CrawlPlaces(job_queue') /\ LostJobs' = CrawlPlaces(jobs_lost')
    BY DEF CrawlJobs, LostJobs
  <1> HIDE DEF CrawlPlaces
  <1>4. /\ IsFiniteSet(CrawlPlaces(job_queue)) /\ Cardinality(CrawlPlaces(job_queue)) \in Nat
        /\ IsFiniteSet(CrawlPlaces(jobs_lost)) /\ Cardinality(CrawlPlaces(jobs_lost)) \in Nat
    BY <1>3, JobsFinite DEF Count
  <1>5. /\ Count(CrawlJobs)' = Cardinality(CrawlPlaces(job_queue')) /\ Count(CrawlJobs) = Cardinality(CrawlPlaces(job_queue))
        /\ Count(LostJobs)' = Cardinality(CrawlPlaces(jobs_lost')) /\ Count(LostJobs) = Cardinality(CrawlPlaces(jobs_lost))
    BY <1>3 DEF Count
  <1>6. Bit(j # Exit) \in {0, 1}
    BY DEF Bit
  <1>7. CASE job_queue' = Append(job_queue, j) /\ UNCHANGED jobs_lost
    BY <1>1, <1>2, <1>3, <1>4, <1>5, <1>6, <1>7
  <1>8. CASE jobs_lost' = Append(jobs_lost, j) /\ UNCHANGED job_queue
    BY <1>1, <1>2, <1>3, <1>4, <1>5, <1>6, <1>8
  <1> QED  BY <1>7, <1>8 DEF SetJob

\* Taking the oldest job takes one from the crawl jobs, unless it is the
\* exit job.
LEMMA JobsTail ==
    ASSUME TypeOK, job_queue # <<>>, job_queue' = Tail(job_queue)
    PROVE  /\ Len(job_queue') = Len(job_queue) - 1
           /\ Count(CrawlJobs)' = Count(CrawlJobs) - Bit(Head(job_queue) # Exit)
           /\ Head(job_queue) # Exit => CrawlJobs # {}
           /\ Head(job_queue) = Exit => (CrawlJobs' = {} <=> CrawlJobs = {})
  <1> DEFINE n == Len(job_queue)
             Old == CrawlJobs \ {1}
             New == {i \in 1..(n - 1) : job_queue[i + 1] # Exit}
  <1>1. job_queue \in Seq(Urls \cup {Exit}) /\ n \in Nat \ {0}
    BY EmptySeq DEF TypeOK
  <1>2. /\ Len(job_queue') = n - 1
        /\ \A i \in 1..(n - 1) : job_queue'[i] = job_queue[i + 1]
    BY <1>1, HeadTailProperties
  <1>3. IsFiniteSet(CrawlJobs) /\ Cardinality(CrawlJobs) \in Nat
    BY JobsFinite DEF Count
  <1>4. CrawlJobs' = New
    BY <1>1, <1>2 DEF CrawlJobs
  <1>5. 1 \in CrawlJobs <=> Head(job_queue) # Exit
    BY <1>1 DEF CrawlJobs
  <1>6. /\ IsFiniteSet(Old)
        /\ Cardinality(Old) = Cardinality(CrawlJobs) - Bit(Head(job_queue) # Exit)
    BY <1>3, <1>5, FS_RemoveElement DEF Bit
  <1>7. ExistsBijection(Old, New)
    <2> DEFINE f == [i \in Old |-> i - 1]
    <2>1. \A i \in Old : i \in 2..n /\ i - 1 \in New
      BY <1>1 DEF CrawlJobs
    <2>2. f \in Injection(Old, New)
      <3>1. f \in [Old -> New]
        BY <2>1
      <3>2. \A i, k \in Old : f[i] = f[k] => i = k
        BY <2>1
      <3> QED  BY <3>1, <3>2 DEF Injection, IsInjective
    <2>3. \A i \in New : i + 1 \in Old /\ f[i + 1] = i
      BY <1>1 DEF CrawlJobs
    <2>4. f \in Surjection(Old, New)
      BY <2>1, <2>3 DEF Surjection
    <2> QED  BY <2>2, <2>4 DEF Bijection, ExistsBijection
  <1>8. Cardinality(New) = Cardinality(Old)
    BY <1>6, <1>7, FS_Bijection
  <1>9. Count(CrawlJobs)' = Count(CrawlJobs) - Bit(Head(job_queue) # Exit)
    BY <1>4, <1>6, <1>8 DEF Count
  <1>10. Head(job_queue) = Exit => (New = {} <=> CrawlJobs = {})
    <2>1. IsFiniteSet(New)
      BY <1>6, <1>7, FS_Bijection
    <2>2. New = {} <=> Cardinality(New) = 0
      BY <2>1, FS_EmptySet
    <2>3. CrawlJobs = {} <=> Cardinality(CrawlJobs) = 0
      BY <1>3, FS_EmptySet
    <2> QED  BY <1>3, <1>6, <1>8, <2>2, <2>3 DEF Bit
  <1> QED  BY <1>1, <1>2, <1>4, <1>5, <1>9, <1>10

-----------------------------------------------------------------------------
(* Where main and do_work are, of each other. *)

(* do_work runs once main has started it, and main goes on past the joins  *)
(* once do_work has returned.                                              *)
Control ==
    /\ wpc = "off" <=> mpc \in {"seed", "incr", "post", "create", "aborted"}
    /\ mpc \in {"joinpool", "report"} => wpc = "returned"

\* The order of main and do_work is kept by every step.
LEMMA ControlStep == Control /\ [Next]_vars => Control'
  <1> SUFFICES ASSUME Control, [Next]_vars PROVE Control'
    OBVIOUS
  <1> USE DEF Control
  <1>1. CASE Main
    BY <1>1 DEF MainGoto, Main, SeedSet, SeedNoMemory, SeedIncrease, SeedPost, CreateWorker, CreateFails, JoinWorker, JoinPool
  <1>2. CASE Working
    BY <1>2 DEF WorkGoto, Working, Check, WaitWork, Size, Top, Insert, Skip, Ask, AskNoMemory, AskIncrease, AskPost, Done, SetExit, PostExit, Return
  <1>3. CASE \E t \in Threads : Pool(t) \/ Crawl(t)
    BY <1>3 DEF Pool, Crawl, BeginCrawl, Fetched, Dropped, Failed, CountUrl, PostUrl, Release, Signal
  <1>4. CASE Still
    BY <1>4 DEF Still
  <1> QED  BY <1>1, <1>2, <1>3, <1>4, Moves

-----------------------------------------------------------------------------
(* Posts match jobs. *)

\* A step of main keeps jobs and posts in step.
LEMMA TokensMain == TypeInv /\ Control /\ TokensMatchJobs /\ Main => TokensMatchJobs'
  <1> SUFFICES ASSUME TypeInv, Control, TokensMatchJobs, Main PROVE TokensMatchJobs'
    OBVIOUS
  <1> USE DEF TokensMatchJobs, Bit, MainGoto
  <1>1. Count(At({"get"}))' = Count(At({"get"})) /\ Count(At({"get"})) \in Nat
    <2>1. tpc' = tpc
      BY DEF Main, SeedSet, SeedNoMemory, SeedIncrease, SeedPost, CreateWorker, CreateFails, JoinWorker, JoinPool
    <2> QED  BY <2>1, AtFinite DEF At
  <1>2. job_sem \in Nat /\ Len(job_queue) \in Nat /\ Len(jobs_lost) \in Nat
    BY LenProperties DEF TypeInv, TypeOK
  <1>3. CASE SeedSet
    <2>1. Len(job_queue') + Len(jobs_lost') = Len(job_queue) + Len(jobs_lost) + 1
      BY <1>3, JobsAppend, UrlsAssumption DEF SeedSet, TypeInv
    <2> QED  BY <1>1, <1>2, <1>3, <2>1 DEF SeedSet
  <1>4. CASE SeedNoMemory
    BY <1>1, <1>4 DEF SeedNoMemory
  <1>5. CASE SeedIncrease
    BY <1>1, <1>5 DEF SeedIncrease
  <1>6. CASE SeedPost
    BY <1>1, <1>2, <1>6 DEF SeedPost, PostJob
  <1>7. CASE CreateWorker
    BY <1>1, <1>7 DEF CreateWorker, Control
  <1>8. CASE CreateFails
    BY <1>1, <1>8 DEF CreateFails
  <1>9. CASE JoinWorker
    BY <1>1, <1>9 DEF JoinWorker
  <1>10. CASE JoinPool
    BY <1>1, <1>10 DEF JoinPool
  <1> QED  BY <1>3, <1>4, <1>5, <1>6, <1>7, <1>8, <1>9, <1>10 DEF Main

\* A step of do_work keeps jobs and posts in step.
LEMMA TokensWork == TypeInv /\ TokensMatchJobs /\ Working => TokensMatchJobs'
  <1> SUFFICES ASSUME TypeInv, TokensMatchJobs, Working PROVE TokensMatchJobs'
    OBVIOUS
  <1> USE DEF TokensMatchJobs, Bit, WorkGoto
  <1>1. Count(At({"get"}))' = Count(At({"get"})) /\ Count(At({"get"})) \in Nat
    <2>1. tpc' = tpc
      BY DEF Working, Check, WaitWork, Size, Top, Insert, Skip, Ask, AskNoMemory, AskIncrease, AskPost, Done, SetExit, PostExit, Return
    <2> QED  BY <2>1, AtFinite DEF At
  <1>2. job_sem \in Nat /\ Len(job_queue) \in Nat /\ Len(jobs_lost) \in Nat
    BY LenProperties DEF TypeInv, TypeOK
  <1>3. CASE Ask
    <2>1. Head(rest) \in Urls
      BY <1>3, HeadTailProperties DEF Ask, TypeInv, TypeOK
    <2>2. Len(job_queue') + Len(jobs_lost') = Len(job_queue) + Len(jobs_lost) + 1
      BY <1>3, <2>1, JobsAppend DEF Ask, TypeInv
    <2> QED  BY <1>1, <1>2, <1>3, <2>2 DEF Ask
  <1>4. CASE AskIncrease
    BY <1>1, <1>4 DEF AskIncrease
  <1>5. CASE AskPost
    BY <1>1, <1>2, <1>5 DEF AskPost, PostJob
  <1>6. CASE SetExit
    <2>1. Len(job_queue') + Len(jobs_lost') = Len(job_queue) + Len(jobs_lost) + 1
      BY <1>6, JobsAppend DEF SetExit, TypeInv
    <2> QED  BY <1>1, <1>2, <1>6, <2>1 DEF SetExit
  <1>7. CASE PostExit
    BY <1>1, <1>2, <1>7 DEF PostExit, PostJob
  <1>8. CASE Check \/ WaitWork \/ Size \/ Top \/ Insert \/ Skip \/ AskNoMemory \/ Done \/ Return
    BY <1>1, <1>8 DEF Check, WaitWork, Size, Top, Insert, Skip, AskNoMemory, Done, Return
  <1> QED  BY <1>3, <1>4, <1>5, <1>6, <1>7, <1>8 DEF Working

\* A step of a pool thread keeps jobs and posts in step.
LEMMA TokensThread ==
    TypeInv /\ TokensMatchJobs /\ (\E t \in Threads : Pool(t) \/ Crawl(t)) => TokensMatchJobs'
  <1> SUFFICES ASSUME TypeInv, TokensMatchJobs, NEW t \in Threads, Pool(t) \/ Crawl(t)
               PROVE  TokensMatchJobs'
    OBVIOUS
  <1> USE DEF TokensMatchJobs, Bit
  <1> DEFINE Getting == Count(At({"get"}))
  <1>1. TypeOK /\ Getting \in Nat /\ job_sem \in Nat /\ Len(job_queue) \in Nat /\ Len(jobs_lost) \in Nat
    BY AtFinite, LenProperties DEF TypeInv, TypeOK
  <1>2. mpc' = mpc /\ wpc' = wpc
    BY DEF Pool, Crawl, BeginCrawl, Fetched, Dropped, Failed, CountUrl, PostUrl, Release, Signal
  <1>3. CASE WaitJob(t)
    <2>1. Goto(t, "wait", "get") /\ job_sem' = job_sem - 1 /\ UNCHANGED <<job_queue, jobs_lost>>
      BY <1>3 DEF WaitJob
    <2>2. Getting' = Getting + 1
      BY <1>1, <2>1, AtMoves
    <2> QED  BY <1>1, <1>2, <2>1, <2>2
  <1>4. CASE GetJob(t)
    <2>1. Goto(t, "get", "run") /\ UNCHANGED <<job_sem, jobs_lost>>
      BY <1>4 DEF GetJob
    <2>2. Getting' = Getting - 1
      BY <1>1, <2>1, AtMoves
    <2>3. Len(job_queue') = Len(job_queue) - 1
      BY <1>1, <1>4, JobsTail DEF GetJob
    <2> QED  BY <1>1, <1>2, <2>1, <2>2, <2>3
  <1>5. ASSUME NEW from \in {"start", "test", "run", "end"} \cup Crawls \cup {"signal"},
               NEW to \in {"test", "wait", "gone", "crawl", "count", "posturl", "release", "signal", "end"},
               Goto(t, from, to), UNCHANGED queueVars
        PROVE  TokensMatchJobs'
    <2>1. from \notin {"get"} /\ to \notin {"get"}
      BY DEF Crawls
    <2>2. Getting' = Getting
      BY <1>1, <1>5, <2>1, AtMoves
    <2> QED  BY <1>1, <1>2, <1>5, <2>2
  <1>6. CASE Start(t) \/ Test(t) \/ DoExit(t) \/ Finish(t)
    BY <1>5, <1>6 DEF Start, Test, DoExit, Finish
  <1>7. CASE Crawl(t)
    BY <1>5, <1>7 DEF Crawl, Crawls, BeginCrawl, Fetched, Dropped, Failed, CountUrl, PostUrl, Release, Signal
  <1> QED  BY <1>3, <1>4, <1>6, <1>7 DEF Pool, PoolStep

-----------------------------------------------------------------------------
(* global_lock counts the work not finished. *)

\* The threads that run a crawl job are finitely many.
LEMMA CrawlingFinite == IsFiniteSet(Crawling) /\ Count(Crawling) \in Nat
  <1>1. Crawling \subseteq Threads
    BY DEF Crawling
  <1>2. IsFiniteSet(Crawling)
    BY <1>1, ThreadsAssumption, FS_Subset
  <1> QED  BY <1>2, FS_CardinalityType DEF Count

\* A thread that takes a crawl job starts to run one.
LEMMA CrawlingGet ==
    ASSUME TypeInv, NEW t \in Threads, GetJob(t)
    PROVE  /\ Count(Crawling)' = Count(Crawling) + Bit(Head(job_queue) # Exit)
           /\ Head(job_queue) # Exit => t \in Crawling'
           /\ Crawling \subseteq Crawling'
           /\ Head(job_queue) = Exit => Fetching' = Fetching
  <1> USE DEF TypeInv, TypeOK
  <1>1. /\ tpc[t] = "get" /\ tpc'[t] = "run" /\ job'[t] = Head(job_queue)
        /\ \A u \in Threads \ {t} : tpc'[u] = tpc[u] /\ job'[u] = job[u]
    BY DEF GetJob, Goto
  <1>2. t \notin Crawling
    BY <1>1 DEF Crawling, Crawls
  <1>3. IsFiniteSet(Crawling) /\ Cardinality(Crawling) \in Nat
    BY CrawlingFinite DEF Count
  <1>4. CASE Head(job_queue) = Exit
    <2>1. Crawling' = Crawling
      BY <1>1, <1>4 DEF Crawling, Crawls
    <2>2. Fetching' = Fetching
      BY <1>1, <1>4 DEF Fetching
    <2> QED  BY <1>3, <1>4, <2>1, <2>2 DEF Count, Bit
  <1>5. CASE Head(job_queue) # Exit
    <2>1. Crawling' = Crawling \cup {t}
      BY <1>1, <1>5 DEF Crawling, Crawls
    <2>2. Cardinality(Crawling \cup {t}) = Cardinality(Crawling) + 1
      BY <1>2, <1>3, FS_AddElement
    <2> QED  BY <1>3, <1>5, <2>1, <2>2 DEF Count, Bit
  <1> QED  BY <1>4, <1>5

\* A thread that gives its count back runs a crawl job no more.
LEMMA CrawlingRelease ==
    ASSUME TypeInv, NEW t \in Threads, Release(t)
    PROVE  Count(Crawling)' = Count(Crawling) - 1
  <1> USE DEF TypeInv, TypeOK
  <1>1. /\ tpc[t] = "release" /\ tpc'[t] = "signal"
        /\ \A u \in Threads \ {t} : tpc'[u] = tpc[u]
        /\ job' = job
    BY DEF Release, Goto
  <1>2. t \in Crawling /\ Crawling' = Crawling \ {t}
    BY <1>1 DEF Crawling, Crawls
  <1>3. IsFiniteSet(Crawling) /\ Cardinality(Crawling) \in Nat
    BY CrawlingFinite DEF Count
  <1>4. Cardinality(Crawling \ {t}) = Cardinality(Crawling) - 1
    BY <1>2, <1>3, FS_RemoveElement
  <1> QED  BY <1>2, <1>4 DEF Count

\* No other step of a thread starts or ends the running of a crawl job.
LEMMA CrawlingKept ==
    ASSUME TypeInv, NEW t \in Threads,
           \/ Start(t) \/ Test(t) \/ WaitJob(t) \/ DoExit(t) \/ Finish(t)
           \/ BeginCrawl(t) \/ Fetched(t) \/ Dropped(t) \/ Failed(t)
           \/ CountUrl(t) \/ PostUrl(t) \/ Signal(t)
    PROVE  Crawling' = Crawling
  <1> USE DEF TypeInv, TypeOK
  <1>1. job' = job /\ \A u \in Threads \ {t} : tpc'[u] = tpc[u]
    BY DEF Goto, Start, Test, WaitJob, DoExit, Finish, BeginCrawl, Fetched, Dropped, Failed, CountUrl, PostUrl, Signal
  <1>2. t \in Crawling' <=> t \in Crawling
    BY DEF Crawling, Crawls, Goto, Start, Test, WaitJob, DoExit, Finish, BeginCrawl, Fetched, Dropped, Failed, CountUrl, PostUrl, Signal
  <1> QED  BY <1>1, <1>2 DEF Crawling

\* A page fetched is in urlqueue, or dropped.
LEMMA PagePushed ==
    ASSUME TypeInv, NEW t \in Threads, Fetched(t)
    PROVE  /\ Len(urlqueue') + Len(pages_lost') = Len(urlqueue) + Len(pages_lost) + 1
           /\ \/ \E links \in Pages :
                    /\ [url |-> job[t], link_url |-> links] \in [url : Urls, link_url : Seq(Urls)]
                    /\ urlqueue' = Append(urlqueue, [url |-> job[t], link_url |-> links])
                    /\ UNCHANGED pages_lost
              \/ /\ pages_lost' = Append(pages_lost, job[t])
                 /\ UNCHANGED urlqueue
           /\ job[t] \in Urls
  <1>1. urlqueue \in Seq([url : Urls, link_url : Seq(Urls)]) /\ pages_lost \in Seq(Urls)
    BY DEF TypeInv, TypeOK
  <1>2. job[t] \in Urls /\ Len(urlqueue) \in Nat /\ Len(pages_lost) \in Nat
    BY <1>1, LenProperties DEF Fetched, Goto, TypeInv, TypeOK, Crawls
  <1>3. \A links \in Pages : [url |-> job[t], link_url |-> links] \in [url : Urls, link_url : Seq(Urls)]
    BY <1>2, UrlsAssumption
  <1>4. CASE pages_lost' = Append(pages_lost, job[t]) /\ UNCHANGED urlqueue
    BY <1>1, <1>2, <1>4, AppendProperties
  <1>5. CASE /\ \E links \in Pages : urlqueue' = Append(urlqueue, [url |-> job[t], link_url |-> links])
             /\ UNCHANGED pages_lost
    <2>1. PICK links \in Pages : urlqueue' = Append(urlqueue, [url |-> job[t], link_url |-> links])
      BY <1>5
    <2>2. Len(urlqueue') = Len(urlqueue) + 1
      BY <1>1, <1>3, <2>1, AppendProperties
    <2> QED  BY <1>2, <1>3, <1>5, <2>1, <2>2
  <1> QED  BY <1>4, <1>5 DEF Fetched

\* A step of main keeps the account.
LEMMA AccountMain == TypeInv /\ Control /\ Accounting /\ Main => Accounting'
  <1> SUFFICES ASSUME TypeInv, Control, Accounting, Main PROVE Accounting'
    OBVIOUS
  <1> USE DEF Accounting, Bit, MainGoto
  <1> DEFINE J == Count(CrawlJobs) + Count(LostJobs)
             C == Count(Crawling)
             K == Count(At({"count"}))
             U == Len(urlqueue) + Len(pages_lost)
  <1>1. TypeOK /\ global_lock \in Int /\ J \in Nat /\ C \in Nat /\ K \in Nat /\ U \in Nat
    <2>1. TypeOK /\ global_lock \in Int /\ Len(urlqueue) \in Nat /\ Len(pages_lost) \in Nat
      BY LenProperties DEF TypeInv, TypeOK
    <2> QED  BY <2>1, JobsFinite, CrawlingFinite, AtFinite
  <1>2. C' = C /\ K' = K /\ U' = U
    BY DEF Main, SeedSet, SeedNoMemory, SeedIncrease, SeedPost, CreateWorker, CreateFails, JoinWorker, JoinPool, Crawling, At
  <1>3. CASE SeedSet
    <2>1. J' = J + 1
      BY <1>1, <1>3, JobsAppend, UrlsAssumption DEF SeedSet
    <2>2. UNCHANGED <<wpc, global_lock>> /\ mpc = "seed" /\ mpc' = "incr" /\ wpc = "off"
      BY <1>3 DEF SeedSet, Control
    <2> QED  BY <1>1, <1>2, <2>1, <2>2
  <1>4. CASE ~SeedSet
    <2>1. J' = J
      BY <1>4 DEF Main, SeedSet, SeedNoMemory, SeedIncrease, SeedPost, CreateWorker, CreateFails, JoinWorker, JoinPool, CrawlJobs, LostJobs, PostJob
    <2>2. CASE SeedIncrease
      BY <1>1, <1>2, <2>1, <2>2 DEF SeedIncrease, Increase
    <2>3. CASE SeedNoMemory \/ SeedPost \/ CreateFails \/ JoinWorker \/ JoinPool
      BY <1>1, <1>2, <2>1, <2>3 DEF SeedNoMemory, SeedPost, CreateFails, JoinWorker, JoinPool
    <2>4. CASE CreateWorker
      BY <1>1, <1>2, <2>1, <2>4 DEF CreateWorker, Control, Recording
    <2> QED  BY <1>4, <2>2, <2>3, <2>4 DEF Main
  <1> QED  BY <1>3, <1>4

\* A step of do_work keeps the account.
LEMMA AccountWork == TypeInv /\ Accounting /\ Working => Accounting'
  <1> SUFFICES ASSUME TypeInv, Accounting, Working PROVE Accounting'
    OBVIOUS
  <1> USE DEF Accounting, Bit, WorkGoto, Recording
  <1> DEFINE J == Count(CrawlJobs) + Count(LostJobs)
             C == Count(Crawling)
             K == Count(At({"count"}))
             U == Len(urlqueue) + Len(pages_lost)
  <1>1. TypeOK /\ global_lock \in Int /\ J \in Nat /\ C \in Nat /\ K \in Nat /\ U \in Nat
    <2>1. TypeOK /\ global_lock \in Int /\ Len(urlqueue) \in Nat /\ Len(pages_lost) \in Nat
      BY LenProperties DEF TypeInv, TypeOK
    <2> QED  BY <2>1, JobsFinite, CrawlingFinite, AtFinite
  <1>2. C' = C /\ K' = K
    BY DEF Working, Check, WaitWork, Size, Top, Insert, Skip, Ask, AskNoMemory, AskIncrease, AskPost, Done, SetExit, PostExit, Return, Crawling, At
  <1>3. CASE Ask
    <2>1. Head(rest) \in Urls
      BY <1>3, HeadTailProperties DEF Ask, TypeInv, TypeOK
    <2>2. J' = J + 1
      BY <1>1, <1>3, <2>1, JobsAppend, UrlsAssumption DEF Ask
    <2> QED  BY <1>1, <1>2, <1>3, <2>2 DEF Ask
  <1>4. CASE SetExit
    <2>1. J' = J
      BY <1>1, <1>4, JobsAppend DEF SetExit
    <2> QED  BY <1>1, <1>2, <1>4, <2>1 DEF SetExit
  <1>5. ASSUME UNCHANGED <<job_queue, jobs_lost>> PROVE J' = J
    BY <1>5 DEF CrawlJobs, LostJobs
  <1>6. CASE Top
    <2>1. U' = U - 1
      BY <1>6, HeadTailProperties DEF Top, TypeInv, TypeOK
    <2> QED  BY <1>1, <1>2, <1>5, <1>6, <2>1 DEF Top
  <1>7. CASE AskIncrease
    BY <1>1, <1>2, <1>5, <1>7 DEF AskIncrease, Increase
  <1>8. CASE Done
    BY <1>1, <1>2, <1>5, <1>8 DEF Done, Decrease
  <1>9. CASE Check \/ WaitWork \/ Size \/ Insert \/ Skip \/ AskNoMemory \/ AskPost \/ PostExit \/ Return
    BY <1>1, <1>2, <1>5, <1>9 DEF Check, WaitWork, Size, Insert, Skip, AskNoMemory, AskPost, PostExit, Return
  <1> QED  BY <1>3, <1>4, <1>6, <1>7, <1>8, <1>9 DEF Working

\* A step of a pool thread keeps the account.
LEMMA AccountThread ==
    TypeInv /\ Accounting /\ (\E t \in Threads : Pool(t) \/ Crawl(t)) => Accounting'
  <1> SUFFICES ASSUME TypeInv, Accounting, NEW t \in Threads, Pool(t) \/ Crawl(t)
               PROVE  Accounting'
    OBVIOUS
  <1> USE DEF Accounting, Bit
  <1> DEFINE J == Count(CrawlJobs) + Count(LostJobs)
             C == Count(Crawling)
             K == Count(At({"count"}))
             U == Len(urlqueue) + Len(pages_lost)
  <1>1. TypeOK /\ global_lock \in Int /\ J \in Nat /\ C \in Nat /\ K \in Nat /\ U \in Nat
    <2>1. TypeOK /\ global_lock \in Int /\ Len(urlqueue) \in Nat /\ Len(pages_lost) \in Nat
      BY LenProperties DEF TypeInv, TypeOK
    <2> QED  BY <2>1, JobsFinite, CrawlingFinite, AtFinite
  <1>2. mpc' = mpc /\ wpc' = wpc
    BY DEF Pool, Crawl, BeginCrawl, Fetched, Dropped, Failed, CountUrl, PostUrl, Release, Signal
  <1>3. ASSUME UNCHANGED <<job_queue, jobs_lost>> PROVE J' = J
    BY <1>3 DEF CrawlJobs, LostJobs
  <1>4. CASE GetJob(t)
    <2>1. Goto(t, "get", "run") /\ UNCHANGED <<urlqueue, pages_lost, jobs_lost, global_lock>>
      BY <1>4 DEF GetJob, Pool, Goto, Crawl, BeginCrawl, Fetched, Dropped, Failed, CountUrl, PostUrl, Release, Signal
    <2>2. K' = K
      BY <1>1, <2>1, AtKept
    <2>3. J' = J - Bit(Head(job_queue) # Exit)
      <3>1. Count(LostJobs)' = Count(LostJobs)
        BY <2>1 DEF LostJobs
      <3>2. Count(CrawlJobs)' = Count(CrawlJobs) - Bit(Head(job_queue) # Exit)
        BY <1>1, <1>4, JobsTail DEF GetJob
      <3>3. Count(CrawlJobs) \in Nat /\ Count(LostJobs) \in Nat
        BY <1>1, JobsFinite
      <3> QED  BY <3>1, <3>2, <3>3 DEF Bit
    <2>4. C' = C + Bit(Head(job_queue) # Exit)
      BY <1>4, CrawlingGet
    <2> QED  BY <1>1, <1>2, <2>1, <2>2, <2>3, <2>4
  <1>5. CASE Fetched(t)
    <2>1. Goto(t, "crawl", "count") /\ J' = J /\ C' = C /\ global_lock' = global_lock
      BY <1>3, <1>5, CrawlingKept DEF Fetched
    <2>2. K' = K + 1
      <3>1. Count(At({"count"}))' = Count(At({"count"})) - Bit("crawl" \in {"count"}) + Bit("count" \in {"count"})
        BY <1>1, <2>1, AtMoves
      <3> QED  BY <1>1, <3>1
    <2>3. U' = U + 1
      BY <1>5, PagePushed
    <2> QED  BY <1>1, <1>2, <2>1, <2>2, <2>3
  <1>6. CASE CountUrl(t)
    <2>1. Goto(t, "count", "posturl") /\ J' = J /\ C' = C /\ U' = U /\ global_lock' = global_lock + 1
      BY <1>3, <1>6, CrawlingKept DEF CountUrl, Increase
    <2>2. K' = K - 1
      BY <1>1, <2>1, AtMoves
    <2> QED  BY <1>1, <1>2, <2>1, <2>2
  <1>7. CASE Release(t)
    <2>1. Goto(t, "release", "signal") /\ J' = J /\ U' = U /\ global_lock' = global_lock - 1
      BY <1>3, <1>7 DEF Release, Decrease
    <2>2. K' = K
      <3>1. "release" \notin {"count"} /\ "signal" \notin {"count"}
        OBVIOUS
      <3> HIDE DEF Bit, Accounting
      <3> QED  BY <1>1, <2>1, <3>1, AtKept
    <2>3. C' = C - 1
      BY <1>7, CrawlingRelease
    <2> QED  BY <1>1, <1>2, <2>1, <2>2, <2>3
  <1>8. ASSUME NEW from \in {"start", "test", "wait", "run", "end", "crawl", "posturl", "signal"},
               NEW to \in {"test", "wait", "gone", "get", "end", "crawl", "release"},
               Goto(t, from, to), J' = J, C' = C, UNCHANGED <<urlqueue, pages_lost, global_lock>>
        PROVE  Accounting'
    <2>1. from \notin {"count"} /\ to \notin {"count"}
      BY <1>8
    <2>2. K' = K
      BY <1>1, <1>8, <2>1, AtKept
    <2> QED  BY <1>1, <1>2, <1>8, <2>2
  <1>9. CASE Pool(t) /\ (Start(t) \/ Test(t) \/ WaitJob(t) \/ DoExit(t) \/ Finish(t))
    <2>1. J' = J /\ C' = C /\ UNCHANGED <<urlqueue, pages_lost, global_lock>>
      <3>1. UNCHANGED <<job_queue, jobs_lost, urlqueue, pages_lost, global_lock>>
        BY <1>9 DEF Start, Test, WaitJob, DoExit, Finish, Pool
      <3> QED  BY <1>3, <1>9, <3>1, CrawlingKept
    <2> QED  BY <1>8, <1>9, <2>1 DEF Start, Test, WaitJob, DoExit, Finish
  <1>10. CASE BeginCrawl(t) \/ Dropped(t) \/ Failed(t) \/ PostUrl(t) \/ Signal(t)
    <2>1. J' = J /\ C' = C /\ UNCHANGED <<urlqueue, pages_lost, global_lock>>
      <3>1. UNCHANGED <<job_queue, jobs_lost, urlqueue, pages_lost, global_lock>>
        BY <1>10 DEF BeginCrawl, Dropped, Failed, PostUrl, Signal
      <3> QED  BY <1>3, <1>10, <3>1, CrawlingKept
    <2> QED  BY <1>8, <1>10, <2>1 DEF BeginCrawl, Dropped, Failed, PostUrl, Signal
  <1> QED  BY <1>4, <1>5, <1>6, <1>7, <1>9, <1>10 DEF Pool, PoolStep, Crawl

-----------------------------------------------------------------------------
(* Every page fetched has its post. *)

(* The worker takes a page only after it has seen one.                     *)
TopInv == wpc = "top" => urlqueue # <<>>

\* A page in the queue keeps its post, and a page seen stays.
LEMMA UrlTokensStep ==
    TypeInv /\ Control /\ UrlTokens /\ TopInv /\ [Next]_vars => UrlTokens' /\ TopInv'
  <1> SUFFICES ASSUME TypeInv, Control, UrlTokens, TopInv, [Next]_vars PROVE UrlTokens' /\ TopInv'
    OBVIOUS
  <1> USE DEF UrlTokens, TopInv, Bit
  <1> DEFINE K == Count(At({"count", "posturl"}))
             U == Len(urlqueue)
             Page == [url : Urls, link_url : Seq(Urls)]
  <1>1. /\ TypeOK /\ K \in Nat /\ U \in Nat /\ work_sem \in Nat
        /\ urlqueue \in Seq(Page) /\ (urlqueue # <<>> <=> U > 0)
    BY AtFinite, LenProperties, EmptySeq DEF TypeInv, TypeOK
  <1>2. ASSUME tpc' = tpc PROVE K' = K
    BY <1>2 DEF At
  <1>3. CASE Main
    <2>1. UNCHANGED <<tpc, urlqueue, work_sem>>
      BY <1>3 DEF Main, SeedSet, SeedNoMemory, SeedIncrease, SeedPost, CreateWorker, CreateFails, JoinWorker, JoinPool
    <2>2. wpc' = wpc \/ (wpc = "off" /\ wpc' = "check")
      BY <1>3 DEF Main, MainGoto, Control, SeedSet, SeedNoMemory, SeedIncrease, SeedPost, CreateWorker, CreateFails, JoinWorker, JoinPool
    <2> QED  BY <1>1, <1>2, <2>1, <2>2
  <1>4. CASE Working
    <2>1. K' = K
      BY <1>2, <1>4 DEF Working, Check, WaitWork, Size, Top, Insert, Skip, Ask, AskNoMemory, AskIncrease, AskPost, Done, SetExit, PostExit, Return
    <2> USE DEF WorkGoto
    <2>2. CASE WaitWork
      BY <1>1, <2>1, <2>2 DEF WaitWork
    <2>3. CASE Size
      BY <1>1, <2>1, <2>3 DEF Size
    <2>4. CASE Top
      <3>1. U' = U - 1
        BY <1>1, <2>4, HeadTailProperties DEF Top
      <3> QED  BY <1>1, <2>1, <2>4, <3>1 DEF Top
    <2>5. CASE ~WaitWork /\ ~Size /\ ~Top
      BY <1>1, <1>4, <2>1, <2>5 DEF Working, Check, Insert, Skip, Ask, AskNoMemory, AskIncrease, AskPost, Done, SetExit, PostExit, Return
    <2> QED  BY <2>2, <2>3, <2>4, <2>5
  <1>5. ASSUME NEW t \in Threads, Pool(t) \/ Crawl(t)
        PROVE  UrlTokens' /\ TopInv'
    <2>1. wpc' = wpc
      BY <1>5 DEF Pool, Crawl, BeginCrawl, Fetched, Dropped, Failed, CountUrl, PostUrl, Release, Signal
    <2>2. CASE Fetched(t)
      <3>1. Goto(t, "crawl", "count") /\ work_sem' = work_sem
        BY <2>2 DEF Fetched
      <3>2. K' = K + 1
        BY <1>1, <3>1, AtMoves
      <3>3. (U' = U + 1 /\ urlqueue' # <<>>) \/ urlqueue' = urlqueue
        <4>1. CASE urlqueue' = urlqueue
          BY <4>1
        <4>2. ASSUME NEW links \in Pages, [url |-> job[t], link_url |-> links] \in Page,
                     urlqueue' = Append(urlqueue, [url |-> job[t], link_url |-> links])
              PROVE  U' = U + 1 /\ urlqueue' # <<>>
          BY <1>1, <4>2, AppendProperties
        <4> QED  BY <2>2, <4>1, <4>2, PagePushed
      <3> QED  BY <1>1, <2>1, <3>1, <3>2, <3>3
    <2>3. CASE PostUrl(t)
      <3>1. Goto(t, "posturl", "release") /\ urlqueue' = urlqueue /\ work_sem' = work_sem + 1
        BY <2>3 DEF PostUrl, PostWork
      <3>2. K' = K - 1
        BY <1>1, <3>1, AtMoves
      <3> QED  BY <1>1, <2>1, <3>1, <3>2
    <2>4. CASE CountUrl(t)
      <3>1. Goto(t, "count", "posturl") /\ UNCHANGED <<urlqueue, work_sem>>
        BY <2>4 DEF CountUrl
      <3>2. K' = K - 1 + 1
        BY <1>1, <3>1, AtMoves
      <3> QED  BY <1>1, <2>1, <3>1, <3>2
    <2>5. ASSUME NEW from \in {"start", "test", "wait", "get", "run", "end", "crawl", "release", "signal"},
                 NEW to \in {"test", "wait", "gone", "get", "run", "end", "crawl", "release", "signal"},
                 Goto(t, from, to), urlqueue' = urlqueue, work_sem' \in {work_sem, work_sem + 1}
          PROVE  UrlTokens' /\ TopInv'
      <3>1. from \notin {"count", "posturl"} /\ to \notin {"count", "posturl"}
        BY <2>5
      <3>2. K' = K
        BY <1>1, <2>5, <3>1, AtKept
      <3> QED  BY <1>1, <2>1, <2>5, <3>2
    <2>6. CASE Pool(t)
      BY <2>5, <2>6 DEF Pool, PoolStep, Start, Test, WaitJob, GetJob, DoExit, Finish
    <2>7. CASE BeginCrawl(t) \/ Dropped(t) \/ Failed(t) \/ Release(t) \/ Signal(t)
      BY <2>5, <2>7 DEF BeginCrawl, Dropped, Failed, Release, Signal, PostWork
    <2> QED  BY <1>5, <2>2, <2>3, <2>4, <2>6, <2>7 DEF Crawl
  <1>6. CASE Still
    BY <1>1, <1>2, <1>6 DEF Still
  <1> QED  BY <1>3, <1>4, <1>5, <1>6, Moves

-----------------------------------------------------------------------------
(* do_work stops in time and is not left waiting. *)

NothingLost == pages_lost = <<>> /\ LostJobs = {}

\* When global_lock reads 0 at the top of do_work's loop the crawl is over,
\* and when it does not there is a post to wait for, or something was dropped.
LEMMA LockMeansWork ==
    ASSUME TypeInv, Control, Accounting, UrlTokens, wpc = "check"
    PROVE  /\ global_lock = 0 => urlqueue = <<>> /\ CrawlJobs = {} /\ Fetching = {} /\ NothingLost
           /\ global_lock # 0 => work_sem > 0 \/ CrawlJobs # {} \/ Crawling # {} \/ ~NothingLost
  <1> DEFINE J == Count(CrawlJobs)
             L == Count(LostJobs)
             M == Len(pages_lost)
             C == Count(Crawling)
             K == Count(At({"count"}))
             U == Len(urlqueue)
  <1>1. /\ J \in Nat /\ L \in Nat /\ C \in Nat /\ K \in Nat /\ U \in Nat /\ M \in Nat
        /\ (urlqueue = <<>> <=> U = 0) /\ (pages_lost = <<>> <=> M = 0)
        /\ IsFiniteSet(CrawlJobs) /\ IsFiniteSet(LostJobs) /\ IsFiniteSet(Crawling)
    BY JobsFinite, CrawlingFinite, AtFinite, LenProperties, EmptySeq DEF TypeInv, TypeOK
  <1>2. global_lock = (J + L) + C - K + (U + M)
    BY <1>1 DEF Accounting, Control, Bit, Recording
  <1>3. At({"count"}) \subseteq Crawling
    BY DEF At, Crawling, Crawls
  <1>4. K <= C /\ (K = C => At({"count"}) = Crawling)
    BY <1>1, <1>3, FS_Subset DEF Count
  <1>5. ASSUME global_lock = 0
        PROVE  urlqueue = <<>> /\ CrawlJobs = {} /\ Fetching = {} /\ NothingLost
    <2>1. J = 0 /\ L = 0 /\ U = 0 /\ M = 0 /\ K = C
      BY <1>1, <1>2, <1>4, <1>5
    <2>2. CrawlJobs = {} /\ LostJobs = {}
      BY <1>1, <2>1, FS_EmptySet DEF Count
    <2>3. At({"count"}) = Crawling
      BY <1>4, <2>1
    <2>4. Fetching = {}
      BY <2>3 DEF At, Crawling, Fetching, Crawls
    <2> QED  BY <1>1, <2>1, <2>2, <2>4 DEF NothingLost
  <1>6. ASSUME CrawlJobs = {}, Crawling = {}, work_sem <= 0, NothingLost
        PROVE  global_lock = 0
    <2>1. J = 0 /\ C = 0 /\ L = 0 /\ M = 0
      BY <1>1, <1>6, FS_EmptySet DEF Count, NothingLost
    <2>2. At({"count", "posturl"}) = {}
      BY <1>6 DEF At, Crawling, Crawls
    <2>3. Count(At({"count", "posturl"})) = 0
      BY <2>2, FS_EmptySet DEF Count
    <2>4. U <= 0
      BY <1>1, <1>6, <2>3 DEF UrlTokens, Bit, TypeInv, TypeOK
    <2> QED  BY <1>1, <1>2, <1>4, <2>1, <2>4
  <1>7. work_sem \in Nat
    BY DEF TypeInv, TypeOK
  <1> QED  BY <1>5, <1>6, <1>7

\* What was dropped stays so.
LEMMA LossStays ==
    ASSUME TypeInv, [Next]_vars, NothingLost'
    PROVE  NothingLost
  <1>1. pages_lost' = pages_lost \/ \E t \in Threads : Fetched(t)
    <2>1. CASE Main
      BY <2>1 DEF Main, SeedSet, SeedNoMemory, SeedIncrease, SeedPost, CreateWorker, CreateFails, JoinWorker, JoinPool
    <2>2. CASE Working
      BY <2>2 DEF Working, Check, WaitWork, Size, Top, Insert, Skip, Ask, AskNoMemory, AskIncrease, AskPost, Done, SetExit, PostExit, Return
    <2>3. CASE \E t \in Threads : Pool(t) \/ Crawl(t)
      BY <2>3 DEF Pool, Crawl, BeginCrawl, Dropped, Failed, CountUrl, PostUrl, Release, Signal
    <2>4. CASE Still
      BY <2>4 DEF Still
    <2> QED  BY <2>1, <2>2, <2>3, <2>4, Moves
  <1>2. pages_lost = <<>>
    <2>1. CASE pages_lost' = pages_lost
      BY <2>1 DEF NothingLost
    <2>2. ASSUME NEW t \in Threads, pages_lost' = Append(pages_lost, job[t]), job[t] \in Urls PROVE FALSE
      <3>1. pages_lost \in Seq(Urls) /\ Len(pages_lost) \in Nat
        BY LenProperties DEF TypeInv, TypeOK
      <3>2. Len(Append(pages_lost, job[t])) = Len(pages_lost) + 1
        BY <2>2, <3>1, AppendProperties
      <3>3. Len(pages_lost') = 0
        BY DEF NothingLost
      <3> QED  BY <2>2, <3>1, <3>2, <3>3
    <2>3. ASSUME NEW t \in Threads, Fetched(t), pages_lost' # pages_lost PROVE FALSE
      BY <2>2, <2>3, PagePushed
    <2> QED  BY <1>1, <2>1, <2>3
  <1>3. jobs_lost' = jobs_lost \/ \E j \in Urls \cup {Exit} : SetJob(j)
    <2>1. CASE Main
      BY <2>1, UrlsAssumption DEF Main, SeedSet, SeedNoMemory, SeedIncrease, SeedPost, CreateWorker, CreateFails, JoinWorker, JoinPool
    <2>2. CASE Ask
      <3>1. Head(rest) \in Urls
        BY <2>2, HeadTailProperties DEF Ask, TypeInv, TypeOK
      <3> QED  BY <2>2, <3>1 DEF Ask
    <2>3. CASE SetExit
      BY <2>3 DEF SetExit
    <2>4. CASE Working /\ ~Ask /\ ~SetExit
      BY <2>4 DEF Working, Check, WaitWork, Size, Top, Insert, Skip, AskNoMemory, AskIncrease, AskPost, Done, PostExit, Return
    <2>5. CASE \E t \in Threads : Pool(t) \/ Crawl(t)
      BY <2>5 DEF Pool, PoolStep, Start, Test, WaitJob, GetJob, DoExit, Finish, Crawl, BeginCrawl, Fetched, Dropped, Failed, CountUrl, PostUrl, Release, Signal
    <2>6. CASE Still
      BY <2>6 DEF Still
    <2> QED  BY <2>1, <2>2, <2>3, <2>4, <2>5, <2>6, Moves
  <1>4. LostJobs \subseteq LostJobs'
    BY <1>3, JobsAppend DEF TypeInv, LostJobs
  <1> QED  BY <1>2, <1>4 DEF NothingLost

\* Once do_work has left its loop nothing brings new work.
LEMMA NoEarlyStopStep ==
    /\ TypeInv /\ Control /\ Accounting /\ UrlTokens /\ NoEarlyStop /\ [Next]_vars
    => NoEarlyStop'
  <1> SUFFICES ASSUME TypeInv, Control, Accounting, UrlTokens, NoEarlyStop, [Next]_vars,
                      wpc' \in Stopping, ~Full'
               PROVE  urlqueue' = <<>> /\ CrawlJobs' = {} /\ Fetching' = {} /\ NothingLost'
    BY DEF NoEarlyStop, NothingLost
  <1> USE DEF Stopping
  <1>1. CASE Main
    <2>1. UNCHANGED <<wpc, vertex, urlqueue, pages_lost, tpc, job, job_queue, jobs_lost>>
      BY <1>1 DEF Main, MainGoto, Control, SeedSet, SeedNoMemory, SeedIncrease, SeedPost, CreateWorker, CreateFails, JoinWorker, JoinPool
    <2> QED  BY <2>1 DEF NoEarlyStop, Full, CrawlJobs, Fetching, NothingLost, LostJobs
  <1>2. CASE Working
    <2>1. tpc' = tpc /\ job' = job /\ UNCHANGED <<urlqueue, pages_lost>> /\ vertex' = vertex
      BY <1>2 DEF Working, WorkGoto, Check, WaitWork, Size, Top, Insert, Skip, Ask, AskNoMemory, AskIncrease, AskPost, Done, SetExit, PostExit, Return
    <2>2. ~Full /\ Fetching' = Fetching
      BY <2>1 DEF Full, Fetching
    <2>3. CASE Check
      <3>1. global_lock = 0 /\ wpc = "check" /\ UNCHANGED <<job_queue, jobs_lost>>
        BY <2>2, <2>3 DEF Check, WorkGoto
      <3>2. urlqueue = <<>> /\ CrawlJobs = {} /\ Fetching = {} /\ NothingLost
        BY <3>1, LockMeansWork
      <3> QED  BY <2>1, <2>2, <3>1, <3>2 DEF CrawlJobs, LostJobs, NothingLost
    <2>4. CASE SetExit
      <3>1. CrawlJobs' = CrawlJobs /\ LostJobs' = LostJobs
        BY <2>4, JobsAppend DEF SetExit, TypeInv
      <3> QED  BY <2>1, <2>2, <2>4, <3>1 DEF SetExit, WorkGoto, NoEarlyStop, NothingLost
    <2>5. CASE PostExit \/ Return
      BY <2>1, <2>2, <2>5 DEF PostExit, Return, PostJob, WorkGoto, NoEarlyStop, CrawlJobs, LostJobs, NothingLost
    <2> QED  BY <1>2, <2>3, <2>4, <2>5 DEF Working, WorkGoto, WaitWork, Size, Top, Insert, Skip, Ask, AskNoMemory, AskIncrease, AskPost, Done
  <1>3. ASSUME NEW t \in Threads, Pool(t) \/ Crawl(t)
        PROVE  urlqueue' = <<>> /\ CrawlJobs' = {} /\ Fetching' = {} /\ NothingLost'
    <2>1. wpc' = wpc /\ vertex' = vertex
      BY <1>3 DEF Pool, Crawl, BeginCrawl, Fetched, Dropped, Failed, CountUrl, PostUrl, Release, Signal
    <2>2. urlqueue = <<>> /\ CrawlJobs = {} /\ Fetching = {} /\ NothingLost
      BY <2>1 DEF NoEarlyStop, Full, NothingLost
    <2>3. t \notin Fetching
      BY <2>2
    <2>4. CASE GetJob(t)
      <3>1. Head(job_queue) = Exit
        BY <2>2, <2>4, JobsTail DEF GetJob, TypeInv
      <3>2. CrawlJobs' = {}
        BY <2>2, <2>4, <3>1, JobsTail DEF GetJob, TypeInv
      <3>3. Fetching' = Fetching
        BY <2>4, <3>1, CrawlingGet
      <3>4. UNCHANGED <<urlqueue, pages_lost, jobs_lost>>
        BY <1>3, <2>4 DEF GetJob, Goto, Pool, Crawl, BeginCrawl, Fetched, Dropped, Failed, CountUrl, PostUrl, Release, Signal
      <3> QED  BY <2>2, <3>2, <3>3, <3>4 DEF NothingLost, LostJobs
    <2>5. CASE ~GetJob(t)
      <3>1. UNCHANGED <<job_queue, jobs_lost, job, urlqueue, pages_lost>>
        BY <1>3, <2>3, <2>5 DEF Pool, PoolStep, Start, Test, WaitJob, DoExit, Finish, Goto, Crawl, BeginCrawl, Fetched, Dropped, Failed, CountUrl, PostUrl, Release, Signal, Fetching
      <3>2. /\ \A u \in Threads \ {t} : tpc'[u] = tpc[u]
            /\ tpc'[t] \notin {"crawl", "run"}
        BY <1>3, <2>3, <2>5 DEF Pool, PoolStep, Start, Test, WaitJob, DoExit, Finish, Goto, Crawl, BeginCrawl, Fetched, Dropped, Failed, CountUrl, PostUrl, Release, Signal, Fetching, TypeInv, TypeOK
      <3> QED  BY <2>2, <3>1, <3>2 DEF CrawlJobs, Fetching, NothingLost, LostJobs
    <2> QED  BY <2>4, <2>5
  <1>4. CASE Still
    BY <1>4 DEF Still, NoEarlyStop, Full, CrawlJobs, Fetching, NothingLost, LostJobs
  <1> QED  BY <1>1, <1>2, <1>3, <1>4, Moves

\* While do_work waits, the crawl job that will wake it stays, or its post is
\* there.
LEMMA NotStrandedStep ==
    /\ TypeInv /\ Control /\ Accounting /\ UrlTokens /\ WorkerNotStranded /\ [Next]_vars
    => WorkerNotStranded'
  <1> DEFINE Signalling == At({"signal"})
  <1> SUFFICES ASSUME TypeInv, Control, Accounting, UrlTokens, WorkerNotStranded, [Next]_vars,
                      wpc' = "wait", NothingLost'
               PROVE  (work_sem > 0 \/ CrawlJobs # {} \/ Crawling \cup Signalling # {})'
    BY DEF WorkerNotStranded, NothingLost
  <1>0. NothingLost
    BY LossStays
  <1> USE <1>0 DEF NothingLost
  <1>1. CASE Main
    <2>1. UNCHANGED <<wpc, work_sem, tpc, job>> /\ wpc = "wait"
      BY <1>1 DEF Main, MainGoto, Control, SeedSet, SeedNoMemory, SeedIncrease, SeedPost, CreateWorker, CreateFails, JoinWorker, JoinPool
    <2>2. job_queue' = job_queue
      BY <1>1, <2>1 DEF Main, MainGoto, Control, SeedSet, SeedNoMemory, SeedIncrease, SeedPost, CreateWorker, CreateFails, JoinWorker, JoinPool
    <2> QED  BY <2>1, <2>2 DEF WorkerNotStranded, CrawlJobs, Crawling, At
  <1>2. CASE Working
    <2>1. Check
      BY <1>2 DEF Working, WorkGoto, WaitWork, Size, Top, Insert, Skip, Ask, AskNoMemory, AskIncrease, AskPost, Done, SetExit, PostExit, Return
    <2>2. global_lock # 0 /\ wpc = "check"
      BY <2>1 DEF Check, WorkGoto
    <2>3. work_sem > 0 \/ CrawlJobs # {} \/ Crawling # {}
      BY <2>2, LockMeansWork
    <2>4. UNCHANGED <<work_sem, job_queue, tpc, job>>
      BY <2>1 DEF Check
    <2> QED  BY <2>3, <2>4 DEF CrawlJobs, Crawling
  <1>3. ASSUME NEW t \in Threads, Pool(t) \/ Crawl(t)
        PROVE  (work_sem > 0 \/ CrawlJobs # {} \/ Crawling \cup Signalling # {})'
    <2>1. wpc = "wait" /\ work_sem \in Nat
      BY <1>3 DEF TypeInv, TypeOK, Pool, Crawl, BeginCrawl, Fetched, Dropped, Failed, CountUrl, PostUrl, Release, Signal
    <2>2. CASE GetJob(t)
      <3>1. work_sem' = work_sem
        BY <1>3, <2>2 DEF GetJob, Goto, Pool, Crawl, BeginCrawl, Fetched, Dropped, Failed, CountUrl, PostUrl, Release, Signal
      <3>2. Crawling \subseteq Crawling' /\ Signalling \subseteq Signalling'
        BY <2>2, CrawlingGet DEF GetJob, Goto, At, TypeInv, TypeOK
      <3>3. CrawlJobs # {} => CrawlJobs' # {} \/ Crawling' # {}
        BY <2>2, CrawlingGet, JobsTail DEF GetJob, TypeInv
      <3> QED  BY <2>1, <3>1, <3>2, <3>3 DEF WorkerNotStranded
    <2>3. CASE Release(t)
      <3>1. t \in Signalling'
        BY <2>3 DEF Release, Goto, At, TypeInv, TypeOK
      <3> QED  BY <3>1
    <2>4. CASE PostUrl(t) \/ Signal(t)
      BY <2>1, <2>4 DEF PostUrl, Signal, PostWork
    <2>5. CASE \/ Start(t) \/ Test(t) \/ WaitJob(t) \/ DoExit(t) \/ Finish(t)
               \/ BeginCrawl(t) \/ Fetched(t) \/ Dropped(t) \/ Failed(t) \/ CountUrl(t)
      <3>1. UNCHANGED <<work_sem, job_queue>>
        BY <1>3, <2>5 DEF Pool, Start, Test, WaitJob, DoExit, Finish, Goto, Crawl, BeginCrawl, Fetched, Dropped, Failed, CountUrl, PostUrl, Release, Signal
      <3>2. Crawling' = Crawling
        BY <2>5, CrawlingKept
      <3>3. Signalling \subseteq Signalling'
        BY <2>5 DEF At, TypeInv, TypeOK, Start, Test, WaitJob, DoExit, Finish, Goto, BeginCrawl, Fetched, Dropped, Failed, CountUrl
      <3> QED  BY <2>1, <3>1, <3>2, <3>3 DEF WorkerNotStranded, CrawlJobs
    <2> QED  BY <1>3, <2>2, <2>3, <2>4, <2>5 DEF Pool, PoolStep, Crawl
  <1>4. CASE Still
    BY <1>4 DEF Still, WorkerNotStranded, CrawlJobs, Crawling, At
  <1> QED  BY <1>1, <1>2, <1>3, <1>4, Moves

-----------------------------------------------------------------------------
(* The vertex array has room. *)

(* do_work looks at the size of the array before it waits for a page.      *)
RoomInv == wpc \in {"wait", "size", "top", "insert"} => ~Full

\* A page is recorded only in an array that is not full.
LEMMA TableBoundStep ==
    TypeInv /\ Control /\ TableBound /\ RoomInv /\ [Next]_vars => TableBound' /\ RoomInv'
  <1> SUFFICES ASSUME TypeInv, Control, TableBound, RoomInv, [Next]_vars PROVE TableBound' /\ RoomInv'
    OBVIOUS
  <1> USE DEF TableBound, RoomInv, Full
  <1>1. vertex \in Seq([addr : Urls, edge : Seq(Urls)]) /\ Len(vertex) \in Nat /\ VertexMax \in Nat
    BY LenProperties, UrlsAssumption DEF TypeInv, TypeOK
  <1>2. CASE Main
    BY <1>2 DEF Control, Main, MainGoto, SeedSet, SeedNoMemory, SeedIncrease, SeedPost, CreateWorker, CreateFails, JoinWorker, JoinPool
  <1>3. CASE Insert
    <2>1. vertex' \in Seq([addr : Urls, edge : Seq(Urls)]) /\ wpc = "insert" /\ wpc' = "iter"
      BY SMTT(30), <1>3, TypeWork DEF TypeInv, TypeOK, Working, Insert, WorkGoto
    <2>2. PICK edges \in Edges(link_info.link_url) : InsertEdge(link_info.url, link_info.link_url, edges)
      BY <1>3 DEF Insert
    <2>3. Len(vertex') <= Len(vertex) + 1
      <3>1. CASE ~IsVertex(link_info.url)
        <4>1. [addr |-> link_info.url, edge |-> edges] \in [addr : Urls, edge : Seq(Urls)]
          BY EdgesStored, StoredLinks DEF TypeInv, TypeOK
        <4> QED  BY <1>1, <2>2, <3>1, <4>1, AppendProperties DEF InsertEdge
      <3>2. CASE IsVertex(link_info.url)
        <4>1. DOMAIN vertex' = DOMAIN vertex
          BY <2>2, <3>2 DEF InsertEdge
        <4>2. Len(vertex') = Len(vertex)
          BY <1>1, <2>1, <4>1, LenProperties
        <4> QED  BY <1>1, <4>2
      <3> QED  BY <3>1, <3>2
    <2>4. Len(vertex') \in Nat
      BY <2>1, LenProperties
    <2> QED  BY <1>1, <2>1, <2>3, <2>4
  <1>4. CASE Working /\ ~Insert
    BY <1>4 DEF Working, WorkGoto, Check, WaitWork, Size, Top, Skip, Ask, AskNoMemory, AskIncrease, AskPost, Done, SetExit, PostExit, Return
  <1>5. CASE \E t \in Threads : Pool(t) \/ Crawl(t)
    BY <1>5 DEF Pool, Crawl, BeginCrawl, Fetched, Dropped, Failed, CountUrl, PostUrl, Release, Signal
  <1>6. CASE Still
    BY <1>6 DEF Still
  <1> QED  BY <1>2, <1>3, <1>4, <1>5, <1>6, Moves

-----------------------------------------------------------------------------
(* The theorems. *)

(* The inductive invariant of the stopping protocol.                       *)
StopInv ==
    /\ TypeInv
    /\ Control
    /\ TokensMatchJobs
    /\ Accounting
    /\ UrlTokens /\ TopInv
    /\ NoEarlyStop
    /\ WorkerNotStranded
    /\ TableBound /\ RoomInv

\* The invariant of the stopping protocol holds at the start.
LEMMA StopInit == Init => StopInv
  <1> SUFFICES ASSUME Init PROVE StopInv
    OBVIOUS
  <1> USE DEF Init, PoolInit, WebGraphInit
  <1>1. \A L : At(L) = {t \in Threads : "start" \in L}
    BY DEF At
  <1>2. CrawlJobs = {} /\ LostJobs = {} /\ Crawling = {} /\ Fetching = {} /\ At({"get"}) = {} /\ At({"count"}) = {} /\ At({"count", "posturl"}) = {}
    BY <1>1 DEF CrawlJobs, LostJobs, Crawling, Fetching, Crawls
  <1>3. Count({}) = 0 /\ Len(<<>>) = 0
    BY FS_EmptySet DEF Count
  <1>4. TokensMatchJobs /\ Accounting /\ UrlTokens
    <2>1. Len(job_queue) = 0 /\ Len(jobs_lost) = 0 /\ Len(urlqueue) = 0 /\ Len(pages_lost) = 0 /\ job_sem = 0 /\ work_sem = 0 /\ global_lock = 0
      BY <1>3
    <2>2. mpc = "seed" /\ wpc = "off"
      OBVIOUS
    <2>3. /\ Count(CrawlJobs) = 0 /\ Count(LostJobs) = 0 /\ Count(Crawling) = 0 /\ Count(At({"get"})) = 0
          /\ Count(At({"count"})) = 0 /\ Count(At({"count", "posturl"})) = 0
      BY <1>2, <1>3
    <2> HIDE DEF Init
    <2> QED  BY <2>1, <2>2, <2>3 DEF TokensMatchJobs, Accounting, UrlTokens, Bit, Recording
  <1>5. TableBound
    BY <1>3, UrlsAssumption DEF TableBound
  <1> QED  BY <1>4, <1>5, TypeInit DEF StopInv, Control, TopInv, RoomInv, NoEarlyStop, WorkerNotStranded, Stopping

\* Every step keeps the invariant of the stopping protocol.
LEMMA StopStep == StopInv /\ [Next]_vars => StopInv'
  <1> SUFFICES ASSUME StopInv, [Next]_vars PROVE StopInv'
    OBVIOUS
  <1> USE DEF StopInv
  <1>1. TypeInv' /\ Control'
    BY TypeStep, ControlStep
  <1>2. TokensMatchJobs' /\ Accounting'
    <2>1. CASE Main \/ Working \/ \E t \in Threads : Pool(t) \/ Crawl(t)
      BY <2>1, TokensMain, TokensWork, TokensThread, AccountMain, AccountWork, AccountThread
    <2>2. CASE Still
      BY <2>2 DEF Still, TokensMatchJobs, Accounting, CrawlJobs, LostJobs, Crawling, At
    <2> QED  BY <2>1, <2>2, Moves
  <1>3. UrlTokens' /\ TopInv'
    BY UrlTokensStep
  <1>4. NoEarlyStop' /\ WorkerNotStranded'
    BY NoEarlyStopStep, NotStrandedStep
  <1>5. TableBound' /\ RoomInv'
    BY TableBoundStep
  <1> QED  BY <1>1, <1>2, <1>3, <1>4, <1>5

\* The whole invariant of the stopping protocol always holds.
THEOREM Stop == Spec => []StopInv
  BY StopInit, StopStep, PTL DEF Spec

\* Every job in the queue or dropped has its post: in the semaphore, taken, or
\* to come.
THEOREM TokensAlwaysMatch == Spec => []TokensMatchJobs
  <1>1. StopInv => TokensMatchJobs
    BY DEF StopInv
  <1> QED  BY <1>1, Stop, PTL

\* No queue is ever topped empty, if no job was dropped.
THEOREM TopIsSafe == Spec => []NeverTopEmpty
  <1>1. StopInv => NeverTopEmpty
    <2> SUFFICES ASSUME StopInv PROVE NeverTopEmpty
      OBVIOUS
    <2>1. ASSUME jobs_lost = <<>>, At({"get"}) # {} PROVE job_queue # <<>>
      <3>1. Count(At({"get"})) \in Nat \ {0}
        BY <2>1, AtFinite, FS_EmptySet DEF Count
      <3>2. Len(jobs_lost) = 0
        BY <2>1
      <3>3. job_sem \in Nat /\ Len(job_queue) > 0
        BY <3>1, <3>2, LenProperties DEF StopInv, TypeInv, TypeOK, TokensMatchJobs, Bit
      <3> QED  BY <3>3, EmptySeq
    <2> QED  BY <2>1 DEF NeverTopEmpty, StopInv, TopInv
  <1> QED  BY <1>1, Stop, PTL

\* global_lock always is the count of the work not finished, dropped work with it.
THEOREM LockCounts == Spec => []Accounting
  <1>1. StopInv => Accounting
    BY DEF StopInv
  <1> QED  BY <1>1, Stop, PTL

\* Every page fetched has its post: in the semaphore, taken, or to come.
THEOREM PagesAnnounced == Spec => []UrlTokens
  <1>1. StopInv => UrlTokens
    BY DEF StopInv
  <1> QED  BY <1>1, Stop, PTL

\* do_work stops the pool only when the crawl is over or the graph is full.
THEOREM StopsInTime == Spec => []NoEarlyStop
  <1>1. StopInv => NoEarlyStop
    BY DEF StopInv
  <1> QED  BY <1>1, Stop, PTL

\* do_work never waits for a post that nobody will make, unless a page or a job
\* was dropped.
THEOREM WorkerIsWoken == Spec => []WorkerNotStranded
  <1>1. StopInv => WorkerNotStranded
    BY DEF StopInv
  <1> QED  BY <1>1, Stop, PTL

\* The vertex array is never written past its end.
THEOREM TableIsBounded == Spec => []TableBound
  <1>1. StopInv => TableBound
    BY DEF StopInv
  <1> QED  BY <1>1, Stop, PTL

-----------------------------------------------------------------------------
(* Counting the places of an element in a sequence. *)

\* They are finitely many.
LEMMA OccursFinite ==
    ASSUME NEW S, NEW s \in Seq(S), NEW u
    PROVE  IsFiniteSet(Occurs(s, u)) /\ Count(Occurs(s, u)) \in Nat
  <1>1. Len(s) \in Nat
    BY LenProperties
  <1>2. IsFiniteSet(1..Len(s))
    BY <1>1, FS_Interval
  <1>3. IsFiniteSet(Occurs(s, u))
    BY <1>2, FS_Subset DEF Occurs
  <1> QED  BY <1>3, FS_CardinalityType DEF Count

\* One more element at the end of a sequence is one more place, where it is
\* the one counted.
LEMMA CountAppend ==
    ASSUME NEW S, NEW s \in Seq(S), NEW e \in S, NEW u
    PROVE  Count(Occurs(Append(s, e), u)) = Count(Occurs(s, u)) + Bit(e = u)
  <1> DEFINE n == Len(s)
             r == Append(s, e)
             Old == Occurs(s, u)
             New == Occurs(r, u)
  <1>1. n \in Nat
    BY LenProperties
  <1>2. Len(r) = n + 1 /\ r[n + 1] = e /\ \A i \in 1..n : r[i] = s[i]
    BY AppendProperties
  <1>3. IsFiniteSet(1..n)
    BY <1>1, FS_Interval
  <1>4. IsFiniteSet(Old)
    BY <1>3, FS_Subset DEF Occurs
  <1>5. Cardinality(Old) \in Nat
    BY <1>4, FS_CardinalityType
  <1> HIDE DEF r
  <1>6. CASE e = u
    <2>1. New = Old \cup {n + 1} /\ n + 1 \notin Old
      BY <1>1, <1>2, <1>6 DEF Occurs
    <2>2. Cardinality(New) = Cardinality(Old) + 1
      BY <1>4, <2>1, FS_AddElement
    <2> QED  BY <1>6, <2>2 DEF Count, Bit, r
  <1>7. CASE e # u
    <2>1. New = Old
      BY <1>1, <1>2, <1>7 DEF Occurs
    <2> QED  BY <1>5, <1>7, <2>1 DEF Count, Bit, r
  <1> QED  BY <1>6, <1>7

\* And the first element gone is one place less.
LEMMA CountTail ==
    ASSUME NEW S, NEW s \in Seq(S), s # <<>>, NEW u
    PROVE  Count(Occurs(Tail(s), u)) = Count(Occurs(s, u)) - Bit(Head(s) = u)
  <1> DEFINE n == Len(s)
             r == Tail(s)
             All == Occurs(s, u)
             Old == All \ {1}
             New == Occurs(r, u)
  <1>1. n \in Nat \ {0} /\ Head(s) = s[1]
    BY EmptySeq
  <1>2. Len(r) = n - 1 /\ \A i \in 1..(n - 1) : r[i] = s[i + 1]
    BY HeadTailProperties
  <1>3. IsFiniteSet(1..n)
    BY <1>1, FS_Interval
  <1>4. IsFiniteSet(All)
    BY <1>3, FS_Subset DEF Occurs
  <1>5. Cardinality(All) \in Nat
    BY <1>4, FS_CardinalityType
  <1>6. 1 \in All <=> Head(s) = u
    BY <1>1 DEF Occurs
  <1>7. IsFiniteSet(Old) /\ Cardinality(Old) = Cardinality(All) - Bit(Head(s) = u)
    <2>1. CASE Head(s) = u
      <3>1. 1 \in All
        BY <1>6, <2>1
      <3> QED  BY <1>4, <2>1, <3>1, FS_RemoveElement DEF Bit
    <2>2. CASE Head(s) # u
      <3>1. Old = All
        BY <1>6, <2>2
      <3>2. Cardinality(Old) = Cardinality(All)
        BY <3>1
      <3> HIDE DEF Old, All
      <3> QED  BY <1>4, <1>5, <2>2, <3>1, <3>2 DEF Bit
    <2> QED  BY <2>1, <2>2
  <1> HIDE DEF r
  <1>8. ExistsBijection(Old, New)
    <2> DEFINE f == [i \in Old |-> i - 1]
    <2>1. \A i \in Old : i \in 2..n /\ i - 1 \in New
      BY <1>1, <1>2 DEF Occurs
    <2>2. f \in [Old -> New]
      BY <2>1
    <2>3. \A i, k \in Old : f[i] = f[k] => i = k
      BY <2>1
    <2>4. f \in Injection(Old, New)
      BY <2>2, <2>3 DEF Injection, IsInjective
    <2>5. \A i \in New : i + 1 \in Old /\ f[i + 1] = i
      BY <1>1, <1>2 DEF Occurs
    <2>6. f \in Surjection(Old, New)
      BY <2>2, <2>5 DEF Surjection
    <2> QED  BY <2>4, <2>6 DEF Bijection, ExistsBijection
  <1>9. Cardinality(New) = Cardinality(Old)
    BY <1>7, <1>8, FS_Bijection
  <1>10. Count(New) = Count(All) - Bit(Head(s) = u)
    BY <1>7, <1>9 DEF Count
  <1> QED  BY <1>10 DEF r

-----------------------------------------------------------------------------
(* The inductive invariant of the pool. *)

Serving == {"wait", "get", "run", "signal"} \cup Crawls
Running == {"run", "signal", "end"} \cup Crawls

(* A thread is busy from its start to the run of its exit job.             *)
FlagInv ==
    \A t \in Threads :
        /\ tpc[t] \in Serving => idle[t] = "BUSY"
        /\ tpc[t] = "gone" => idle[t] = "IDLE"

(* No crawl job is behind an exit job.                                     *)
ExitsLast ==
    \A i, j \in 1..Len(job_queue) : i < j /\ job_queue[i] = Exit => job_queue[j] = Exit

(* The exit jobs set are those in the queue, dropped and taken.            *)
ExitsCounted ==
    /\ (Count(Occurs(job_queue, Exit)) + Count(Occurs(jobs_lost, Exit))) + Count(Leaving) =
          exits + Bit(wpc = "exitpost")
    /\ wpc \notin Stopping => exits = 0
    /\ wpc = "returned" => exits = Cardinality(Threads)

LeavingLast == Leaving # {} => CrawlJobs = {}

(* An exit job is set in the loop's body only.                             *)
PostPending == wpc = "exitpost" => exits < Cardinality(Threads)

IdleCounted == thread_idle = Cardinality(Threads) - Count(At(Running))

JoinInv == mpc = "report" => Joined

PoolInv ==
    /\ FlagInv
    /\ ExitsLast /\ ExitsCounted /\ LeavingLast /\ PostPending
    /\ IdleCounted
    /\ JoinInv

\* The threads on their way out are finitely many.
LEMMA LeavingFinite == IsFiniteSet(Leaving) /\ Count(Leaving) \in Nat
  <1>1. Leaving \subseteq Threads
    BY DEF Leaving
  <1>2. IsFiniteSet(Leaving)
    BY <1>1, ThreadsAssumption, FS_Subset
  <1> QED  BY <1>2, FS_CardinalityType DEF Count

\* Before do_work stops the pool there is no exit job, waiting, dropped or taken.
LEMMA NoExits ==
    ASSUME TypeInv, ExitsCounted, wpc \notin Stopping
    PROVE  Leaving = {} /\ Occurs(job_queue, Exit) = {} /\ Occurs(jobs_lost, Exit) = {}
  <1>1. (Count(Occurs(job_queue, Exit)) + Count(Occurs(jobs_lost, Exit))) + Count(Leaving) = 0
    BY DEF ExitsCounted, Bit, Stopping
  <1>2. /\ IsFiniteSet(Occurs(job_queue, Exit)) /\ Count(Occurs(job_queue, Exit)) \in Nat
        /\ IsFiniteSet(Occurs(jobs_lost, Exit)) /\ Count(Occurs(jobs_lost, Exit)) \in Nat
    BY OccursFinite DEF TypeInv, TypeOK
  <1>3. Count(Occurs(job_queue, Exit)) = 0 /\ Count(Occurs(jobs_lost, Exit)) = 0 /\ Count(Leaving) = 0
    BY <1>1, <1>2, LeavingFinite
  <1> QED  BY <1>2, <1>3, LeavingFinite, FS_EmptySet DEF Count

-----------------------------------------------------------------------------
(* The flags of the threads. *)

\* The flag of a thread says what the thread does.
LEMMA FlagStep == TypeInv /\ FlagInv /\ [Next]_vars => FlagInv'
  <1> SUFFICES ASSUME TypeInv, FlagInv, [Next]_vars PROVE FlagInv'
    OBVIOUS
  <1>1. CASE UNCHANGED <<tpc, idle>>
    BY <1>1 DEF FlagInv
  <1>2. CASE Main \/ Working
    <2>1. UNCHANGED <<tpc, idle>>
      BY <1>2 DEF Main, SeedSet, SeedNoMemory, SeedIncrease, SeedPost, CreateWorker, CreateFails, JoinWorker, JoinPool, Working, Check, WaitWork, Size, Top, Insert, Skip, Ask, AskNoMemory, AskIncrease, AskPost, Done, SetExit, PostExit, Return
    <2> QED  BY <1>1, <2>1
  <1>3. ASSUME NEW t \in Threads, Pool(t) \/ Crawl(t)
        PROVE  FlagInv'
    <2>1. \A w \in Threads \ {t} : tpc'[w] = tpc[w] /\ idle'[w] = idle[w]
      BY <1>3 DEF TypeInv, TypeOK, Pool, PoolStep, Start, Test, WaitJob, GetJob, DoExit, Finish, Goto, Crawl, BeginCrawl, Fetched, Dropped, Failed, CountUrl, PostUrl, Release, Signal
    <2>2. /\ tpc'[t] \in Serving => idle'[t] = "BUSY"
          /\ tpc'[t] = "gone" => idle'[t] = "IDLE"
      <3>1. CASE Pool(t)
        BY <3>1 DEF FlagInv, Serving, Crawls, TypeInv, TypeOK, Pool, PoolStep, Start, Test, WaitJob, GetJob, DoExit, Finish, Goto
      <3>2. CASE Crawl(t)
        BY <3>2 DEF FlagInv, Serving, Crawls, TypeInv, TypeOK, Goto, Crawl, BeginCrawl, Fetched, Dropped, Failed, CountUrl, PostUrl, Release, Signal
      <3> QED  BY <1>3, <3>1, <3>2
    <2> QED  BY <2>1, <2>2 DEF FlagInv
  <1>4. CASE Still
    BY <1>1, <1>4 DEF Still
  <1> QED  BY <1>2, <1>3, <1>4, Moves

\* A thread starts to leave when it takes an exit job, and only then.
LEMMA LeavingStep ==
    ASSUME TypeInv, FlagInv, NEW t \in Threads, Pool(t) \/ Crawl(t)
    PROVE  /\ ~GetJob(t) => Leaving' = Leaving
           /\ GetJob(t) => /\ Leaving' = IF Head(job_queue) = Exit THEN Leaving \cup {t} ELSE Leaving
                           /\ t \notin Leaving
  <1> USE DEF TypeInv, TypeOK
  <1>1. \A w \in Threads \ {t} : tpc'[w] = tpc[w] /\ idle'[w] = idle[w] /\ job'[w] = job[w]
    BY DEF Pool, PoolStep, Start, Test, WaitJob, GetJob, DoExit, Finish, Goto, Crawl, BeginCrawl, Fetched, Dropped, Failed, CountUrl, PostUrl, Release, Signal
  <1>2. CASE GetJob(t)
    <2>1. tpc[t] = "get" /\ tpc'[t] = "run" /\ job'[t] = Head(job_queue) /\ idle' = idle
      BY <1>2 DEF GetJob, Goto
    <2>2. idle[t] = "BUSY"
      BY <2>1 DEF FlagInv, Serving
    <2> QED  BY <1>1, <1>2, <2>1, <2>2 DEF Leaving
  <1>3. CASE ~GetJob(t)
    <2>1. t \in Leaving' <=> t \in Leaving
      <3>1. CASE Pool(t)
        BY <1>3, <3>1 DEF Leaving, Pool, PoolStep, Start, Test, WaitJob, DoExit, Finish, Goto
      <3>2. CASE Crawl(t)
        BY <3>2 DEF Leaving, Goto, Crawl, Crawls, BeginCrawl, Fetched, Dropped, Failed, CountUrl, PostUrl, Release, Signal
      <3> QED  BY <3>1, <3>2
    <2>2. \A w \in Threads \ {t} : w \in Leaving' <=> w \in Leaving
      BY <1>1 DEF Leaving
    <2>3. Leaving \subseteq Threads /\ Leaving' \subseteq Threads
      BY DEF Leaving
    <2>4. Leaving' = Leaving
      <3> DEFINE Old == Leaving
                 New == Leaving'
      <3>1. Old \subseteq Threads /\ New \subseteq Threads /\ \A w \in Threads : w \in New <=> w \in Old
        BY <2>1, <2>2, <2>3
      <3> HIDE DEF Old, New
      <3>2. New = Old
        BY <3>1
      <3> QED  BY <3>2 DEF Old, New
    <2> QED  BY <1>3, <2>4
  <1> QED  BY <1>2, <1>3

-----------------------------------------------------------------------------
(* Exit jobs. *)

\* A crawl job is set only where no exit job is, so it comes before them.
LEMMA SetBeforeExits ==
    ASSUME TypeInv, ExitsLast, ExitsCounted, NEW j \in Urls \cup {Exit}, SetJob(j),
           j = Exit \/ wpc \notin Stopping
    PROVE  ExitsLast'
  <1> DEFINE n == Len(job_queue)
  <1>0. CASE job_queue' = job_queue
    BY <1>0 DEF ExitsLast
  <1> SUFFICES ASSUME job_queue' = Append(job_queue, j) PROVE ExitsLast'
    BY <1>0 DEF SetJob
  <1>1. job_queue \in Seq(Urls \cup {Exit}) /\ n \in Nat
    BY LenProperties DEF TypeInv, TypeOK
  <1>2. /\ Len(job_queue') = n + 1
        /\ \A i \in 1..n : job_queue'[i] = job_queue[i]
        /\ job_queue'[n + 1] = j
    BY <1>1, AppendProperties
  <1>3. CASE j = Exit
    BY <1>1, <1>2, <1>3 DEF ExitsLast
  <1>4. CASE wpc \notin Stopping
    <2>1. \A i \in 1..n : job_queue[i] # Exit
      BY <1>4, NoExits DEF Occurs
    <2> QED  BY <1>1, <1>2, <2>1 DEF ExitsLast
  <1> QED  BY <1>3, <1>4

\* Every step leaves the exit jobs at the end of the queue.
LEMMA ExitsLastStep ==
    TypeInv /\ Control /\ ExitsLast /\ ExitsCounted /\ [Next]_vars => ExitsLast'
  <1> SUFFICES ASSUME TypeInv, Control, ExitsLast, ExitsCounted, [Next]_vars PROVE ExitsLast'
    OBVIOUS
  <1>1. CASE job_queue' = job_queue
    BY <1>1 DEF ExitsLast
  <1>2. CASE SeedSet
    <2>1. wpc \notin Stopping
      BY <1>2 DEF SeedSet, MainGoto, Control, Stopping
    <2> QED  BY <1>2, <2>1, SetBeforeExits, UrlsAssumption DEF SeedSet
  <1>3. CASE Ask
    <2>1. wpc \notin Stopping /\ Head(rest) \in Urls
      BY <1>3, HeadTailProperties DEF Ask, WorkGoto, Stopping, TypeInv, TypeOK
    <2> QED  BY <1>3, <2>1, SetBeforeExits DEF Ask
  <1>4. CASE SetExit
    BY <1>4, SetBeforeExits DEF SetExit
  <1>5. CASE \E t \in Threads : GetJob(t)
    <2> DEFINE n == Len(job_queue)
    <2>1. /\ job_queue \in Seq(Urls \cup {Exit}) /\ n \in Nat \ {0}
          /\ Len(job_queue') = n - 1
          /\ \A i \in 1..(n - 1) : job_queue'[i] = job_queue[i + 1]
      BY <1>5, EmptySeq, HeadTailProperties DEF GetJob, TypeInv, TypeOK
    <2> QED  BY <2>1 DEF ExitsLast
  <1>6. CASE ~SeedSet /\ ~Ask /\ ~SetExit /\ ~(\E t \in Threads : GetJob(t))
    <2>1. job_queue' = job_queue
      <3>1. CASE Main
        BY <1>6, <3>1 DEF Main, SeedNoMemory, SeedIncrease, SeedPost, CreateWorker, CreateFails, JoinWorker, JoinPool
      <3>2. CASE Working
        BY <1>6, <3>2 DEF Working, Check, WaitWork, Size, Top, Insert, Skip, AskNoMemory, AskIncrease, AskPost, Done, PostExit, Return
      <3>3. CASE \E t \in Threads : Pool(t) \/ Crawl(t)
        BY <1>6, <3>3 DEF Pool, PoolStep, Start, Test, WaitJob, DoExit, Finish, Crawl, BeginCrawl, Fetched, Dropped, Failed, CountUrl, PostUrl, Release, Signal
      <3>4. CASE Still
        BY <3>4 DEF Still
      <3> QED  BY <3>1, <3>2, <3>3, <3>4, Moves
    <2> QED  BY <1>1, <2>1
  <1> QED  BY <1>2, <1>3, <1>4, <1>5, <1>6

\* Every step keeps the count of the exit jobs.
LEMMA ExitsCountedStep ==
    TypeInv /\ Control /\ FlagInv /\ ExitsCounted /\ [Next]_vars => ExitsCounted'
  <1> SUFFICES ASSUME TypeInv, Control, FlagInv, ExitsCounted, [Next]_vars PROVE ExitsCounted'
    OBVIOUS
  <1> USE DEF ExitsCounted, Bit
  <1> DEFINE Q == Count(Occurs(job_queue, Exit))
             D == Count(Occurs(jobs_lost, Exit))
             E == Count(Occurs(job_queue, Exit)) + Count(Occurs(jobs_lost, Exit))
             L == Count(Leaving)
  <1>1. /\ job_queue \in Seq(Urls \cup {Exit}) /\ jobs_lost \in Seq(Urls \cup {Exit})
        /\ Q \in Nat /\ D \in Nat /\ E \in Nat /\ L \in Nat /\ exits \in Nat
    BY OccursFinite, LeavingFinite, ThreadCount DEF TypeInv, TypeOK
  <1>2. ASSUME NEW j \in Urls \cup {Exit}, SetJob(j)
        PROVE  E' = E + IF j = Exit THEN 1 ELSE 0
    <2>1. CASE job_queue' = Append(job_queue, j) /\ UNCHANGED jobs_lost
      <3>1. Q' = Q + Bit(j = Exit) /\ D' = D
        <4>1. Count(Occurs(Append(job_queue, j), Exit)) = Count(Occurs(job_queue, Exit)) + Bit(j = Exit)
          BY <1>1, CountAppend
        <4> QED  BY <2>1, <4>1
      <3> HIDE DEF Q, D
      <3>2. E' = Q' + D' /\ E = Q + D
        BY DEF Q, D
      <3> QED  BY <1>1, <3>1, <3>2
    <2>2. CASE jobs_lost' = Append(jobs_lost, j) /\ UNCHANGED job_queue
      <3>1. D' = D + Bit(j = Exit) /\ Q' = Q
        <4>1. Count(Occurs(Append(jobs_lost, j), Exit)) = Count(Occurs(jobs_lost, Exit)) + Bit(j = Exit)
          BY <1>1, CountAppend
        <4> QED  BY <2>2, <4>1
      <3> HIDE DEF Q, D
      <3>2. E' = Q' + D' /\ E = Q + D
        BY DEF Q, D
      <3> QED  BY <1>1, <3>1, <3>2
    <2> QED  BY <1>2, <2>1, <2>2 DEF SetJob
  <1>3. ASSUME UNCHANGED <<job_queue, jobs_lost>> PROVE E' = E
    BY <1>3
  <1>4. CASE Main
    <2>1. Leaving' = Leaving /\ UNCHANGED <<exits, tpc>>
      BY <1>4 DEF Leaving, Main, SeedSet, SeedNoMemory, SeedIncrease, SeedPost, CreateWorker, CreateFails, JoinWorker, JoinPool
    <2>2. UNCHANGED wpc \/ (wpc = "off" /\ wpc' = "check")
      BY <1>4 DEF Main, MainGoto, Control, SeedSet, SeedNoMemory, SeedIncrease, SeedPost, CreateWorker, CreateFails, JoinWorker, JoinPool
    <2>3. E' = E
      <3>1. CASE SeedSet
        BY <1>1, <1>2, <3>1, UrlsAssumption DEF SeedSet
      <3>2. CASE ~SeedSet
        BY <1>3, <1>4, <3>2 DEF Main, SeedNoMemory, SeedIncrease, SeedPost, CreateWorker, CreateFails, JoinWorker, JoinPool, PostJob
      <3> QED  BY <3>1, <3>2
    <2>4. L' = L
      BY <2>1
    <2> HIDE DEF E, L
    <2> QED  BY <2>1, <2>2, <2>3, <2>4 DEF Stopping, E, L
  <1>5. CASE Working
    <2>1. Leaving' = Leaving
      BY <1>5 DEF Leaving, Working, Check, WaitWork, Size, Top, Insert, Skip, Ask, AskNoMemory, AskIncrease, AskPost, Done, SetExit, PostExit, Return
    <2>2. L' = L
      BY <2>1
    <2> USE DEF WorkGoto, Stopping
    <2>3. CASE Ask
      <3>1. Head(rest) \in Urls
        BY <2>3, HeadTailProperties DEF Ask, TypeInv, TypeOK
      <3>2. E' = E
        BY <1>1, <1>2, <2>3, <3>1, UrlsAssumption DEF Ask
      <3> HIDE DEF E, L
      <3> QED  BY <1>1, <2>2, <2>3, <3>2 DEF Ask, E, L
    <2>4. CASE SetExit
      <3>1. E' = E + 1
        BY <1>2, <2>4 DEF SetExit
      <3> HIDE DEF E, L
      <3> QED  BY <1>1, <2>2, <2>4, <3>1 DEF SetExit, E, L
    <2>5. CASE ~Ask /\ ~SetExit
      <3>1. E' = E
        BY <1>3, <1>5, <2>5 DEF Working, Check, WaitWork, Size, Top, Insert, Skip, AskNoMemory, AskIncrease, AskPost, Done, PostExit, Return
      <3>2. CASE PostExit
        BY <1>1, <2>2, <3>1, <3>2 DEF PostExit
      <3>3. CASE Check \/ Return
        BY <1>1, <2>2, <3>1, <3>3 DEF Check, Return
      <3>4. CASE ~PostExit /\ ~Check /\ ~Return
        BY <1>1, <1>5, <2>2, <2>5, <3>1, <3>4 DEF Working, WaitWork, Size, Top, Insert, Skip, AskNoMemory, AskIncrease, AskPost, Done
      <3> QED  BY <3>2, <3>3, <3>4
    <2> QED  BY <2>3, <2>4, <2>5
  <1>6. ASSUME NEW t \in Threads, Pool(t) \/ Crawl(t)
        PROVE  ExitsCounted'
    <2>1. UNCHANGED <<wpc, exits>>
      BY <1>6 DEF Pool, Crawl, BeginCrawl, Fetched, Dropped, Failed, CountUrl, PostUrl, Release, Signal
    <2>2. E' + L' = E + L
      <3>1. CASE GetJob(t)
        <4>1. E' = E - IF Head(job_queue) = Exit THEN 1 ELSE 0
          <5>1. Q' = Q - (IF Head(job_queue) = Exit THEN 1 ELSE 0) /\ D' = D
            BY <1>1, <3>1, CountTail DEF GetJob
          <5> HIDE DEF Q, D
          <5>2. E' = Q' + D' /\ E = Q + D
            BY DEF Q, D
          <5> QED  BY <1>1, <5>1, <5>2
        <4>2. Leaving' = (IF Head(job_queue) = Exit THEN Leaving \cup {t} ELSE Leaving) /\ t \notin Leaving
          BY <1>6, <3>1, LeavingStep
        <4>3. L' = L + IF Head(job_queue) = Exit THEN 1 ELSE 0
          <5>1. CASE Head(job_queue) = Exit
            <6>1. Cardinality(Leaving \cup {t}) = Cardinality(Leaving) + 1
              BY <4>2, LeavingFinite, FS_AddElement
            <6> QED  BY <4>2, <5>1, <6>1 DEF Count
          <5>2. CASE Head(job_queue) # Exit
            <6>1. L' = L
              BY <4>2, <5>2
            <6> QED  BY <1>1, <5>2, <6>1
          <5> QED  BY <5>1, <5>2
        <4> QED  BY <1>1, <4>1, <4>3
      <3>2. CASE ~GetJob(t)
        <4>1. UNCHANGED <<job_queue, jobs_lost>>
          BY <1>6, <3>2 DEF Pool, PoolStep, Start, Test, WaitJob, DoExit, Finish, Crawl, BeginCrawl, Fetched, Dropped, Failed, CountUrl, PostUrl, Release, Signal
        <4>2. L' = L
          BY <1>6, <3>2, LeavingStep
        <4> QED  BY <1>3, <4>1, <4>2
      <3> QED  BY <3>1, <3>2
    <2> QED  BY <2>1, <2>2
  <1>7. CASE Still
    BY <1>7 DEF Still, Leaving
  <1> QED  BY <1>4, <1>5, <1>6, <1>7, Moves

\* A thread leaves only when no crawl job is left, and none comes after it.
LEMMA LeavingLastStep ==
    /\ TypeInv /\ Control /\ FlagInv /\ ExitsLast /\ ExitsCounted /\ LeavingLast /\ [Next]_vars
    => LeavingLast'
  <1> SUFFICES ASSUME TypeInv, Control, FlagInv, ExitsLast, ExitsCounted, LeavingLast, [Next]_vars
               PROVE  LeavingLast'
    OBVIOUS
  <1> USE DEF LeavingLast
  <1>1. CASE Main
    <2>1. Leaving' = Leaving
      BY <1>1 DEF Leaving, Main, SeedSet, SeedNoMemory, SeedIncrease, SeedPost, CreateWorker, CreateFails, JoinWorker, JoinPool
    <2>2. CASE SeedSet
      <3>1. wpc \notin Stopping
        BY <2>2 DEF SeedSet, MainGoto, Control, Stopping
      <3> QED  BY <2>1, <3>1, NoExits
    <2>3. CASE ~SeedSet
      <3>1. job_queue' = job_queue
        BY <1>1, <2>3 DEF Main, SeedNoMemory, SeedIncrease, SeedPost, CreateWorker, CreateFails, JoinWorker, JoinPool, PostJob
      <3> QED  BY <2>1, <3>1 DEF CrawlJobs
    <2> QED  BY <2>2, <2>3
  <1>2. CASE Working
    <2>1. Leaving' = Leaving
      BY <1>2 DEF Leaving, Working, Check, WaitWork, Size, Top, Insert, Skip, Ask, AskNoMemory, AskIncrease, AskPost, Done, SetExit, PostExit, Return
    <2>2. CASE Ask
      <3>1. wpc \notin Stopping
        BY <2>2 DEF Ask, WorkGoto, Stopping
      <3> QED  BY <2>1, <3>1, NoExits
    <2>3. CASE SetExit
      <3>1. CrawlJobs' = CrawlJobs
        BY <2>3, JobsAppend DEF SetExit, TypeInv
      <3> QED  BY <2>1, <3>1
    <2>4. CASE ~Ask /\ ~SetExit
      <3>1. job_queue' = job_queue
        BY <1>2, <2>4 DEF Working, Check, WaitWork, Size, Top, Insert, Skip, AskNoMemory, AskIncrease, AskPost, Done, PostExit, Return
      <3> QED  BY <2>1, <3>1 DEF CrawlJobs
    <2> QED  BY <2>2, <2>3, <2>4
  <1>3. ASSUME NEW t \in Threads, Pool(t) \/ Crawl(t)
        PROVE  LeavingLast'
    <2>1. CASE GetJob(t)
      <3>1. CASE Head(job_queue) = Exit
        <4>1. job_queue \in Seq(Urls \cup {Exit}) /\ Len(job_queue) \in Nat \ {0} /\ job_queue[1] = Exit
          BY <2>1, <3>1, EmptySeq DEF GetJob, TypeInv, TypeOK
        <4>2. \A i \in 1..Len(job_queue) : job_queue[i] = Exit
          BY <4>1 DEF ExitsLast
        <4>3. CrawlJobs = {}
          BY <4>2 DEF CrawlJobs
        <4>4. CrawlJobs' = {}
          BY <2>1, <3>1, <4>3, JobsTail DEF GetJob, TypeInv
        <4> QED  BY <4>4
      <3>2. CASE Head(job_queue) # Exit
        <4>1. CrawlJobs # {}
          BY <2>1, <3>2, JobsTail DEF GetJob, TypeInv
        <4>2. Leaving' = Leaving
          BY <1>3, <2>1, <3>2, LeavingStep
        <4> QED  BY <4>1, <4>2
      <3> QED  BY <3>1, <3>2
    <2>2. CASE ~GetJob(t)
      <3>1. job_queue' = job_queue
        BY <1>3, <2>2 DEF Pool, PoolStep, Start, Test, WaitJob, DoExit, Finish, Crawl, BeginCrawl, Fetched, Dropped, Failed, CountUrl, PostUrl, Release, Signal
      <3>2. Leaving' = Leaving
        BY <1>3, <2>2, LeavingStep
      <3> QED  BY <3>1, <3>2 DEF CrawlJobs
    <2> QED  BY <2>1, <2>2
  <1>4. CASE Still
    BY <1>4 DEF Still, Leaving, CrawlJobs
  <1> QED  BY <1>1, <1>2, <1>3, <1>4, Moves

\* An exit job waits for its post only while there are threads without one.
LEMMA PostPendingStep == PostPending /\ [Next]_vars => PostPending'
  <1> SUFFICES ASSUME PostPending, [Next]_vars PROVE PostPending'
    OBVIOUS
  <1> USE DEF PostPending
  <1>1. CASE Main
    BY <1>1 DEF Main, SeedSet, SeedNoMemory, SeedIncrease, SeedPost, CreateWorker, CreateFails, JoinWorker, JoinPool
  <1>2. CASE Working
    BY <1>2 DEF WorkGoto, Working, Check, WaitWork, Size, Top, Insert, Skip, Ask, AskNoMemory, AskIncrease, AskPost, Done, SetExit, PostExit, Return
  <1>3. CASE \E t \in Threads : Pool(t) \/ Crawl(t)
    BY <1>3 DEF Pool, Crawl, BeginCrawl, Fetched, Dropped, Failed, CountUrl, PostUrl, Release, Signal
  <1>4. CASE Still
    BY <1>4 DEF Still
  <1> QED  BY <1>1, <1>2, <1>3, <1>4, Moves

-----------------------------------------------------------------------------
(* The counter of the idle threads, and the joining of the pool. *)

\* A thread counts itself out when it takes a job and in when it is done.
LEMMA IdleCountedStep == TypeInv /\ IdleCounted /\ [Next]_vars => IdleCounted'
  <1> SUFFICES ASSUME TypeInv, IdleCounted, [Next]_vars PROVE IdleCounted'
    OBVIOUS
  <1> USE DEF IdleCounted, Bit
  <1> DEFINE R == Count(At(Running))
             N == Cardinality(Threads)
  <1>1. TypeOK /\ R \in Nat /\ N \in Nat /\ thread_idle \in Int
    BY AtFinite, ThreadCount DEF TypeInv, TypeOK
  <1>2. CASE UNCHANGED <<tpc, thread_idle>>
    BY <1>2 DEF At
  <1>3. CASE Main \/ Working
    <2>1. UNCHANGED <<tpc, thread_idle>>
      BY <1>3 DEF Main, SeedSet, SeedNoMemory, SeedIncrease, SeedPost, CreateWorker, CreateFails, JoinWorker, JoinPool, Working, Check, WaitWork, Size, Top, Insert, Skip, Ask, AskNoMemory, AskIncrease, AskPost, Done, SetExit, PostExit, Return
    <2> QED  BY <1>2, <2>1
  <1>4. ASSUME NEW t \in Threads, Pool(t) \/ Crawl(t)
        PROVE  IdleCounted'
    <2>1. CASE GetJob(t)
      <3>1. Goto(t, "get", "run") /\ thread_idle' = thread_idle - 1
        BY <2>1 DEF GetJob
      <3>2. R' = R + 1
        BY <1>1, <3>1, AtMoves DEF Running, Crawls
      <3> QED  BY <1>1, <3>1, <3>2
    <2>2. CASE Finish(t)
      <3>1. Goto(t, "end", "test") /\ thread_idle' = thread_idle + 1
        BY <2>2 DEF Finish
      <3>2. R' = R - 1
        BY <1>1, <3>1, AtMoves DEF Running, Crawls
      <3> QED  BY <1>1, <3>1, <3>2
    <2>3. ASSUME NEW from, NEW to, Goto(t, from, to), from \in Running <=> to \in Running,
                 thread_idle' = thread_idle
          PROVE  IdleCounted'
      <3>1. R' = R
        BY <1>1, <2>3, AtMoves
      <3> QED  BY <2>3, <3>1
    <2>4. CASE Start(t) \/ Test(t) \/ WaitJob(t) \/ DoExit(t)
      BY <2>3, <2>4 DEF Start, Test, WaitJob, DoExit, Running, Crawls
    <2>5. CASE Crawl(t)
      BY <2>3, <2>5 DEF Running, Crawls, Crawl, BeginCrawl, Fetched, Dropped, Failed, CountUrl, PostUrl, Release, Signal
    <2> QED  BY <1>4, <2>1, <2>2, <2>4, <2>5 DEF Pool, PoolStep
  <1>5. CASE Still
    BY <1>2, <1>5 DEF Still
  <1> QED  BY <1>3, <1>4, <1>5, Moves

\* A thread that is gone does not come back.
LEMMA JoinStep == TypeInv /\ JoinInv /\ [Next]_vars => JoinInv'
  <1> SUFFICES ASSUME TypeInv, JoinInv, [Next]_vars PROVE JoinInv'
    OBVIOUS
  <1> USE DEF JoinInv, Joined
  <1>1. CASE Main
    BY <1>1 DEF MainGoto, Main, SeedSet, SeedNoMemory, SeedIncrease, SeedPost, CreateWorker, CreateFails, JoinWorker, JoinPool
  <1>2. CASE Working
    BY <1>2 DEF Working, Check, WaitWork, Size, Top, Insert, Skip, Ask, AskNoMemory, AskIncrease, AskPost, Done, SetExit, PostExit, Return
  <1>3. ASSUME NEW t \in Threads, Pool(t) \/ Crawl(t)
        PROVE  JoinInv'
    <2>1. tpc[t] # "gone" /\ mpc' = mpc
      BY <1>3 DEF Pool, PoolStep, Start, Test, WaitJob, GetJob, DoExit, Finish, Goto, Crawl, BeginCrawl, Fetched, Dropped, Failed, CountUrl, PostUrl, Release, Signal
    <2> QED  BY <2>1
  <1>4. CASE Still
    BY <1>4 DEF Still
  <1> QED  BY <1>1, <1>2, <1>3, <1>4, Moves

-----------------------------------------------------------------------------
(* The theorems. *)

\* The invariant of the pool holds at the start.
LEMMA PoolInvInit == Init => PoolInv
  <1> SUFFICES ASSUME Init PROVE PoolInv
    OBVIOUS
  <1> USE DEF Init, PoolInit
  <1>1. Leaving = {} /\ At(Running) = {} /\ Occurs(job_queue, Exit) = {} /\ Occurs(jobs_lost, Exit) = {}
    BY EmptySeq DEF Leaving, At, Running, Crawls, Occurs
  <1>2. Count({}) = 0 /\ Cardinality(Threads) \in Nat
    BY FS_EmptySet, ThreadCount DEF Count
  <1>3. FlagInv /\ JoinInv /\ LeavingLast /\ PostPending
    BY <1>1 DEF FlagInv, Serving, Crawls, JoinInv, LeavingLast, PostPending
  <1>4. ExitsLast
    BY EmptySeq DEF ExitsLast
  <1>5. ExitsCounted
    <2>1. exits = 0 /\ wpc = "off"
      OBVIOUS
    <2> HIDE DEF Init
    <2> QED  BY <1>1, <1>2, <2>1 DEF ExitsCounted, Bit
  <1>6. IdleCounted
    <2>1. thread_idle = Cardinality(Threads)
      OBVIOUS
    <2> HIDE DEF Init
    <2> QED  BY <1>1, <1>2, <2>1 DEF IdleCounted
  <1> QED  BY <1>3, <1>4, <1>5, <1>6 DEF PoolInv

\* Every step keeps the invariant of the pool.
LEMMA PoolInvStep == StopInv /\ PoolInv /\ [Next]_vars => PoolInv'
  <1> SUFFICES ASSUME TypeInv, Control, PoolInv, [Next]_vars PROVE PoolInv'
    BY DEF StopInv
  <1> USE DEF PoolInv
  <1> QED  BY FlagStep, ExitsLastStep, ExitsCountedStep, LeavingLastStep, PostPendingStep, IdleCountedStep, JoinStep

\* The whole invariant of the pool always holds.
THEOREM PoolKeeps == Spec => [](StopInv /\ PoolInv)
  BY StopInit, StopStep, PoolInvInit, PoolInvStep, PTL DEF Spec

\* No thread leaves the pool while there is work, no exit job is in front of a
\* crawl job, and there is at most one exit job a thread, waiting, dropped or
\* taken.
THEOREM PoolAlwaysServes == Spec => []PoolServes
  <1>1. StopInv /\ PoolInv => PoolServes
    <2> SUFFICES ASSUME TypeInv, PoolInv PROVE PoolServes
      BY DEF StopInv
    <2>1. ASSUME At({"gone"}) # {} PROVE wpc \in Stopping /\ CrawlJobs = {}
      <3>1. PICK t \in Threads : tpc[t] = "gone"
        BY <2>1 DEF At
      <3>2. t \in Leaving
        BY <3>1 DEF PoolInv, FlagInv, Leaving
      <3> QED  BY <3>2, NoExits DEF PoolInv, LeavingLast
    <2> DEFINE N == Cardinality(Threads)
               Q == Count(Occurs(job_queue, Exit))
               D == Count(Occurs(jobs_lost, Exit))
               L == Count(Leaving)
    <2>2. Q \in Nat /\ D \in Nat /\ L \in Nat /\ N \in Nat /\ exits \in 0..N
      BY ThreadCount, LeavingFinite, OccursFinite DEF TypeInv, TypeOK
    <2>3. (Q + D) + L = exits + Bit(wpc = "exitpost")
      BY DEF PoolInv, ExitsCounted
    <2>4. wpc = "exitpost" => exits < N
      BY DEF PoolInv, PostPending
    <2>5. (wpc \notin Stopping => exits = 0) /\ (wpc = "returned" => exits = N)
      BY DEF PoolInv, ExitsCounted
    <2> HIDE DEF N, Q, D, L
    <2>6. /\ Q + D + L <= N
          /\ wpc \notin Stopping => Q + D + L = 0
          /\ wpc = "returned" => Q + D + L = N
      BY <2>2, <2>3, <2>4, <2>5 DEF Bit, Stopping
    <2> QED  BY <2>1, <2>6 DEF PoolServes, PoolInv, ExitsLast, N, Q, D, L
  <1> QED  BY <1>1, PoolKeeps, PTL

\* The pool main has joined is empty: every thread left, no job, no post but
\* the dropped jobs', and global_lock counts what the full graph left and what
\* was dropped.
THEOREM PoolEndsQuiet == Spec => []Quiescent
  <1>1. StopInv /\ PoolInv => Quiescent
    <2> SUFFICES ASSUME StopInv, PoolInv, mpc = "report"
                 PROVE  /\ Joined /\ thread_idle = Cardinality(Threads)
                        /\ job_queue = <<>> /\ job_sem = Len(jobs_lost)
                        /\ Occurs(jobs_lost, Exit) = {}
                        /\ global_lock = Len(urlqueue) + Len(pages_lost) + Len(jobs_lost)
                        /\ global_lock # 0 => Full
      BY DEF Quiescent
    <2> DEFINE N == Cardinality(Threads)
               Q == Count(Occurs(job_queue, Exit))
               D == Count(Occurs(jobs_lost, Exit))
    <2>1. TypeInv /\ wpc = "returned" /\ Joined
      BY DEF StopInv, Control, PoolInv, JoinInv
    <2>2. /\ N \in Nat /\ Q \in Nat /\ IsFiniteSet(Occurs(job_queue, Exit))
          /\ D \in Nat /\ IsFiniteSet(Occurs(jobs_lost, Exit))
      BY <2>1, ThreadCount, OccursFinite DEF TypeInv, TypeOK
    <2>3. Leaving = Threads
      BY <2>1 DEF Joined, PoolInv, FlagInv, Leaving
    <2>4. \A L : "gone" \notin L => At(L) = {}
      BY <2>1 DEF Joined, At
    <2>5. Occurs(job_queue, Exit) = {} /\ Occurs(jobs_lost, Exit) = {}
      <3>1. (Q + D) + N = exits + 0 /\ exits = N
        BY <2>1, <2>3 DEF PoolInv, ExitsCounted, Count, Bit
      <3>2. Q = 0 /\ D = 0
        BY <2>2, <3>1
      <3> QED  BY <2>2, <3>2, FS_EmptySet DEF Count
    <2>6. job_queue = <<>>
      <3>1. CrawlJobs = {}
        BY <2>3, ThreadsAssumption DEF PoolInv, LeavingLast
      <3>2. job_queue \in Seq(Urls \cup {Exit}) /\ Len(job_queue) \in Nat
        BY <2>1, LenProperties DEF TypeInv, TypeOK
      <3>3. 1 \notin 1..Len(job_queue)
        BY <2>5, <3>1 DEF Occurs, CrawlJobs
      <3>4. Len(job_queue) = 0
        BY <3>2, <3>3
      <3> QED  BY <3>2, <3>4, EmptySeq
    <2>7. /\ Count(At({"get"})) = 0 /\ Count(At({"count"})) = 0 /\ Count(At(Running)) = 0
          /\ Count(Crawling) = 0 /\ Count(CrawlJobs) = 0
      <3>1. At({"get"}) = {} /\ At({"count"}) = {} /\ At(Running) = {}
        BY <2>4 DEF Running, Crawls
      <3>2. Crawling = {}
        BY <2>1 DEF Joined, Crawling, Crawls
      <3>3. CrawlJobs = {}
        BY <2>3, ThreadsAssumption DEF PoolInv, LeavingLast
      <3>4. Count({}) = 0
        BY FS_EmptySet DEF Count
      <3> QED  BY <3>1, <3>2, <3>3, <3>4, Zenon
    <2>8. Len(jobs_lost) \in Nat /\ Len(urlqueue) \in Nat /\ Len(pages_lost) \in Nat
      BY <2>1, LenProperties DEF TypeInv, TypeOK
    <2>9. LostJobs = 1..Len(jobs_lost) /\ Count(LostJobs) = Len(jobs_lost)
      <3>1. LostJobs = 1..Len(jobs_lost)
        BY <2>5 DEF Occurs, LostJobs
      <3>2. Cardinality(1..Len(jobs_lost)) = Len(jobs_lost)
        <4> DEFINE n == Len(jobs_lost)
        <4>1. n \in Nat
          BY <2>8
        <4> HIDE DEF n
        <4>2. IsFiniteSet(1..n) /\ Cardinality(1..n) = IF 1 > n THEN 0 ELSE n - 1 + 1
          BY <4>1, FS_Interval
        <4>3. Cardinality(1..n) = n
          BY <4>1, <4>2
        <4> QED  BY <4>3 DEF n
      <3> QED  BY <3>1, <3>2 DEF Count
    <2>10. job_sem = Len(jobs_lost)
      <3>1. job_sem \in Nat /\ Len(job_queue) = 0
        BY <2>1, <2>6 DEF TypeInv, TypeOK
      <3> QED  BY <2>1, <2>7, <2>8, <3>1 DEF StopInv, TokensMatchJobs, Bit
    <2>11. thread_idle = N
      BY <2>2, <2>7 DEF PoolInv, IdleCounted
    <2>12. global_lock = Len(urlqueue) + Len(pages_lost) + Len(jobs_lost)
      <3>1. mpc # "incr" /\ wpc # "incr" /\ wpc \notin Recording
        BY <2>1 DEF Recording
      <3> QED  BY <2>7, <2>8, <2>9, <3>1 DEF StopInv, Accounting, Bit
    <2>13. ASSUME ~Full PROVE global_lock = 0
      <3>1. urlqueue = <<>> /\ pages_lost = <<>> /\ LostJobs = {}
        BY <2>1, <2>13 DEF StopInv, NoEarlyStop, Stopping
      <3>2. Len(urlqueue) = 0 /\ Len(pages_lost) = 0 /\ Len(jobs_lost) = 0
        BY <2>9, <3>1, FS_EmptySet DEF Count
      <3> QED  BY <2>12, <3>2
    <2> QED  BY <2>1, <2>5, <2>6, <2>10, <2>11, <2>12, <2>13
  <1> QED  BY <1>1, PoolKeeps, PTL

-----------------------------------------------------------------------------
(* The places of a URL, and how many of each there are.                    *)

\* The URLs of the pages of a queue.
UrlsOf(q) == [i \in 1..Len(q) |-> q[i].url]

JobsOf(u) == Count(Occurs(job_queue, u)) + Count(Occurs(jobs_lost, u))
FetchersOf(u) == Count({t \in Fetching : job[t] = u})
PagesOf(u) == Count(Occurs(UrlsOf(urlqueue), u)) + Count(Occurs(pages_lost, u))

Held(u) == JobsOf(u) + FetchersOf(u) + PagesOf(u)
Recorded(u) == Bit(wpc = "insert" /\ link_info.url = u) + Bit(IsVertex(u))
Placed(u) == Held(u) + Recorded(u)

Page == [url : Urls, link_url : Seq(Urls)]

\* The URLs of the pages are as many, in the order of the pages.
LEMMA UrlsOfType ==
    ASSUME NEW q \in Seq(Page)
    PROVE  /\ UrlsOf(q) \in Seq(Urls) /\ Len(UrlsOf(q)) = Len(q)
           /\ \A i \in 1..Len(q) : UrlsOf(q)[i] = q[i].url
  <1>1. Len(q) \in Nat /\ \A i \in 1..Len(q) : q[i] \in Page
    BY LenProperties, ElementOfSeq
  <1>2. \A i \in 1..Len(q) : q[i].url \in Urls
    BY <1>1 DEF Page
  <1> QED  BY <1>1, <1>2 DEF UrlsOf

\* A page more is a URL more, at the end.
LEMMA UrlsOfAppend ==
    ASSUME NEW q \in Seq(Page), NEW p \in Page
    PROVE  UrlsOf(Append(q, p)) = Append(UrlsOf(q), p.url)
  <1> DEFINE new == UrlsOf(Append(q, p))
             r == Append(UrlsOf(q), p.url)
             n == Len(q)
  <1>1. n \in Nat /\ p.url \in Urls
    BY LenProperties DEF Page
  <1>2. /\ Append(q, p) \in Seq(Page) /\ Len(Append(q, p)) = n + 1
        /\ Append(q, p)[n + 1] = p /\ \A i \in 1..n : Append(q, p)[i] = q[i]
    BY AppendProperties
  <1>3. UrlsOf(q) \in Seq(Urls) /\ Len(UrlsOf(q)) = n /\ \A i \in 1..n : UrlsOf(q)[i] = q[i].url
    BY UrlsOfType
  <1>4. new \in Seq(Urls) /\ Len(new) = n + 1 /\ \A i \in 1..(n + 1) : new[i] = Append(q, p)[i].url
    BY <1>2, UrlsOfType
  <1>5. /\ r \in Seq(Urls) /\ Len(r) = n + 1 /\ r[n + 1] = p.url
        /\ \A i \in 1..n : r[i] = UrlsOf(q)[i]
    BY <1>1, <1>3, AppendProperties
  <1> HIDE DEF new, r
  <1>6. ASSUME NEW i \in 1..(n + 1) PROVE new[i] = r[i]
    <2>1. CASE i = n + 1
      BY <1>2, <1>4, <1>5, <2>1
    <2>2. CASE i \in 1..n
      BY <1>2, <1>3, <1>4, <1>5, <2>2
    <2> QED  BY <1>1, <2>1, <2>2
  <1>7. new = r
    BY <1>4, <1>5, <1>6, SeqEqual
  <1> QED  BY <1>7 DEF new, r

\* The first page gone is the first URL gone.
LEMMA UrlsOfTail ==
    ASSUME NEW q \in Seq(Page), q # <<>>
    PROVE  /\ UrlsOf(Tail(q)) = Tail(UrlsOf(q))
           /\ UrlsOf(q) # <<>> /\ Head(UrlsOf(q)) = Head(q).url
  <1> DEFINE new == UrlsOf(Tail(q))
             r == Tail(UrlsOf(q))
             n == Len(q)
  <1>1. n \in Nat \ {0} /\ Head(q) = q[1]
    BY EmptySeq
  <1>2. Tail(q) \in Seq(Page) /\ Len(Tail(q)) = n - 1 /\ \A i \in 1..(n - 1) : Tail(q)[i] = q[i + 1]
    BY HeadTailProperties
  <1>3. UrlsOf(q) \in Seq(Urls) /\ Len(UrlsOf(q)) = n /\ \A i \in 1..n : UrlsOf(q)[i] = q[i].url
    BY UrlsOfType
  <1>4. UrlsOf(q) # <<>> /\ Head(UrlsOf(q)) = Head(q).url
    BY SMTT(30), <1>1, <1>3, EmptySeq
  <1>5. new \in Seq(Urls) /\ Len(new) = n - 1 /\ \A i \in 1..(n - 1) : new[i] = Tail(q)[i].url
    BY Zenon, <1>2, UrlsOfType
  <1>6. r \in Seq(Urls) /\ Len(r) = n - 1 /\ \A i \in 1..(n - 1) : r[i] = UrlsOf(q)[i + 1]
    BY <1>3, <1>4, HeadTailProperties
  <1> HIDE DEF new, r
  <1>7. ASSUME NEW i \in 1..(n - 1) PROVE new[i] = r[i]
    BY <1>1, <1>2, <1>3, <1>5, <1>6
  <1>8. new = r
    BY <1>5, <1>6, <1>7, SeqEqual
  <1> QED  BY <1>4, <1>8 DEF new, r

\* Each number of places is a natural number.
LEMMA PlacesNat ==
    ASSUME TypeOK, NEW u
    PROVE  JobsOf(u) \in Nat /\ FetchersOf(u) \in Nat /\ PagesOf(u) \in Nat /\ Recorded(u) \in Nat
  <1>1. Count(Occurs(job_queue, u)) \in Nat /\ Count(Occurs(jobs_lost, u)) \in Nat
    BY OccursFinite DEF TypeOK
  <1>2. Count(Occurs(UrlsOf(urlqueue), u)) \in Nat /\ Count(Occurs(pages_lost, u)) \in Nat
    <2>1. UrlsOf(urlqueue) \in Seq(Urls) /\ pages_lost \in Seq(Urls)
      BY UrlsOfType DEF TypeOK, Page
    <2> QED  BY <2>1, OccursFinite
  <1>3. IsFiniteSet({t \in Fetching : job[t] = u})
    <2>1. Fetching \subseteq Threads
      BY DEF Fetching
    <2> QED  BY <2>1, ThreadsAssumption, FS_Subset
  <1>4. Recorded(u) \in Nat
    BY DEF Recorded, Bit
  <1>5. FetchersOf(u) \in Nat
    BY <1>3, FS_CardinalityType DEF Count, FetchersOf
  <1> QED  BY <1>1, <1>2, <1>4, <1>5 DEF JobsOf, PagesOf

\* Setting a job puts its URL in the job queue, or among the dropped ones.
LEMMA JobsOfSet ==
    ASSUME TypeOK, NEW j \in Urls \cup {Exit}, SetJob(j)
    PROVE  \A u : JobsOf(u)' = JobsOf(u) + Bit(j = u)
  <1> TAKE u
  <1>1. job_queue \in Seq(Urls \cup {Exit}) /\ jobs_lost \in Seq(Urls \cup {Exit})
    BY DEF TypeOK
  <1>2. Count(Occurs(job_queue, u)) \in Nat /\ Count(Occurs(jobs_lost, u)) \in Nat /\ Bit(j = u) \in Nat
    BY <1>1, OccursFinite DEF Bit
  <1>3. /\ Count(Occurs(Append(job_queue, j), u)) = Count(Occurs(job_queue, u)) + Bit(j = u)
        /\ Count(Occurs(Append(jobs_lost, j), u)) = Count(Occurs(jobs_lost, u)) + Bit(j = u)
    BY <1>1, CountAppend
  <1>4. CASE job_queue' = Append(job_queue, j) /\ UNCHANGED jobs_lost
    BY <1>2, <1>3, <1>4 DEF JobsOf
  <1>5. CASE jobs_lost' = Append(jobs_lost, j) /\ UNCHANGED job_queue
    BY <1>2, <1>3, <1>5 DEF JobsOf
  <1> QED  BY <1>4, <1>5 DEF SetJob

\* Taking the oldest job takes its URL out of the job queue.
LEMMA JobsOfGet ==
    ASSUME TypeOK, job_queue # <<>>, job_queue' = Tail(job_queue), UNCHANGED jobs_lost
    PROVE  \A u : JobsOf(u)' = JobsOf(u) - Bit(Head(job_queue) = u)
  <1> TAKE u
  <1>1. job_queue \in Seq(Urls \cup {Exit}) /\ jobs_lost \in Seq(Urls \cup {Exit})
    BY DEF TypeOK
  <1>2. Count(Occurs(job_queue, u)) \in Nat /\ Count(Occurs(jobs_lost, u)) \in Nat /\ Bit(Head(job_queue) = u) \in Nat
    BY <1>1, OccursFinite DEF Bit
  <1>3. Count(Occurs(Tail(job_queue), u)) = Count(Occurs(job_queue, u)) - Bit(Head(job_queue) = u)
    BY <1>1, CountTail
  <1> QED  BY <1>2, <1>3 DEF JobsOf

\* A page fetched is the last page of its URL, or a dropped one.
LEMMA PagesOfFetched ==
    ASSUME TypeInv, NEW t \in Threads, Fetched(t)
    PROVE  \A u : PagesOf(u)' = PagesOf(u) + Bit(job[t] = u)
  <1> TAKE u
  <1> DEFINE url == job[t]
             q == UrlsOf(urlqueue)
             B == Bit(url = u)
  <1>1. urlqueue \in Seq(Page) /\ pages_lost \in Seq(Urls) /\ url \in Urls
    BY PagePushed DEF TypeInv, TypeOK, Page
  <1>2. q \in Seq(Urls)
    BY <1>1, UrlsOfType
  <1> HIDE DEF q
  <1>3. Count(Occurs(q, u)) \in Nat /\ Count(Occurs(pages_lost, u)) \in Nat /\ B \in Nat
    BY <1>1, <1>2, OccursFinite DEF Bit
  <1>4. /\ Count(Occurs(Append(q, url), u)) = Count(Occurs(q, u)) + B
        /\ Count(Occurs(Append(pages_lost, url), u)) = Count(Occurs(pages_lost, u)) + B
    BY <1>1, <1>2, CountAppend
  <1>5. CASE pages_lost' = Append(pages_lost, url) /\ UNCHANGED urlqueue
    BY <1>3, <1>4, <1>5 DEF PagesOf, q
  <1>6. ASSUME NEW links \in Pages, [url |-> url, link_url |-> links] \in Page,
               urlqueue' = Append(urlqueue, [url |-> url, link_url |-> links]),
               UNCHANGED pages_lost
        PROVE  PagesOf(u)' = PagesOf(u) + B
    <2>1. UrlsOf(urlqueue') = Append(q, url)
      BY <1>1, <1>6, UrlsOfAppend DEF q
    <2>2. PagesOf(u) = Count(Occurs(q, u)) + Count(Occurs(pages_lost, u))
      BY DEF PagesOf, q
    <2>3. PagesOf(u)' = Count(Occurs(Append(q, url), u)) + Count(Occurs(pages_lost, u))
      BY <1>6, <2>1 DEF PagesOf
    <2> QED  BY <1>3, <1>4, <2>2, <2>3
  <1> QED  BY <1>5, <1>6, PagePushed DEF Page

\* The page at the top leaves urlqueue.
LEMMA PagesOfTop ==
    ASSUME TypeOK, urlqueue # <<>>, urlqueue' = Tail(urlqueue), UNCHANGED pages_lost
    PROVE  \A u : PagesOf(u)' = PagesOf(u) - Bit(Head(urlqueue).url = u)
  <1> TAKE u
  <1>1. urlqueue \in Seq(Page) /\ pages_lost \in Seq(Urls)
    BY DEF TypeOK, Page
  <1>2. UrlsOf(urlqueue) \in Seq(Urls) /\ UrlsOf(urlqueue) # <<>>
    BY <1>1, UrlsOfType, UrlsOfTail
  <1>3. UrlsOf(urlqueue') = Tail(UrlsOf(urlqueue)) /\ Head(UrlsOf(urlqueue)) = Head(urlqueue).url
    BY <1>1, UrlsOfTail
  <1>4. Count(Occurs(Tail(UrlsOf(urlqueue)), u))
           = Count(Occurs(UrlsOf(urlqueue), u)) - Bit(Head(UrlsOf(urlqueue)) = u)
    BY <1>2, CountTail, Zenon
  <1>5. /\ Count(Occurs(UrlsOf(urlqueue), u)) \in Nat /\ Count(Occurs(pages_lost, u)) \in Nat
        /\ Bit(Head(urlqueue).url = u) \in Nat
    BY <1>1, <1>2, OccursFinite DEF Bit
  <1> DEFINE A == Count(Occurs(UrlsOf(urlqueue), u))
             B == Count(Occurs(UrlsOf(urlqueue'), u))
             M == Count(Occurs(pages_lost, u))
             H == Bit(Head(urlqueue).url = u)
  <1>6. B = A - H /\ A \in Nat /\ M \in Nat /\ H \in Nat
    BY <1>3, <1>4, <1>5, Zenon
  <1>7. PagesOf(u) = A + M /\ PagesOf(u)' = B + M
    BY DEF PagesOf
  <1> HIDE DEF A, B, M, H
  <1>8. PagesOf(u)' = PagesOf(u) - H
    BY <1>6, <1>7
  <1> QED  BY <1>8 DEF H

\* The step of a thread changes what it fetches only.
LEMMA FetchersOfMove ==
    ASSUME TypeOK, NEW t \in Threads,
           \A w \in Threads \ {t} : tpc'[w] = tpc[w] /\ job'[w] = job[w]
    PROVE  \A u : FetchersOf(u)' = FetchersOf(u) - Bit(t \in Fetching /\ job[t] = u)
                                                 + Bit(t \in Fetching' /\ job'[t] = u)
  <1> TAKE u
  <1> DEFINE Old == {w \in Fetching : job[w] = u}
             New == {w \in Fetching' : job'[w] = u}
             Rest == Old \ {t}
  <1>1. Fetching \subseteq Threads /\ Fetching' \subseteq Threads
    BY DEF Fetching
  <1>2. IsFiniteSet(Old) /\ IsFiniteSet(Rest)
    BY <1>1, ThreadsAssumption, FS_Subset
  <1>3. Cardinality(Old) \in Nat /\ Cardinality(Rest) \in Nat
    BY <1>2, FS_CardinalityType
  <1>4. Cardinality(Rest) = Cardinality(Old) - Bit(t \in Fetching /\ job[t] = u)
    <2>1. CASE t \in Old
      <3> HIDE DEF Old
      <3>1. Cardinality(Rest) = Cardinality(Old) - 1
        BY <1>2, <2>1, FS_RemoveElement
      <3> QED  BY <2>1, <3>1 DEF Bit, Old
    <2>2. CASE t \notin Old
      <3>1. Cardinality(Rest) = Cardinality(Old) /\ ~(t \in Fetching /\ job[t] = u)
        <4>1. Rest = Old
          BY <2>2
        <4> QED  BY <2>2, <4>1
      <3> HIDE DEF Old, Rest
      <3> QED  BY <1>3, <3>1 DEF Bit
    <2> QED  BY <2>1, <2>2
  <1>5. \A w \in Threads \ {t} : w \in Fetching' <=> w \in Fetching
    BY DEF Fetching
  <1>6. CASE t \in New
    <2>1. New = Rest \cup {t}
      BY <1>1, <1>5, <1>6
    <2>2. Cardinality(New) = Cardinality(Rest) + 1
      BY <1>2, <2>1, FS_AddElement
    <2> QED  BY <1>3, <1>4, <1>6, <2>2 DEF Bit, Count, FetchersOf
  <1>7. CASE t \notin New
    <2>1. New = Rest
      BY <1>1, <1>5, <1>7
    <2>2. ~(t \in Fetching' /\ job'[t] = u)
      BY <1>7
    <2>3. Cardinality(New) = Cardinality(Rest)
      BY <2>1
    <2> QED  BY <1>3, <1>4, <2>2, <2>3 DEF Bit, Count, FetchersOf
  <1> QED  BY <1>6, <1>7

-----------------------------------------------------------------------------
(* What a step does to the places of a URL before its page is recorded. *)

\* Each is a natural number, and so is their sum.
LEMMA PlacedNat ==
    ASSUME TypeOK, NEW u
    PROVE  Held(u) \in Nat /\ Recorded(u) \in Nat /\ Placed(u) \in Nat
  BY PlacesNat DEF Held, Placed

\* Of the steps of main, the setting of the seed's job places a URL.
LEMMA HeldMain ==
    ASSUME TypeInv, Main, NEW u \in Urls
    PROVE  Held(u)' = Held(u) + Bit(SeedSet /\ u = Seed)
  <1>1. JobsOf(u) \in Nat /\ FetchersOf(u) \in Nat /\ PagesOf(u) \in Nat
    BY PlacesNat DEF TypeInv
  <1>2. UNCHANGED <<tpc, job, urlqueue, pages_lost>>
    BY DEF Main, SeedSet, SeedNoMemory, SeedIncrease, SeedPost, CreateWorker, CreateFails, JoinWorker, JoinPool
  <1>3. FetchersOf(u)' = FetchersOf(u) /\ PagesOf(u)' = PagesOf(u)
    BY <1>2 DEF FetchersOf, Fetching, PagesOf
  <1>4. CASE SeedSet
    <2>1. JobsOf(u)' = JobsOf(u) + Bit(Seed = u)
      BY <1>4, JobsOfSet, UrlsAssumption DEF SeedSet, TypeInv
    <2> QED  BY <1>1, <1>3, <1>4, <2>1 DEF Held, Bit
  <1>5. CASE ~SeedSet
    <2>1. UNCHANGED <<job_queue, jobs_lost>>
      BY <1>5 DEF Main, SeedNoMemory, SeedIncrease, SeedPost, CreateWorker, CreateFails, JoinWorker, JoinPool
    <2>2. JobsOf(u)' = JobsOf(u)
      BY <2>1 DEF JobsOf
    <2> QED  BY <1>1, <1>3, <1>5, <2>2 DEF Held, Bit
  <1> QED  BY <1>4, <1>5

\* Of the steps of do_work, the setting of a link's job places a URL, and
\* the taking of a page takes one.
LEMMA HeldWork ==
    ASSUME TypeInv, Working, NEW u \in Urls
    PROVE  Held(u)' = Held(u) + Bit(Ask /\ u = Head(rest)) - Bit(Top /\ u = Head(urlqueue).url)
  <1>1. JobsOf(u) \in Nat /\ FetchersOf(u) \in Nat /\ PagesOf(u) \in Nat
    BY PlacesNat DEF TypeInv
  <1>2. UNCHANGED <<tpc, job>>
    BY DEF Working, Check, WaitWork, Size, Top, Insert, Skip, Ask, AskNoMemory, AskIncrease, AskPost, Done, SetExit, PostExit, Return
  <1>3. FetchersOf(u)' = FetchersOf(u)
    BY <1>2 DEF FetchersOf, Fetching
  <1>4. CASE Ask
    <2>1. Head(rest) \in Urls /\ wpc = "iter" /\ UNCHANGED <<urlqueue, pages_lost>> /\ SetJob(Head(rest))
      BY <1>4, HeadTailProperties DEF Ask, WorkGoto, TypeInv, TypeOK
    <2>2. JobsOf(u)' = JobsOf(u) + Bit(Head(rest) = u)
      BY <2>1, JobsOfSet DEF TypeInv
    <2>3. PagesOf(u)' = PagesOf(u) /\ ~Top
      BY <2>1 DEF PagesOf, Top, WorkGoto
    <2> QED  BY <1>1, <1>3, <1>4, <2>2, <2>3 DEF Held, Bit
  <1>5. CASE Top
    <2>1. /\ wpc = "top" /\ urlqueue # <<>> /\ urlqueue' = Tail(urlqueue)
          /\ UNCHANGED <<pages_lost, job_queue, jobs_lost>>
      BY <1>5 DEF Top, WorkGoto
    <2>2. PagesOf(u)' = PagesOf(u) - Bit(Head(urlqueue).url = u)
      BY <2>1, PagesOfTop DEF TypeInv
    <2>3. JobsOf(u)' = JobsOf(u) /\ ~Ask
      BY <2>1 DEF JobsOf, Ask, WorkGoto
    <2> QED  BY <1>1, <1>3, <1>5, <2>2, <2>3 DEF Held, Bit
  <1>6. CASE ~Ask /\ ~Top
    <2>1. PagesOf(u)' = PagesOf(u)
      <3>1. UNCHANGED <<urlqueue, pages_lost>>
        BY <1>6 DEF Working, Check, WaitWork, Size, Insert, Skip, AskNoMemory, AskIncrease, AskPost, Done, SetExit, PostExit, Return
      <3> QED  BY <3>1 DEF PagesOf
    <2>2. JobsOf(u)' = JobsOf(u)
      <3>1. CASE SetExit
        <4>1. JobsOf(u)' = JobsOf(u) + Bit(Exit = u)
          BY <3>1, JobsOfSet DEF SetExit, TypeInv
        <4> QED  BY <1>1, <4>1, UrlsAssumption DEF Bit
      <3>2. CASE ~SetExit
        <4>1. UNCHANGED <<job_queue, jobs_lost>>
          BY <1>6, <3>2 DEF Working, Check, WaitWork, Size, Insert, Skip, AskNoMemory, AskIncrease, AskPost, Done, PostExit, Return
        <4> QED  BY <4>1 DEF JobsOf
      <3> QED  BY <3>1, <3>2
    <2> QED  BY <1>1, <1>3, <1>6, <2>1, <2>2 DEF Held, Bit
  <1> QED  BY <1>4, <1>5, <1>6

(* A thread gives its URL up: the page is dropped or tried often enough.   *)
Drops(t) == tpc[t] = "crawl" /\ tpc'[t] = "release"

\* A step of a thread moves its URL from the queue to the thread and from
\* the thread to urlqueue, or drops it.
LEMMA HeldThread ==
    ASSUME TypeInv, NEW t \in Threads, Pool(t) \/ Crawl(t), NEW u \in Urls
    PROVE  Held(u)' = Held(u) - Bit(Drops(t) /\ u = job[t])
  <1>1. JobsOf(u) \in Nat /\ FetchersOf(u) \in Nat /\ PagesOf(u) \in Nat /\ u # Exit
    BY PlacesNat, UrlsAssumption DEF TypeInv
  <1>2. \A w \in Threads \ {t} : tpc'[w] = tpc[w] /\ job'[w] = job[w]
    BY DEF TypeInv, TypeOK, Pool, PoolStep, Start, Test, WaitJob, GetJob, DoExit, Finish, Goto, Crawl, BeginCrawl, Fetched, Dropped, Failed, CountUrl, PostUrl, Release, Signal
  <1>3. FetchersOf(u)' = FetchersOf(u) - Bit(t \in Fetching /\ job[t] = u)
                                       + Bit(t \in Fetching' /\ job'[t] = u)
    BY <1>2, FetchersOfMove DEF TypeInv
  <1>4. ASSUME UNCHANGED <<job_queue, jobs_lost, urlqueue, pages_lost>>
        PROVE  JobsOf(u)' = JobsOf(u) /\ PagesOf(u)' = PagesOf(u)
    BY <1>4 DEF JobsOf, PagesOf
  <1> USE DEF TypeInv, TypeOK
  <1>5. CASE GetJob(t)
    <2>1. /\ tpc[t] = "get" /\ tpc'[t] = "run" /\ job'[t] = Head(job_queue)
          /\ job_queue # <<>> /\ job_queue' = Tail(job_queue) /\ UNCHANGED jobs_lost
      BY <1>5 DEF GetJob, Goto
    <2>2. UNCHANGED <<urlqueue, pages_lost>>
      BY <1>5, <2>1 DEF Pool, Goto, Crawl, BeginCrawl, Fetched, Dropped, Failed, CountUrl, PostUrl, Release, Signal
    <2>3. JobsOf(u)' = JobsOf(u) - Bit(Head(job_queue) = u)
      BY <2>1, JobsOfGet
    <2>4. PagesOf(u)' = PagesOf(u)
      BY <2>2 DEF PagesOf
    <2>5. FetchersOf(u)' = FetchersOf(u) + Bit(Head(job_queue) = u)
      BY <1>1, <1>3, <2>1 DEF Fetching, Bit
    <2> QED  BY <1>1, <2>1, <2>3, <2>4, <2>5 DEF Held, Bit, Drops
  <1>6. CASE Fetched(t)
    <2>1. tpc[t] = "crawl" /\ tpc'[t] = "count" /\ UNCHANGED <<job, job_queue, jobs_lost>>
      BY <1>6 DEF Fetched, Goto, Crawls
    <2>2. PagesOf(u)' = PagesOf(u) + Bit(job[t] = u)
      BY <1>6, PagesOfFetched
    <2>3. JobsOf(u)' = JobsOf(u)
      BY <2>1 DEF JobsOf
    <2>4. FetchersOf(u)' = FetchersOf(u) - Bit(job[t] = u)
      BY <1>1, <1>3, <2>1 DEF Fetching, Bit
    <2> QED  BY <1>1, <2>1, <2>2, <2>3, <2>4 DEF Held, Bit, Drops
  <1>7. CASE Dropped(t) \/ Failed(t)
    <2>1. /\ tpc[t] = "crawl" /\ tpc'[t] \in {"crawl", "release"} /\ job' = job
          /\ UNCHANGED <<job_queue, jobs_lost, urlqueue, pages_lost>>
      BY <1>7 DEF Dropped, Failed, Goto
    <2>2. FetchersOf(u)' = FetchersOf(u) - Bit(Drops(t) /\ u = job[t])
      BY <1>1, <1>3, <2>1 DEF Fetching, Bit, Drops
    <2> QED  BY <1>1, <1>4, <2>1, <2>2 DEF Held, Bit
  <1>8. CASE ~GetJob(t) /\ ~Fetched(t) /\ ~Dropped(t) /\ ~Failed(t)
    <2>1. UNCHANGED <<job_queue, jobs_lost, urlqueue, pages_lost>>
      BY <1>8 DEF Pool, PoolStep, Start, Test, WaitJob, DoExit, Finish, Crawl, BeginCrawl, CountUrl, PostUrl, Release, Signal
    <2>2. /\ job'[t] = job[t]
          /\ t \in Fetching' <=> t \in Fetching
          /\ tpc[t] # "crawl"
      BY <1>8 DEF Fetching, Goto, Pool, PoolStep, Start, Test, WaitJob, DoExit, Finish, Crawl, BeginCrawl, CountUrl, PostUrl, Release, Signal
    <2>3. FetchersOf(u)' = FetchersOf(u)
      BY <1>1, <1>3, <2>2 DEF Bit
    <2> QED  BY <1>1, <1>4, <2>1, <2>2, <2>3 DEF Held, Bit, Drops
  <1> QED  BY <1>5, <1>6, <1>7, <1>8

-----------------------------------------------------------------------------
(* The inductive invariant of the graph. *)

Following == {"iter", "incr", "post"}

(* A URL is in one place at a time.                                        *)
Once == \A u \in Urls : Placed(u) <= 1

(* A URL has no place before it is asked for.                              *)
AskedOnly == \A u \in Urls : Placed(u) > 0 => u \in Asked

(* The seed is the first URL known.                                        *)
SeedFirst ==
    /\ Known # {} => Seed \in Known /\ vertex_dict[Seed].in
    /\ mpc = "seed" => ~seeded /\ Known = {}

(* The links iter goes through are those of the page just recorded.        *)
InHand ==
    wpc \in Following =>
        /\ IsVertex(link_info.url)
        /\ Range(link_info.link_url) \subseteq Known
        /\ Range(rest) \subseteq Range(link_info.link_url)

LinksFromPages ==
    /\ \A i \in 1..Len(urlqueue) : urlqueue[i].link_url \in Pages
    /\ wpc = "insert" => link_info.link_url \in Pages

(* A URL known is asked for, or iter is still to come to it.               *)
Followed ==
    "do_work" \notin AllocFails =>
        \A u \in Known : vertex_dict[u].in \/ (wpc \in Following /\ u \in Range(rest))

GraphInv ==
    /\ GraphConsistent
    /\ Once /\ AskedOnly /\ SeedFirst
    /\ InHand
    /\ LinksFromPages
    /\ Followed

\* The first link and the others are all the links.
LEMMA RangeHeadTail ==
    ASSUME NEW S, NEW s \in Seq(S), s # <<>>
    PROVE  Head(s) \in Range(s) /\ Range(s) = {Head(s)} \cup Range(Tail(s))
  <1> DEFINE n == Len(s)
             r == Tail(s)
  <1>1. n \in Nat \ {0} /\ Head(s) = s[1] /\ DOMAIN s = 1..n
    BY EmptySeq, LenProperties
  <1>2. r \in Seq(S) /\ Len(r) = n - 1 /\ DOMAIN r = 1..(n - 1) /\ \A i \in 1..(n - 1) : r[i] = s[i + 1]
    BY <1>1, HeadTailProperties, LenProperties
  <1> HIDE DEF r
  <1>3. \A x \in Range(s) : x = Head(s) \/ x \in Range(r)
    <2> SUFFICES ASSUME NEW i \in 1..n, i # 1 PROVE s[i] \in Range(r)
      BY <1>1 DEF Range
    <2>1. i - 1 \in 1..(n - 1) /\ r[i - 1] = s[i]
      BY <1>1, <1>2
    <2> QED  BY <1>2, <2>1 DEF Range
  <1>4. \A x \in Range(r) : x \in Range(s)
    <2> SUFFICES ASSUME NEW i \in 1..(n - 1) PROVE r[i] \in Range(s)
      BY <1>2 DEF Range
    <2>1. i + 1 \in 1..n /\ r[i] = s[i + 1]
      BY <1>1, <1>2
    <2> QED  BY <1>1, <2>1 DEF Range
  <1>5. Head(s) \in Range(s)
    BY <1>1 DEF Range
  <1> QED  BY <1>3, <1>4, <1>5 DEF r

\* The link iter comes to is a known URL.
LEMMA NextLinkKnown ==
    ASSUME TypeInv, GraphConsistent, InHand, wpc \in Following
    PROVE  Range(rest) \subseteq Known
  BY DEF InHand

\* The recording of a page makes its URL a vertex, and no other.
LEMMA InsertVertices ==
    ASSUME TypeInv, Insert, NEW u \in Urls
    PROVE  IsVertex(u)' <=> IsVertex(u) \/ u = link_info.url
  <1> DEFINE url == link_info.url
  <1>1. /\ GraphTypes /\ url \in Urls /\ link_info.link_url \in Seq(Urls)
        /\ vertex_dict \in [Known -> Info] /\ Len(vertex) \in Nat
        /\ \E edges \in Edges(link_info.link_url) : InsertEdge(url, link_info.link_url, edges)
    BY GraphTyped, LenProperties DEF TypeInv, TypeOK, Insert, Info
  <1>2. /\ Known' = Known \cup {url} \cup Range(link_info.link_url)
        /\ \A w \in Known : w # url \/ IsVertex(url) => vertex_dict'[w] = vertex_dict[w]
        /\ ~IsVertex(url) => vertex_dict'[url] = [vid |-> Len(vertex), in |-> TRUE]
        /\ \A w \in Known' \ Known : w # url => vertex_dict'[w] = [vid |-> -1, in |-> FALSE]
    BY <1>1, EdgesStored, InsertEdgeInfos
  <1> QED  BY <1>1, <1>2 DEF IsVertex

\* Only do_work touches the graph, in two of its steps.
LEMMA GraphKept ==
    ASSUME [Next]_vars, ~Insert, ~Ask
    PROVE  UNCHANGED <<vertex, vertex_dict>>
  <1>1. CASE Main
    BY <1>1 DEF Main, SeedSet, SeedNoMemory, SeedIncrease, SeedPost, CreateWorker, CreateFails, JoinWorker, JoinPool
  <1>2. CASE Working
    BY <1>2 DEF Working, Check, WaitWork, Size, Top, Skip, AskNoMemory, AskIncrease, AskPost, Done, SetExit, PostExit, Return
  <1>3. CASE \E t \in Threads : Pool(t) \/ Crawl(t)
    BY <1>3 DEF Pool, Crawl, BeginCrawl, Fetched, Dropped, Failed, CountUrl, PostUrl, Release, Signal
  <1>4. CASE Still
    BY <1>4 DEF Still
  <1> QED  BY <1>1, <1>2, <1>3, <1>4, Moves

\* The variables of do_work are its own, once main has started it.
LEMMA WorkerKept ==
    ASSUME Control, [Next]_vars, ~Working
    PROVE  /\ UNCHANGED <<link_info, rest, exits>>
           /\ wpc' = wpc \/ (wpc = "off" /\ wpc' = "check")
  <1>1. CASE Main
    BY <1>1 DEF Control, MainGoto, Main, SeedSet, SeedNoMemory, SeedIncrease, SeedPost, CreateWorker, CreateFails, JoinWorker, JoinPool
  <1>2. CASE \E t \in Threads : Pool(t) \/ Crawl(t)
    BY <1>2 DEF Pool, Crawl, BeginCrawl, Fetched, Dropped, Failed, CountUrl, PostUrl, Release, Signal
  <1>3. CASE Still
    BY <1>3 DEF Still
  <1> QED  BY <1>1, <1>2, <1>3, Moves

\* The elements of the dictionary are kept by every step.
LEMMA InfoStep ==
    ASSUME TypeInv, GraphConsistent, InHand, [Next]_vars
    PROVE  InfoKeptStep
  <1>1. ASSUME vertex_dict' = vertex_dict PROVE InfoKeptStep
    BY <1>1 DEF InfoKeptStep, Known
  <1>2. CASE Insert
    <2>1. /\ GraphTypes /\ link_info.url \in Urls /\ link_info.link_url \in Seq(Urls)
          /\ \E edges \in Edges(link_info.link_url) : InsertEdge(link_info.url, link_info.link_url, edges)
      BY <1>2, GraphTyped DEF Insert, TypeInv, TypeOK
    <2> QED  BY <2>1, EdgesStored, InsertEdgeKeeps
  <1>3. CASE Ask
    <2>1. wpc \in Following /\ rest # <<>> /\ rest \in Seq(Urls)
      BY <1>3 DEF Ask, WorkGoto, Following, TypeInv, TypeOK
    <2>2. Head(rest) \in Known
      BY <2>1, NextLinkKnown, RangeHeadTail
    <2> QED  BY <1>3, <2>2, MarkAskedConsistent, GraphTyped DEF Ask, TypeInv
  <1>4. CASE ~Insert /\ ~Ask
    BY <1>1, <1>4, GraphKept
  <1> QED  BY <1>2, <1>3, <1>4

\* A URL asked for stays so.
LEMMA AskedStays ==
    ASSUME TypeInv, GraphConsistent, InHand, [Next]_vars
    PROVE  Asked \subseteq Asked'
  <1>1. InfoKeptStep
    BY InfoStep
  <1>2. seeded => seeded'
    <2>1. CASE SeedSet
      BY <2>1 DEF SeedSet
    <2>2. CASE ~SeedSet
      <3>1. CASE Main
        BY <2>2, <3>1 DEF Main, SeedNoMemory, SeedIncrease, SeedPost, CreateWorker, CreateFails, JoinWorker, JoinPool
      <3>2. CASE Working
        BY <3>2 DEF Working, Check, WaitWork, Size, Top, Insert, Skip, Ask, AskNoMemory, AskIncrease, AskPost, Done, SetExit, PostExit, Return
      <3>3. CASE \E t \in Threads : Pool(t) \/ Crawl(t)
        BY <3>3 DEF Pool, Crawl, BeginCrawl, Fetched, Dropped, Failed, CountUrl, PostUrl, Release, Signal
      <3>4. CASE Still
        BY <3>4 DEF Still
      <3> QED  BY <3>1, <3>2, <3>3, <3>4, Moves
    <2> QED  BY <2>1, <2>2
  <1> QED  BY <1>1, <1>2 DEF Asked, InfoKeptStep

\* The step that asks for a URL gives it its first place; no other step
\* gives it one more.
LEMMA PlacedStep ==
    ASSUME TypeInv, Control, GraphInv, [Next]_vars, NEW u \in Urls
    PROVE  /\ Placed(u)' \in Int
           /\ \/ Placed(u)' <= Placed(u)
              \/ u \notin Asked /\ u \in Asked' /\ Placed(u)' = Placed(u) + 1
  <1> USE DEF GraphInv
  <1>1. Held(u) \in Nat /\ Recorded(u) \in Nat /\ Placed(u) = Held(u) + Recorded(u)
    BY PlacedNat DEF Placed, TypeInv
  <1>2. Placed(u)' = Held(u)' + Recorded(u)' /\ Recorded(u)' \in Nat
    BY DEF Placed, Recorded, Bit
  <1>3. ASSUME UNCHANGED <<link_info, vertex_dict>>, wpc' = "insert" <=> wpc = "insert"
        PROVE  Recorded(u)' = Recorded(u)
    BY <1>3 DEF Recorded, IsVertex, Known
  <1>4. CASE Main
    <2>1. Recorded(u)' = Recorded(u)
      BY <1>3, <1>4 DEF Control, MainGoto, Main, SeedSet, SeedNoMemory, SeedIncrease, SeedPost, CreateWorker, CreateFails, JoinWorker, JoinPool
    <2>2. Held(u)' = Held(u) + Bit(SeedSet /\ u = Seed)
      BY <1>4, HeldMain
    <2>3. CASE SeedSet /\ u = Seed
      <3>1. u \notin Asked /\ u \in Asked'
        BY <2>3 DEF SeedSet, MainGoto, SeedFirst, Asked
      <3> QED  BY <1>1, <1>2, <2>1, <2>2, <2>3, <3>1 DEF Bit
    <2>4. CASE ~(SeedSet /\ u = Seed)
      BY <1>1, <1>2, <2>1, <2>2, <2>4 DEF Bit
    <2> QED  BY <2>3, <2>4
  <1>5. CASE Working
    <2>1. Held(u)' = Held(u) + Bit(Ask /\ u = Head(rest)) - Bit(Top /\ u = Head(urlqueue).url)
      BY <1>5, HeldWork
    <2>2. CASE Ask
      <3>1. wpc = "iter" /\ wpc' = "incr" /\ rest # <<>> /\ rest \in Seq(Urls) /\ link_info' = link_info
        BY <2>2 DEF Ask, WorkGoto, TypeInv, TypeOK
      <3>2. Head(rest) \in Known /\ ~vertex_dict[Head(rest)].in
        BY <2>2, <3>1, NextLinkKnown, RangeHeadTail DEF Ask, Following
      <3>3. Known' = Known /\ vertex_dict'[Head(rest)].in /\ \A w \in Known : vertex_dict'[w].vid = vertex_dict[w].vid
        BY <2>2, <3>2, MarkAskedInfos, GraphTyped DEF Ask, TypeInv
      <3>4. Recorded(u)' = Recorded(u)
        BY <3>1, <3>3 DEF Recorded, IsVertex
      <3>5. Head(rest) \notin Asked /\ Head(rest) \in Asked'
        BY <3>2, <3>3 DEF Asked, SeedFirst
      <3>6. ~Top
        BY <3>1 DEF Top, WorkGoto
      <3>7. CASE u = Head(rest)
        BY <1>1, <1>2, <2>1, <2>2, <3>4, <3>5, <3>6, <3>7 DEF Bit
      <3>8. CASE u # Head(rest)
        BY <1>1, <1>2, <2>1, <3>4, <3>6, <3>8 DEF Bit
      <3> QED  BY <3>7, <3>8
    <2>3. CASE Top
      <3>1. wpc = "top" /\ wpc' = "insert" /\ link_info' = Head(urlqueue) /\ vertex_dict' = vertex_dict
        BY <2>3 DEF Top, WorkGoto
      <3>2. Recorded(u)' = Recorded(u) + Bit(u = Head(urlqueue).url)
        BY <3>1 DEF Recorded, IsVertex, Known, Bit
      <3>3. ~Ask
        BY <3>1 DEF Ask, WorkGoto
      <3> QED  BY <1>1, <1>2, <2>1, <2>3, <3>2, <3>3 DEF Bit
    <2>4. CASE Insert
      <3>1. wpc = "insert" /\ wpc' = "iter"
        BY <2>4 DEF Insert, WorkGoto
      <3>2. IsVertex(u)' <=> IsVertex(u) \/ u = link_info.url
        BY <2>4, InsertVertices
      <3>3. Recorded(u)' <= Recorded(u)
        BY <3>1, <3>2 DEF Recorded, Bit
      <3>4. ~Ask /\ ~Top
        BY <3>1 DEF Ask, Top, WorkGoto
      <3> QED  BY <1>1, <1>2, <2>1, <3>3, <3>4 DEF Bit
    <2>5. CASE ~Ask /\ ~Top /\ ~Insert
      <3>1. Recorded(u)' = Recorded(u)
        BY <1>3, <1>5, <2>5 DEF Working, WorkGoto, Check, WaitWork, Size, Skip, AskNoMemory, AskIncrease, AskPost, Done, SetExit, PostExit, Return
      <3> QED  BY <1>1, <1>2, <2>1, <2>5, <3>1 DEF Bit
    <2> QED  BY <2>2, <2>3, <2>4, <2>5
  <1>6. ASSUME NEW t \in Threads, Pool(t) \/ Crawl(t)
        PROVE  Placed(u)' \in Int /\ Placed(u)' <= Placed(u)
    <2>1. Recorded(u)' = Recorded(u)
      BY <1>3, <1>6 DEF Pool, Crawl, BeginCrawl, Fetched, Dropped, Failed, CountUrl, PostUrl, Release, Signal
    <2>2. Held(u)' = Held(u) - Bit(Drops(t) /\ u = job[t])
      BY <1>6, HeldThread
    <2> QED  BY <1>1, <1>2, <2>1, <2>2 DEF Bit
  <1>7. CASE Still
    <2>1. Placed(u)' = Placed(u)
      BY <1>7 DEF Still, Placed, Held, JobsOf, FetchersOf, Fetching, PagesOf, Recorded, IsVertex, Known
    <2> QED  BY <1>1, <2>1
  <1> QED  BY <1>4, <1>5, <1>6, <1>7, Moves

\* Every step leaves a URL in one place, and only the URLs asked for.
LEMMA OnceStep ==
    TypeInv /\ Control /\ GraphInv /\ [Next]_vars => Once' /\ AskedOnly'
  <1> SUFFICES ASSUME TypeInv, Control, GraphInv, [Next]_vars, NEW u \in Urls
               PROVE  Placed(u)' <= 1 /\ (Placed(u)' > 0 => u \in Asked')
    BY DEF Once, AskedOnly
  <1>1. Placed(u) \in Nat /\ Placed(u) <= 1 /\ (Placed(u) > 0 => u \in Asked)
    BY PlacedNat DEF TypeInv, GraphInv, Once, AskedOnly
  <1>2. Asked \subseteq Asked'
    BY AskedStays DEF GraphInv
  <1>3. CASE u \notin Asked /\ u \in Asked' /\ Placed(u)' = Placed(u) + 1
    BY <1>1, <1>3
  <1>4. CASE Placed(u)' <= Placed(u)
    <2>1. Placed(u)' \in Int
      BY PlacedStep
    <2> QED  BY <1>1, <1>2, <1>4, <2>1
  <1> QED  BY <1>3, <1>4, PlacedStep

-----------------------------------------------------------------------------
(* The graph do_work builds. *)

\* The recording of a page, of which there is no vertex yet.
LEMMA InsertFresh ==
    ASSUME TypeInv, GraphInv, Insert
    PROVE  LET url == link_info.url
           IN  /\ ~IsVertex(url) /\ url \in Asked
               /\ url \in Known' /\ vertex_dict'[url] = [vid |-> Len(vertex), in |-> TRUE]
               /\ Len(vertex') = Len(vertex) + 1
               /\ \A i \in 1..Len(vertex) : vertex'[i] = vertex[i]
               /\ \E edges \in Edges(link_info.link_url) :
                     vertex'[Len(vertex) + 1] = [addr |-> url, edge |-> edges]
               /\ Known' = Known \cup {url} \cup Range(link_info.link_url)
               /\ \A w \in Known : w # url => vertex_dict'[w] = vertex_dict[w]
  <1> DEFINE url == link_info.url
  <1>0. PICK edges \in Edges(link_info.link_url) : InsertEdge(url, link_info.link_url, edges)
    BY DEF Insert
  <1>1. /\ GraphTypes /\ url \in Urls /\ link_info.link_url \in Seq(Urls)
        /\ edges \in Stored(link_info.link_url) /\ Len(vertex) \in Nat /\ wpc = "insert"
    BY GraphTyped, LenProperties, EdgesStored DEF TypeInv, TypeOK, Insert, WorkGoto
  <1>2. Held(url) \in Nat /\ Placed(url) = Held(url) + Recorded(url) /\ Recorded(url) = 1 + Bit(IsVertex(url))
    BY <1>1, PlacedNat DEF Placed, Recorded, Bit, TypeInv
  <1>3. ~IsVertex(url) /\ Placed(url) > 0
    BY <1>1, <1>2 DEF GraphInv, Once, Bit
  <1>4. url \in Asked
    BY <1>1, <1>3 DEF GraphInv, AskedOnly
  <1>5. /\ Known' = Known \cup {url} \cup Range(link_info.link_url)
        /\ \A w \in Known : w # url => vertex_dict'[w] = vertex_dict[w]
        /\ vertex_dict'[url] = [vid |-> Len(vertex), in |-> TRUE]
    BY <1>0, <1>1, <1>3, InsertEdgeInfos
  <1>6. /\ Len(vertex') = Len(vertex) + 1
        /\ \A i \in 1..Len(vertex) : vertex'[i] = vertex[i]
        /\ vertex'[Len(vertex) + 1] = [addr |-> url, edge |-> edges]
    BY <1>0, <1>1, <1>3, InsertEdgeNew
  <1> QED  BY <1>3, <1>4, <1>5, <1>6

\* The marking of a link, a URL not asked for yet.
LEMMA AskFresh ==
    ASSUME TypeInv, GraphInv, Ask
    PROVE  /\ wpc = "iter" /\ rest # <<>> /\ rest \in Seq(Urls)
           /\ Head(rest) \in Known /\ Head(rest) \in Urls /\ Head(rest) \notin Asked
           /\ Known' = Known /\ vertex' = vertex
           /\ vertex_dict' \in [Known -> Info]
           /\ vertex_dict'[Head(rest)].in
           /\ \A w \in Known : /\ vertex_dict'[w].vid = vertex_dict[w].vid
                               /\ w # Head(rest) => vertex_dict'[w] = vertex_dict[w]
           /\ GraphConsistent'
  <1>1. /\ wpc = "iter" /\ rest # <<>> /\ rest \in Seq(Urls) /\ MarkAsked(Head(rest))
        /\ ~vertex_dict[Head(rest)].in /\ vertex' = vertex /\ GraphTypes
    BY GraphTyped DEF Ask, WorkGoto, TypeInv, TypeOK
  <1>2. Head(rest) \in Known /\ Head(rest) \in Urls
    BY <1>1, NextLinkKnown, RangeHeadTail DEF GraphInv, Following, GraphTypes
  <1>3. Head(rest) \notin Asked
    BY <1>1, <1>2 DEF Asked, GraphInv, SeedFirst
  <1>4. GraphConsistent'
    BY <1>1, <1>2, MarkAskedConsistent DEF GraphInv
  <1> QED  BY <1>1, <1>2, <1>3, <1>4, MarkAskedInfos

\* Every step keeps the dictionary and the vertex array in agreement.
LEMMA ConsistentStep == TypeInv /\ GraphInv /\ [Next]_vars => GraphConsistent'
  <1> SUFFICES ASSUME TypeInv, GraphInv, [Next]_vars PROVE GraphConsistent'
    OBVIOUS
  <1>1. CASE Insert
    <2>1. /\ GraphTypes /\ link_info.url \in Urls /\ link_info.link_url \in Seq(Urls) /\ GraphConsistent
          /\ \E edges \in Edges(link_info.link_url) : InsertEdge(link_info.url, link_info.link_url, edges)
      BY <1>1, GraphTyped DEF Insert, TypeInv, TypeOK, GraphInv
    <2> QED  BY <2>1, EdgesStored, InsertEdgeConsistent
  <1>2. CASE Ask
    BY <1>2, AskFresh
  <1>3. CASE ~Insert /\ ~Ask
    BY <1>3, GraphKept DEF GraphInv, GraphConsistent, IsVertex, Known
  <1> QED  BY <1>1, <1>2, <1>3

\* The first page recorded is the seed's.
LEMMA SeedFirstStep == TypeInv /\ Control /\ GraphInv /\ [Next]_vars => SeedFirst'
  <1> SUFFICES ASSUME TypeInv, Control, GraphInv, [Next]_vars PROVE SeedFirst'
    OBVIOUS
  <1>1. InfoKeptStep
    BY InfoStep DEF GraphInv
  <1>2. mpc' = "seed" => mpc = "seed" /\ ~Main
    BY Moves DEF Still, MainGoto, Main, SeedSet, SeedNoMemory, SeedIncrease, SeedPost, CreateWorker, CreateFails, JoinWorker, JoinPool,
           Working, Check, WaitWork, Size, Top, Insert, Skip, Ask, AskNoMemory, AskIncrease, AskPost, Done, SetExit, PostExit, Return,
           Pool, Crawl, BeginCrawl, Fetched, Dropped, Failed, CountUrl, PostUrl, Release, Signal
  <1>3. mpc' = "seed" => ~seeded' /\ Known' = {}
    <2> SUFFICES ASSUME mpc' = "seed" PROVE ~seeded' /\ Known' = {}
      OBVIOUS
    <2>1. mpc = "seed" /\ ~Main /\ wpc = "off" /\ ~seeded /\ Known = {}
      BY <1>2 DEF Control, GraphInv, SeedFirst
    <2>2. ~Working
      BY <2>1 DEF Working, WorkGoto, Check, WaitWork, Size, Top, Insert, Skip, Ask, AskNoMemory, AskIncrease, AskPost, Done, SetExit, PostExit, Return
    <2>3. vertex_dict' = vertex_dict
      BY <2>2, GraphKept DEF Working
    <2>4. seeded' = seeded
      BY <2>1, <2>2, Moves DEF Still, Pool, Crawl, BeginCrawl, Fetched, Dropped, Failed, CountUrl, PostUrl, Release, Signal
    <2> QED  BY <2>1, <2>3, <2>4 DEF Known
  <1>4. Known' # {} => Seed \in Known' /\ vertex_dict'[Seed].in
    <2>1. CASE Known # {}
      BY <1>1, <2>1 DEF GraphInv, SeedFirst, InfoKeptStep
    <2>2. CASE Known = {} /\ Insert
      <3>1. link_info.url \in Asked /\ link_info.url \in Known' /\ vertex_dict'[link_info.url].in
        BY <2>2, InsertFresh
      <3>2. Asked \subseteq {Seed}
        BY <2>2 DEF Asked
      <3> QED  BY <3>1, <3>2
    <2>3. CASE Known = {} /\ ~Insert
      <3>1. Known' = Known
        BY <2>3, AskFresh, GraphKept DEF Known
      <3> QED  BY <2>3, <3>1
    <2> QED  BY <2>1, <2>2, <2>3
  <1> QED  BY <1>3, <1>4 DEF SeedFirst

\* The links in hand are those of the page recorded.
LEMMA InHandStep == TypeInv /\ Control /\ GraphInv /\ [Next]_vars => InHand'
  <1> SUFFICES ASSUME TypeInv, Control, GraphInv, [Next]_vars, wpc' \in Following
               PROVE  /\ IsVertex(link_info.url)'
                      /\ Range(link_info'.link_url) \subseteq Known'
                      /\ Range(rest') \subseteq Range(link_info'.link_url)
    BY DEF InHand
  <1> DEFINE url == link_info.url
  <1>1. CASE Insert
    <2>1. /\ link_info' = link_info /\ rest' = link_info.link_url
          /\ Len(vertex) \in Nat
      BY <1>1, LenProperties DEF Insert, TypeInv, TypeOK
    <2>2. /\ url \in Known' /\ vertex_dict'[url].vid = Len(vertex)
          /\ Range(link_info.link_url) \subseteq Known'
      BY <1>1, InsertFresh
    <2> QED  BY <2>1, <2>2 DEF IsVertex
  <1>2. ASSUME UNCHANGED <<link_info, vertex>>, Known' = Known,
               \A w \in Known : vertex_dict'[w].vid = vertex_dict[w].vid,
               Range(rest') \subseteq Range(rest), wpc \in Following
        PROVE  /\ IsVertex(link_info.url)'
               /\ Range(link_info'.link_url) \subseteq Known'
               /\ Range(rest') \subseteq Range(link_info'.link_url)
    <2>1. /\ url \in Known /\ vertex_dict[url].vid >= 0
          /\ Range(link_info.link_url) \subseteq Known
          /\ Range(rest) \subseteq Range(link_info.link_url)
      BY <1>2 DEF GraphInv, InHand, IsVertex
    <2>2. vertex_dict'[url].vid = vertex_dict[url].vid
      BY <1>2, <2>1
    <2> QED  BY <1>2, <2>1, <2>2 DEF IsVertex
  <1>3. rest # <<>> => Range(Tail(rest)) \subseteq Range(rest)
    BY RangeHeadTail DEF TypeInv, TypeOK
  <1>4. CASE Ask
    <2>1. rest' = Tail(rest) /\ link_info' = link_info /\ wpc \in Following
      BY <1>4 DEF Ask, WorkGoto, Following
    <2> QED  BY <1>2, <1>3, <1>4, <2>1, AskFresh
  <1>5. CASE ~Insert /\ ~Ask
    <2>1. UNCHANGED <<vertex, vertex_dict>>
      BY <1>5, GraphKept
    <2>2. /\ link_info' = link_info /\ wpc \in Following
          /\ rest' = rest \/ (rest # <<>> /\ rest' = Tail(rest))
      <3>1. CASE Working
        BY <1>5, <3>1 DEF Following, Working, WorkGoto, Check, WaitWork, Size, Top, Skip, AskNoMemory, AskIncrease, AskPost, Done, SetExit, PostExit, Return
      <3>2. CASE ~Working
        BY <3>2, WorkerKept DEF Following
      <3> QED  BY <3>1, <3>2
    <2>3. Range(rest') \subseteq Range(rest)
      BY <1>3, <2>2
    <2> QED  BY <1>2, <2>1, <2>2, <2>3 DEF Known
  <1> QED  BY <1>1, <1>4, <1>5

\* The links of a page are those filter left of it.
LEMMA LinksFromPagesStep == TypeInv /\ Control /\ GraphInv /\ [Next]_vars => LinksFromPages'
  <1> SUFFICES ASSUME TypeInv, Control, LinksFromPages, [Next]_vars PROVE LinksFromPages'
    BY DEF GraphInv
  <1>1. urlqueue \in Seq(Page)
    BY DEF TypeInv, TypeOK, Page
  <1>2. CASE Top
    <2>1. /\ urlqueue # <<>> /\ link_info' = Head(urlqueue) /\ urlqueue' = Tail(urlqueue)
      BY <1>2 DEF Top
    <2>2. /\ Len(urlqueue) \in Nat \ {0} /\ Head(urlqueue) = urlqueue[1]
          /\ Len(urlqueue') = Len(urlqueue) - 1
          /\ \A i \in 1..(Len(urlqueue) - 1) : urlqueue'[i] = urlqueue[i + 1]
      BY <1>1, <2>1, EmptySeq, HeadTailProperties
    <2> QED  BY <2>1, <2>2 DEF LinksFromPages
  <1>3. CASE \E t \in Threads : Fetched(t)
    <2>1. PICK t \in Threads : Fetched(t)
      BY <1>3
    <2>2. UNCHANGED <<wpc, link_info>>
      BY <2>1 DEF Fetched
    <2>3. CASE urlqueue' = urlqueue
      BY <2>2, <2>3 DEF LinksFromPages
    <2>4. ASSUME NEW links \in Pages, [url |-> job[t], link_url |-> links] \in Page,
                 urlqueue' = Append(urlqueue, [url |-> job[t], link_url |-> links])
          PROVE  LinksFromPages'
      <3> DEFINE page == [url |-> job[t], link_url |-> links]
      <3>1. page \in Page /\ page.link_url \in Pages
        BY <2>4
      <3> HIDE DEF page
      <3>2. /\ Len(urlqueue) \in Nat /\ Len(urlqueue') = Len(urlqueue) + 1
            /\ \A i \in 1..Len(urlqueue) : urlqueue'[i] = urlqueue[i]
            /\ urlqueue'[Len(urlqueue) + 1] = page
        BY <1>1, <2>4, <3>1, AppendProperties, LenProperties DEF page
      <3> QED  BY <2>2, <3>1, <3>2 DEF LinksFromPages
    <2> QED  BY <2>1, <2>3, <2>4, PagePushed DEF Page
  <1>4. CASE ~Top /\ ~(\E t \in Threads : Fetched(t))
    <2>1. urlqueue' = urlqueue /\ (wpc' = "insert" => wpc = "insert" /\ link_info' = link_info)
      <3>1. CASE Main
        BY <3>1 DEF Control, MainGoto, Main, SeedSet, SeedNoMemory, SeedIncrease, SeedPost, CreateWorker, CreateFails, JoinWorker, JoinPool
      <3>2. CASE Working
        BY <1>4, <3>2 DEF Working, WorkGoto, Check, WaitWork, Size, Insert, Skip, Ask, AskNoMemory, AskIncrease, AskPost, Done, SetExit, PostExit, Return
      <3>3. CASE \E t \in Threads : Pool(t) \/ Crawl(t)
        BY <1>4, <3>3 DEF Pool, Crawl, BeginCrawl, Dropped, Failed, CountUrl, PostUrl, Release, Signal
      <3>4. CASE Still
        BY <3>4 DEF Still
      <3> QED  BY <3>1, <3>2, <3>3, <3>4, Moves
    <2> QED  BY <2>1 DEF LinksFromPages
  <1> QED  BY <1>2, <1>3, <1>4

\* No link is passed over but for want of memory.
LEMMA FollowedStep == TypeInv /\ Control /\ GraphInv /\ [Next]_vars => Followed'
  <1> SUFFICES ASSUME TypeInv, Control, GraphInv, [Next]_vars, "do_work" \notin AllocFails, NEW u \in Known'
               PROVE  vertex_dict'[u].in \/ (wpc' \in Following /\ u \in Range(rest'))
    BY DEF Followed
  <1>1. u \in Known => vertex_dict[u].in \/ (wpc \in Following /\ u \in Range(rest))
    BY DEF GraphInv, Followed
  <1>2. rest # <<>> => Range(rest) = {Head(rest)} \cup Range(Tail(rest))
    BY RangeHeadTail DEF TypeInv, TypeOK
  <1>3. u \in Known /\ vertex_dict[u].in => vertex_dict'[u].in
    BY InfoStep DEF GraphInv, InfoKeptStep
  <1>4. CASE Insert
    <2>1. wpc = "insert" /\ wpc' = "iter" /\ rest' = link_info.link_url
      BY <1>4 DEF Insert, WorkGoto
    <2>2. /\ Known' = Known \cup {link_info.url} \cup Range(link_info.link_url)
          /\ vertex_dict'[link_info.url].in
      BY <1>4, InsertFresh
    <2> QED  BY <1>1, <1>3, <2>1, <2>2 DEF Following
  <1>5. CASE Ask
    <2>1. wpc' = "incr" /\ rest' = Tail(rest)
      BY <1>5 DEF Ask, WorkGoto
    <2>2. Known' = Known /\ vertex_dict'[Head(rest)].in /\ rest # <<>>
      BY <1>5, AskFresh
    <2> QED  BY <1>1, <1>2, <1>3, <2>1, <2>2 DEF Following
  <1>6. CASE Skip
    <2>1. wpc' = "iter" /\ rest' = Tail(rest) /\ rest # <<>> /\ vertex_dict[Head(rest)].in /\ vertex_dict' = vertex_dict
      BY <1>6 DEF Skip, WorkGoto
    <2> QED  BY <1>1, <1>2, <1>3, <2>1 DEF Following, Known
  <1>7. CASE ~Insert /\ ~Ask /\ ~Skip
    <2>1. vertex_dict' = vertex_dict
      BY <1>7, GraphKept
    <2>2. CASE wpc \notin Following
      BY <1>1, <1>3, <2>1, <2>2 DEF Known
    <2>3. CASE wpc \in Following
      <3>1. CASE Done
        <4>1. Range(rest) = {}
          BY <3>1, EmptySeq DEF Done, Range
        <4> QED  BY <1>1, <1>3, <2>1, <4>1 DEF Known
      <3>2. CASE AskIncrease \/ AskPost
        BY <1>1, <2>1, <3>2 DEF AskIncrease, AskPost, WorkGoto, Following, Known
      <3>3. CASE ~Working
        <4>1. rest' = rest /\ wpc' = wpc
          BY <2>3, <3>3, WorkerKept DEF Following
        <4> QED  BY <1>1, <2>1, <4>1 DEF Known
      <3> QED  BY <1>7, <2>3, <3>1, <3>2, <3>3 DEF Following, Working, WorkGoto, Check, WaitWork, Size, Top, AskNoMemory, SetExit, PostExit, Return
    <2> QED  BY <2>2, <2>3
  <1> QED  BY <1>4, <1>5, <1>6, <1>7

-----------------------------------------------------------------------------
(* The invariant of the graph. *)

\* The invariant of the graph holds at the start.
LEMMA GraphInvInit == Init => GraphInv
  <1> SUFFICES ASSUME Init PROVE GraphInv
    OBVIOUS
  <1> USE DEF Init
  <1>1. GraphConsistent /\ Known = {}
    BY WebGraphStart DEF WebGraphInit, Known
  <1>2. SeedFirst /\ InHand /\ LinksFromPages /\ Followed
    BY <1>1, EmptySeq DEF SeedFirst, InHand, Following, LinksFromPages, Followed
  <1>3. ASSUME NEW u \in Urls PROVE Placed(u) = 0
    <2>1. /\ Occurs(job_queue, u) = {} /\ Occurs(jobs_lost, u) = {}
          /\ Occurs(UrlsOf(urlqueue), u) = {} /\ Occurs(pages_lost, u) = {}
          /\ {t \in Fetching : job[t] = u} = {}
      BY EmptySeq DEF PoolInit, Occurs, UrlsOf, Fetching
    <2>2. Recorded(u) = 0
      BY <1>1 DEF Recorded, Bit, IsVertex
    <2>3. Count({}) = 0
      BY FS_EmptySet DEF Count
    <2>4. JobsOf(u) = 0 /\ PagesOf(u) = 0 /\ FetchersOf(u) = 0
      <3>1. /\ Count(Occurs(job_queue, u)) = 0 /\ Count(Occurs(jobs_lost, u)) = 0
            /\ Count(Occurs(UrlsOf(urlqueue), u)) = 0 /\ Count(Occurs(pages_lost, u)) = 0
            /\ Count({t \in Fetching : job[t] = u}) = 0
        BY <2>1, <2>3, Zenon
      <3> QED  BY <3>1 DEF JobsOf, PagesOf, FetchersOf
    <2> QED  BY <2>2, <2>4 DEF Placed, Held
  <1>4. Once /\ AskedOnly
    BY <1>3 DEF Once, AskedOnly
  <1> QED  BY <1>1, <1>2, <1>4 DEF GraphInv

\* Every step keeps the invariant of the graph.
LEMMA GraphInvStep == StopInv /\ GraphInv /\ [Next]_vars => GraphInv'
  <1> SUFFICES ASSUME TypeInv, Control, GraphInv, [Next]_vars PROVE GraphInv'
    BY DEF StopInv
  <1> QED  BY ConsistentStep, OnceStep, SeedFirstStep, InHandStep, LinksFromPagesStep, FollowedStep DEF GraphInv

\* The whole invariant of the graph always holds.
THEOREM GraphKeeps == Spec => [](StopInv /\ GraphInv)
  BY StopInit, StopStep, GraphInvInit, GraphInvStep, PTL DEF Spec

\* The dictionary and the vertex array always agree.
THEOREM CrawlConsistent == Spec => []GraphConsistent
  <1>1. GraphInv => GraphConsistent
    BY DEF GraphInv
  <1> QED  BY <1>1, GraphKeeps, PTL

\* A URL is in one place at a time: no page is fetched or recorded twice.
THEOREM CrawlsOnce == Spec => []CrawledOnce
  <1>1. StopInv /\ GraphInv => CrawledOnce
    <2> DEFINE J(u) == Count(Occurs(job_queue, u))
               D(u) == Count(Occurs(jobs_lost, u))
               F(u) == Count({t \in Fetching : job[t] = u})
               P(u) == Count({i \in 1..Len(urlqueue) : urlqueue[i].url = u})
               M(u) == Count(Occurs(pages_lost, u))
               B(u) == Bit(wpc = "insert" /\ link_info.url = u)
               V(u) == Bit(IsVertex(u))
    <2> SUFFICES ASSUME TypeInv, Once, NEW u \in Urls
                 PROVE  J(u) + D(u) + F(u) + P(u) + M(u) + B(u) + V(u) <= 1
      BY DEF StopInv, GraphInv, CrawledOnce
    <2>1. {i \in 1..Len(urlqueue) : urlqueue[i].url = u} = Occurs(UrlsOf(urlqueue), u)
      BY UrlsOfType DEF Occurs, TypeInv, TypeOK, Page
    <2>2. JobsOf(u) = J(u) + D(u) /\ FetchersOf(u) = F(u) /\ PagesOf(u) = P(u) + M(u) /\ Recorded(u) = B(u) + V(u)
      BY <2>1 DEF JobsOf, FetchersOf, PagesOf, Recorded
    <2>3. J(u) \in Nat /\ D(u) \in Nat /\ P(u) \in Nat /\ M(u) \in Nat
      <3>1. UrlsOf(urlqueue) \in Seq(Urls)
        BY UrlsOfType DEF TypeInv, TypeOK, Page
      <3> QED  BY <2>1, <3>1, OccursFinite DEF TypeInv, TypeOK
    <2>4. F(u) \in Nat /\ B(u) \in Nat /\ V(u) \in Nat
      <3>1. FetchersOf(u) \in Nat
        BY PlacesNat DEF TypeInv
      <3> QED  BY <2>2, <3>1 DEF Bit
    <2> HIDE DEF J, D, F, P, M, B, V
    <2>5. (J(u) + D(u)) + F(u) + (P(u) + M(u)) + (B(u) + V(u)) <= 1
      BY <2>2 DEF Once, Placed, Held
    <2> QED  BY <2>3, <2>4, <2>5
  <1> QED  BY <1>1, GraphKeeps, PTL

-----------------------------------------------------------------------------
(* What is open, and what is recorded. *)

(* A URL is open while it is held or recorded.                             *)
OpenIsHeld ==
    /\ Open \subseteq Urls
    /\ \A u \in Urls : u \in Open <=> Held(u) > 0 \/ (wpc \in Recording /\ link_info.url = u)

\* That is what open means.
LEMMA OpenHeld ==
    TypeInv => \A u \in Urls : u \in Open <=> Held(u) > 0 \/ (wpc \in Recording /\ link_info.url = u)
  <1> SUFFICES ASSUME TypeInv, NEW u \in Urls
               PROVE  u \in Open <=> Held(u) > 0 \/ (wpc \in Recording /\ link_info.url = u)
    OBVIOUS
  <1> DEFINE F == {t \in Fetching : job[t] = u}
             Q == Occurs(job_queue, u)
             D == Occurs(jobs_lost, u)
             P == Occurs(UrlsOf(urlqueue), u)
             M == Occurs(pages_lost, u)
  <1>1. /\ urlqueue \in Seq(Page) /\ job_queue \in Seq(Urls \cup {Exit})
        /\ pages_lost \in Seq(Urls) /\ jobs_lost \in Seq(Urls \cup {Exit})
    BY DEF TypeInv, TypeOK, Page
  <1>2. UrlsOf(urlqueue) \in Seq(Urls) /\ Len(UrlsOf(urlqueue)) = Len(urlqueue)
        /\ \A i \in 1..Len(urlqueue) : UrlsOf(urlqueue)[i] = urlqueue[i].url
    BY <1>1, UrlsOfType
  <1>3. IsFiniteSet(Q) /\ IsFiniteSet(D) /\ IsFiniteSet(P) /\ IsFiniteSet(M)
    BY <1>1, <1>2, OccursFinite
  <1>4. IsFiniteSet(F)
    <2>1. F \subseteq Threads
      BY DEF Fetching
    <2> QED  BY <2>1, ThreadsAssumption, FS_Subset
  <1>5. /\ u \in {job_queue[i] : i \in CrawlJobs} <=> Q # {}
        /\ u \in {jobs_lost[i] : i \in LostJobs} <=> D # {}
    BY UrlsAssumption DEF CrawlJobs, LostJobs, Occurs
  <1>6. u \in {urlqueue[i].url : i \in 1..Len(urlqueue)} <=> P # {}
    BY <1>2 DEF Occurs
  <1>7. u \in {job[t] : t \in Fetching} <=> F # {}
    OBVIOUS
  <1>8. u \in Range(pages_lost) <=> M # {}
    BY <1>1, LenProperties DEF Occurs, Range
  <1> HIDE DEF F, Q, D, P, M
  <1>9. /\ Count(Q) \in Nat /\ (Q # {} <=> Count(Q) # 0)
        /\ Count(D) \in Nat /\ (D # {} <=> Count(D) # 0)
        /\ Count(P) \in Nat /\ (P # {} <=> Count(P) # 0)
        /\ Count(M) \in Nat /\ (M # {} <=> Count(M) # 0)
        /\ Count(F) \in Nat /\ (F # {} <=> Count(F) # 0)
    BY <1>3, <1>4, FS_CardinalityType, FS_EmptySet DEF Count
  <1>10. Held(u) = (Count(Q) + Count(D)) + Count(F) + (Count(P) + Count(M))
    BY DEF Held, JobsOf, FetchersOf, PagesOf, F, Q, D, P, M
  <1>11. Held(u) > 0 <=> Q # {} \/ D # {} \/ F # {} \/ P # {} \/ M # {}
    <2>1. Held(u) > 0 <=> Count(Q) # 0 \/ Count(D) # 0 \/ Count(F) # 0 \/ Count(P) # 0 \/ Count(M) # 0
      <3> DEFINE q == Count(Q)
                 d == Count(D)
                 f == Count(F)
                 p == Count(P)
                 m == Count(M)
      <3>1. q \in Nat /\ d \in Nat /\ f \in Nat /\ p \in Nat /\ m \in Nat
        BY <1>9
      <3>2. Held(u) = (q + d) + f + (p + m)
        BY <1>10
      <3> HIDE DEF q, d, f, p, m
      <3>3. Held(u) > 0 <=> q # 0 \/ d # 0 \/ f # 0 \/ p # 0 \/ m # 0
        BY <3>1, <3>2
      <3> QED  BY <3>3 DEF q, d, f, p, m
    <2> QED  BY <1>9, <2>1, Zenon
  <1> QED  BY <1>5, <1>6, <1>7, <1>8, <1>11 DEF Open

\* Only URLs are open.
LEMMA OpenUrls == TypeInv => Open \subseteq Urls
  <1> SUFFICES ASSUME TypeInv PROVE Open \subseteq Urls
    OBVIOUS
  <1>1. /\ job_queue \in Seq(Urls \cup {Exit}) /\ jobs_lost \in Seq(Urls \cup {Exit})
        /\ urlqueue \in Seq(Page) /\ pages_lost \in Seq(Urls) /\ link_info.url \in Urls
    BY DEF TypeInv, TypeOK, Page
  <1>2. /\ \A i \in CrawlJobs : job_queue[i] \in Urls
        /\ \A i \in LostJobs : jobs_lost[i] \in Urls
    BY <1>1, ElementOfSeq DEF CrawlJobs, LostJobs
  <1>3. \A t \in Fetching : job[t] \in Urls
    BY DEF Fetching, Crawls, TypeInv, TypeOK
  <1>4. \A i \in 1..Len(urlqueue) : urlqueue[i].url \in Urls
    <2>1. \A i \in 1..Len(urlqueue) : urlqueue[i] \in Page
      BY <1>1, ElementOfSeq
    <2> QED  BY <2>1 DEF Page
  <1>5. Range(pages_lost) \subseteq Urls
    BY <1>1, RangeOfSeq
  <1> QED  BY <1>1, <1>2, <1>3, <1>4, <1>5 DEF Open

\* The same in this state and the next.
LEMMA OpenNow == (TypeInv => OpenIsHeld) /\ (TypeInv' => OpenIsHeld')
  <1>1. TypeInv => OpenIsHeld
    BY OpenHeld, OpenUrls DEF OpenIsHeld
  <1> QED  BY <1>1, PTL

\* A URL held has no vertex and is not the one being recorded.
LEMMA OnePlace ==
    ASSUME TypeInv, GraphInv, NEW u \in Urls, Held(u) > 0
    PROVE  Held(u) = 1 /\ ~IsVertex(u) /\ ~(wpc \in Recording /\ link_info.url = u)
  <1>1. Held(u) \in Nat /\ Recorded(u) \in Nat /\ Held(u) + Recorded(u) <= 1
    BY PlacedNat DEF TypeInv, GraphInv, Once, Placed
  <1>2. Held(u) = 1 /\ Recorded(u) = 0
    BY <1>1
  <1>3. ~IsVertex(u) /\ ~(wpc = "insert" /\ link_info.url = u)
    BY SMTT(30), <1>2 DEF Recorded, Bit
  <1> QED  BY <1>2, <1>3 DEF GraphInv, InHand, Following, Recording

\* The pages recorded are the vertices, one for each.
LEMMA PagesAreVertices ==
    ASSUME TypeInv, GraphConsistent
    PROVE  /\ DOMAIN RecordedPages = {u \in Urls : IsVertex(u)}
           /\ IsFiniteSet(DOMAIN RecordedPages)
           /\ Cardinality(DOMAIN RecordedPages) = Len(vertex)
           /\ \A u \in Urls : IsVertex(u) =>
                 /\ vertex_dict[u].vid + 1 \in 1..Len(vertex)
                 /\ RecordedPages[u] = vertex[vertex_dict[u].vid + 1].edge
                 /\ Range(RecordedPages[u]) \subseteq Known
  <1> DEFINE n == Len(vertex)
             D == {vertex[i].addr : i \in 1..n}
             f == [i \in 1..n |-> vertex[i].addr]
  <1>1. n \in Nat /\ GraphTypes /\ Known \subseteq Urls /\ vertex_dict \in [Known -> Info]
    BY GraphTyped, LenProperties DEF TypeInv, GraphTypes
  <1>2. \A u : IsVertex(u) <=> \E i \in 1..n : vertex[i].addr = u
    BY <1>1, VertexAddrs
  <1>3. DOMAIN RecordedPages = D
    BY DEF RecordedPages
  <1>4. D = {u \in Urls : IsVertex(u)}
    BY <1>1, <1>2 DEF IsVertex
  <1>5. f \in Bijection(1..n, D)
    <2>1. f \in [1..n -> D]
      OBVIOUS
    <2>2. \A i \in 1..n : vertex_dict[f[i]].vid = i - 1
      BY DEF GraphConsistent
    <2>3. \A i, k \in 1..n : f[i] = f[k] => i = k
      <3> SUFFICES ASSUME NEW i \in 1..n, NEW k \in 1..n, f[i] = f[k] PROVE i = k
        OBVIOUS
      <3>1. i - 1 = k - 1
        BY <2>2
      <3> QED  BY <3>1
    <2>4. \A u \in D : \E i \in 1..n : f[i] = u
      OBVIOUS
    <2> HIDE DEF f, D
    <2> QED  BY <2>1, <2>3, <2>4 DEF Bijection, Injection, IsInjective, Surjection
  <1>6. IsFiniteSet(1..n) /\ Cardinality(1..n) = n
    <2>1. IsFiniteSet(1..n) /\ Cardinality(1..n) = IF 1 > n THEN 0 ELSE n - 1 + 1
      BY <1>1, FS_Interval
    <2> QED  BY <1>1, <2>1
  <1>7. IsFiniteSet(D) /\ Cardinality(D) = n
    <2>1. ExistsBijection(1..n, D)
      BY <1>5 DEF ExistsBijection
    <2> HIDE DEF D
    <2> QED  BY <1>6, <2>1, FS_Bijection
  <1>8. ASSUME NEW u \in Urls, IsVertex(u)
        PROVE  /\ vertex_dict[u].vid + 1 \in 1..n
               /\ RecordedPages[u] = vertex[vertex_dict[u].vid + 1].edge
               /\ Range(RecordedPages[u]) \subseteq Known
    <2>1. vertex_dict[u].vid \in Int
      BY <1>1, <1>8 DEF IsVertex, Info
    <2>2. vertex_dict[u].vid + 1 \in 1..n
      BY <1>1, <1>8, <2>1 DEF IsVertex, GraphConsistent
    <2>3. u \in D
      BY <1>4, <1>8
    <2>4. RecordedPages[u] = vertex[vertex_dict[u].vid + 1].edge
      BY <2>3 DEF RecordedPages
    <2> QED  BY <2>2, <2>4 DEF GraphConsistent
  <1> QED  BY Zenon, <1>3, <1>4, <1>7, <1>8

(* What the pages recorded are.                                            *)
PagesMeanVertices ==
    /\ DOMAIN RecordedPages = {u \in Urls : IsVertex(u)}
    /\ RecordedPages = [u \in DOMAIN RecordedPages |-> RecordedPages[u]]
    /\ \A u \in Urls : IsVertex(u) => RecordedPages[u] = vertex[vertex_dict[u].vid + 1].edge

\* They are that in this state and the next.
LEMMA PagesNow ==
    /\ TypeInv /\ GraphConsistent => PagesMeanVertices
    /\ (TypeInv /\ GraphConsistent => PagesMeanVertices)'
  <1>1. TypeInv /\ GraphConsistent => PagesMeanVertices
    <2>1. RecordedPages = [u \in DOMAIN RecordedPages |-> RecordedPages[u]]
      BY DEF RecordedPages
    <2> QED  BY <2>1, PagesAreVertices DEF PagesMeanVertices
  <1> QED  BY <1>1, PTL

\* A vertex was asked for.
LEMMA VertexAsked ==
    ASSUME GraphConsistent, NEW u, IsVertex(u)
    PROVE  u \in Asked
  BY DEF GraphConsistent, IsVertex, Asked

\* When do_work has stopped short of the limit nothing is open.
LEMMA NothingOpen ==
    ASSUME StopInv, wpc \in Stopping, ~Full
    PROVE  Open = {}
  <1>1. /\ urlqueue = <<>> /\ CrawlJobs = {} /\ Fetching = {}
        /\ pages_lost = <<>> /\ LostJobs = {}
    BY DEF StopInv, NoEarlyStop
  <1>2. 1..Len(urlqueue) = {} /\ Range(pages_lost) = {}
    BY <1>1, EmptySeq DEF Range
  <1> QED  BY <1>1, <1>2 DEF Open, Stopping, Recording

\* SiteCrawl counts and ranges as the crawl does.
LEMMA SiteOperators ==
    /\ \A S : Site!Cardinality(S) = Cardinality(S)
    /\ \A f : Site!Range(f) = Range(f)
  <1>1. \A S : Site!Cardinality(S) = Cardinality(S)
    BY DEF Site!Cardinality, Cardinality
  <1>2. \A f : Site!Range(f) = Range(f)
    BY DEF Site!Range, Range
  <1> QED  BY <1>1, <1>2

\* When the report starts short of the limit, and do_work had memory for every job,
\* every URL known has been asked for and every link of every page was followed.
THEOREM CrawlIsComplete == Spec => []Complete
  <1>1. StopInv /\ GraphInv => Complete
    <2> SUFFICES ASSUME StopInv, GraphInv PROVE Complete
      OBVIOUS
    <2>1. mpc = "report" => wpc = "returned"
      BY DEF StopInv, Control
    <2>2. "do_work" \notin AllocFails /\ wpc \in Stopping => \A u \in Known : vertex_dict[u].in
      BY DEF GraphInv, Followed, Following, Stopping
    <2>3. ASSUME "do_work" \notin AllocFails, wpc \in Stopping,
                 Cardinality(DOMAIN RecordedPages) < VertexMax
          PROVE  Open = {} /\ \A u \in DOMAIN RecordedPages : Range(RecordedPages[u]) \subseteq Asked
      <3>1. /\ Cardinality(DOMAIN RecordedPages) = Len(vertex)
            /\ \A u \in DOMAIN RecordedPages : Range(RecordedPages[u]) \subseteq Known
        BY PagesAreVertices DEF StopInv, GraphInv
      <3>2. ~Full
        BY <2>3, <3>1, LenProperties, UrlsAssumption DEF Full, StopInv, TypeInv, TypeOK
      <3>3. Known \subseteq Asked
        BY <2>2, <2>3 DEF Asked
      <3> QED  BY <2>3, <3>1, <3>2, <3>3, NothingOpen
    <2>4. Site!AllFollowed
      BY <2>3, SiteOperators DEF Site!AllFollowed, Site!Recorded
    <2> QED  BY <2>1, <2>2, <2>4 DEF Complete, Stopping
  <1> QED  BY <1>1, GraphKeeps, PTL

-----------------------------------------------------------------------------
(* The crawl implements SiteCrawl. *)

\* Open changes as held and the page being recorded do.
LEMMA OpenKept ==
    ASSUME TypeInv, TypeInv', \A u \in Urls : Held(u)' > 0 <=> Held(u) > 0,
           wpc' \in Recording <=> wpc \in Recording, link_info' = link_info
    PROVE  Open' = Open
  <1>1. OpenIsHeld /\ OpenIsHeld'
    BY OpenNow
  <1> QED  BY <1>1 DEF OpenIsHeld

\* The dictionary changes nothing asked for but by the marking of a link.
LEMMA AskedKept ==
    ASSUME TypeInv, GraphInv, [Next]_vars, ~SeedSet, ~Ask
    PROVE  Asked' = Asked
  <1>1. seeded' = seeded
    <2>1. CASE Main
      BY <2>1 DEF Main, SeedNoMemory, SeedIncrease, SeedPost, CreateWorker, CreateFails, JoinWorker, JoinPool
    <2>2. CASE Working
      BY <2>2 DEF Working, Check, WaitWork, Size, Top, Insert, Skip, AskNoMemory, AskIncrease, AskPost, Done, SetExit, PostExit, Return
    <2>3. CASE \E t \in Threads : Pool(t) \/ Crawl(t)
      BY <2>3 DEF Pool, Crawl, BeginCrawl, Fetched, Dropped, Failed, CountUrl, PostUrl, Release, Signal
    <2>4. CASE Still
      BY <2>4 DEF Still
    <2> QED  BY <2>1, <2>2, <2>3, <2>4, Moves
  <1>2. CASE Insert
    <2> DEFINE url == link_info.url
               links == link_info.link_url
    <2>1. /\ url \in Asked /\ ~IsVertex(url)
          /\ Known' = Known \cup {url} \cup Range(links)
          /\ vertex_dict'[url].in
          /\ \A w \in Known : w # url => vertex_dict'[w] = vertex_dict[w]
      BY <1>2, InsertFresh
    <2>2. \A w \in Known' \ Known : w # url => vertex_dict'[w] = [vid |-> -1, in |-> FALSE]
      <3>1. /\ GraphTypes /\ url \in Urls /\ links \in Seq(Urls)
            /\ \E edges \in Edges(links) : InsertEdge(url, links, edges)
        BY <1>2, GraphTyped DEF Insert, TypeInv, TypeOK
      <3> HIDE DEF url, links
      <3> QED  BY <3>1, EdgesStored, InsertEdgeInfos
    <2>3. \A w : w \in Asked' <=> w \in Asked
      BY <1>1, <2>1, <2>2 DEF Asked
    <2> QED  BY <2>3 DEF Asked
  <1>3. CASE ~Insert
    BY <1>1, <1>3, GraphKept DEF Asked, Known
  <1> QED  BY <1>2, <1>3

\* Only the recording of a page changes the pages recorded.
LEMMA PagesKept ==
    ASSUME TypeInv, GraphInv, [Next]_vars, ~Insert
    PROVE  RecordedPages' = RecordedPages
  <1>1. CASE Ask
    <2>1. Known' = Known /\ vertex' = vertex /\ \A w \in Known : vertex_dict'[w].vid = vertex_dict[w].vid
      BY <1>1, AskFresh
    <2>2. \A i \in 1..Len(vertex) : vertex[i].addr \in Known
      BY DEF GraphInv, GraphConsistent
    <2> QED  BY <2>1, <2>2 DEF RecordedPages
  <1>2. CASE ~Ask
    BY <1>2, GraphKept DEF RecordedPages
  <1> QED  BY <1>1, <1>2

\* Only the end of do_work's loop stops the crawl.
LEMMA StoppedKept ==
    ASSUME Control, [Next]_vars, ~Check
    PROVE  wpc' \in Stopping <=> wpc \in Stopping
  <1>1. CASE Working
    BY <1>1 DEF Stopping, WorkGoto, Working, WaitWork, Size, Top, Insert, Skip, Ask, AskNoMemory, AskIncrease, AskPost, Done, SetExit, PostExit, Return
  <1>2. CASE ~Working
    BY <1>2, WorkerKept DEF Stopping
  <1> QED  BY <1>1, <1>2

\* The links gone through are those of one page while iter has it in hand.
LEMMA LinksKept ==
    ASSUME link_info' = link_info, wpc' \in Following <=> wpc \in Following
    PROVE  LinksFollowed' = LinksFollowed
  BY DEF LinksFollowed, Following, Recording

\* The setting of the seed's job is the first request.
LEMMA SeedIsRequest ==
    ASSUME TypeInv, TypeInv', Control, GraphInv, SeedSet
    PROVE  Site!RequestSeed
  <1>1. /\ mpc = "seed" /\ wpc = "off" /\ seeded' = TRUE
        /\ UNCHANGED <<vertex, vertex_dict, wpc, link_info>>
        /\ Known = {} /\ ~seeded /\ Seed \in Urls
    BY UrlsAssumption DEF SeedSet, MainGoto, Control, GraphInv, SeedFirst
  <1>2. Asked = {} /\ Asked' = {Seed}
    BY <1>1 DEF Asked, Known
  <1>3. RecordedPages' = RecordedPages
    BY <1>1 DEF RecordedPages
  <1>4. \A u \in Urls : Held(u)' > 0 <=> Held(u) > 0 \/ u = Seed
    <2> SUFFICES ASSUME NEW u \in Urls PROVE Held(u)' > 0 <=> Held(u) > 0 \/ u = Seed
      OBVIOUS
    <2>1. Held(u) \in Nat /\ Held(u)' = Held(u) + Bit(SeedSet /\ u = Seed)
      BY HeldMain, PlacedNat DEF Main, TypeInv
    <2> QED  BY <2>1 DEF Bit
  <1>5. OpenIsHeld /\ OpenIsHeld'
    BY OpenNow
  <1>6. Open' = Open \cup {Seed}
    BY <1>1, <1>4, <1>5 DEF OpenIsHeld, Recording
  <1>7. LinksFollowed' = LinksFollowed
    BY <1>1, LinksKept
  <1> QED  BY <1>1, <1>2, <1>3, <1>6, <1>7 DEF Site!RequestSeed, Site!Request, Stopping

\* The setting of a link's job is a request by a link of the page recorded.
LEMMA AskIsFollow ==
    ASSUME TypeInv, TypeInv', Control, GraphInv, [Next]_vars, Ask
    PROVE  Site!FollowLink
  <1> DEFINE url == link_info.url
             v == Head(rest)
  <1>1. /\ wpc = "iter" /\ wpc' = "incr" /\ link_info' = link_info /\ seeded' = seeded
        /\ rest # <<>> /\ rest \in Seq(Urls) /\ url \in Urls
    BY DEF Ask, WorkGoto, TypeInv, TypeOK
  <1>2. /\ v \in Known /\ v \in Urls /\ v \notin Asked
        /\ Known' = Known /\ vertex_dict'[v].in
        /\ \A w \in Known : w # v => vertex_dict'[w] = vertex_dict[w]
    BY AskFresh
  <1>3. Asked' = Asked \cup {v}
    BY <1>1, <1>2 DEF Asked
  <1>4. RecordedPages' = RecordedPages
    BY <1>1, PagesKept DEF Insert, WorkGoto
  <1>5. \A u \in Urls : Held(u)' > 0 <=> Held(u) > 0 \/ u = v
    <2> SUFFICES ASSUME NEW u \in Urls PROVE Held(u)' > 0 <=> Held(u) > 0 \/ u = v
      OBVIOUS
    <2>1. Held(u) \in Nat /\ Held(u)' = Held(u) + Bit(u = v)
      <3>1. ~Top
        BY <1>1 DEF Top, WorkGoto
      <3>2. Held(u) \in Nat /\ Held(u)' = Held(u) + Bit(Ask /\ u = v) - Bit(Top /\ u = Head(urlqueue).url)
        BY HeldWork, PlacedNat DEF Working, TypeInv
      <3> QED  BY <3>1, <3>2 DEF Bit
    <2> QED  BY <2>1 DEF Bit
  <1>6. OpenIsHeld /\ OpenIsHeld'
    BY OpenNow
  <1>7. Open' = Open \cup {v} /\ url \in Open
    BY <1>1, <1>2, <1>5, <1>6 DEF OpenIsHeld, Recording
  <1>8. v \in LinksFollowed /\ LinksFollowed' = LinksFollowed
    <2>1. Range(rest) \subseteq Range(link_info.link_url)
      BY <1>1 DEF GraphInv, InHand, Following
    <2>2. v \in Range(rest)
      BY <1>1, RangeHeadTail
    <2> QED  BY <1>1, <2>1, <2>2, LinksKept DEF LinksFollowed, Recording, Following
  <1>9. Site!Request(v)
    BY <1>1, <1>2, <1>3, <1>4, <1>7, <1>8 DEF Site!Request, Stopping
  <1> QED  BY <1>8, <1>9 DEF Site!FollowLink

\* The recording of a page in the graph is its recording.
LEMMA InsertIsRecord ==
    ASSUME StopInv, TypeInv', GraphInv, GraphInv', [Next]_vars, Insert
    PROVE  \E u \in Open : Site!Record(u)
  <1> DEFINE url == link_info.url
             links == link_info.link_url
  <1>1. /\ TypeInv /\ wpc = "insert" /\ wpc' = "iter" /\ link_info' = link_info /\ url \in Urls
        /\ Len(vertex) \in Nat /\ links \in Pages
    BY LenProperties DEF StopInv, Insert, WorkGoto, TypeInv, TypeOK, GraphInv, LinksFromPages
  <1>0. PICK edges \in Edges(links) : vertex'[Len(vertex) + 1] = [addr |-> url, edge |-> edges]
    BY <1>1, InsertFresh
  <1>2. /\ ~IsVertex(url)
        /\ url \in Known' /\ vertex_dict'[url].vid = Len(vertex)
        /\ \A i \in 1..Len(vertex) : vertex'[i] = vertex[i]
        /\ vertex'[Len(vertex) + 1].edge = edges
        /\ \A w \in Known : w # url => vertex_dict'[w] = vertex_dict[w]
    BY <1>0, <1>1, InsertFresh
  <1>3. \A u \in Urls : IsVertex(u)' <=> IsVertex(u) \/ u = url
    BY <1>1, InsertVertices
  <1> DEFINE D == DOMAIN RecordedPages
  <1>4. /\ D = {u \in Urls : IsVertex(u)} /\ Cardinality(D) = Len(vertex)
        /\ \A u \in D : vertex_dict[u].vid + 1 \in 1..Len(vertex)
                        /\ RecordedPages[u] = vertex[vertex_dict[u].vid + 1].edge
    BY <1>1, PagesAreVertices DEF GraphInv
  <1>5. RecordedPages' = [v \in D \cup {url} |-> IF v = url THEN edges ELSE RecordedPages[v]]
    <2>1. /\ DOMAIN RecordedPages' = {u \in Urls : IsVertex(u)'}
          /\ RecordedPages' = [u \in DOMAIN RecordedPages' |-> RecordedPages'[u]]
          /\ \A u \in Urls : IsVertex(u)' => RecordedPages'[u] = vertex'[vertex_dict'[u].vid + 1].edge
      BY PagesNow DEF GraphInv, PagesMeanVertices
    <2>2. DOMAIN RecordedPages' = D \cup {url}
      BY <1>1, <1>3, <1>4, <2>1
    <2>3. RecordedPages'[url] = edges
      BY <1>1, <1>2, <1>3, <2>1
    <2>4. ASSUME NEW u \in D PROVE u # url /\ RecordedPages'[u] = RecordedPages[u]
      <3>1. u \in Urls /\ IsVertex(u) /\ u \in Known /\ u # url
        BY <1>2, <1>4 DEF IsVertex
      <3>2. vertex_dict'[u] = vertex_dict[u]
        BY <1>2, <3>1
      <3>3. RecordedPages'[u] = vertex'[vertex_dict[u].vid + 1].edge
        BY <1>3, <2>1, <3>1, <3>2
      <3> QED  BY <1>2, <1>4, <3>1, <3>3
    <2> DEFINE old == RecordedPages
               new == RecordedPages'
    <2>5. new = [u \in D \cup {url} |-> new[u]] /\ new[url] = edges /\ \A u \in D : u # url /\ new[u] = old[u]
      BY <2>1, <2>2, <2>3, <2>4
    <2> HIDE DEF old, new, D
    <2>6. new = [v \in D \cup {url} |-> IF v = url THEN edges ELSE old[v]]
      BY <2>5
    <2> QED  BY <2>6 DEF old, new
  <1>6. \A u \in Urls : Held(u)' > 0 <=> Held(u) > 0
    <2> SUFFICES ASSUME NEW u \in Urls PROVE Held(u)' > 0 <=> Held(u) > 0
      OBVIOUS
    <2>1. ~Ask /\ ~Top
      BY <1>1 DEF Ask, Top, WorkGoto
    <2>2. Held(u) \in Nat /\ Held(u)' = Held(u) + Bit(Ask /\ u = Head(rest)) - Bit(Top /\ u = Head(urlqueue).url)
      BY <1>1, HeldWork, PlacedNat DEF Working, TypeInv
    <2> QED  BY <2>1, <2>2 DEF Bit
  <1>7. Open' = Open
    BY <1>1, <1>6, OpenKept DEF Recording
  <1>8. Asked' = Asked
    BY <1>1, AskedKept DEF SeedSet, MainGoto, Ask, WorkGoto, StopInv, Control
  <1>9. wpc \notin Stopping /\ wpc' \notin Stopping /\ Cardinality(D) < VertexMax
    BY <1>1, <1>4, UrlsAssumption DEF StopInv, RoomInv, Full, Stopping
  <1>10. url \in Open /\ url \notin D
    BY <1>1, <1>2, <1>4, OpenNow DEF OpenIsHeld, Recording
  <1>11. LinksFollowed = {} /\ LinksFollowed' = Range(links)
    BY <1>1 DEF LinksFollowed, Recording
  <1>12. edges \in Site!Recordable(links)
    <2>1. CASE "list_push_back" \in AllocFails
      <3>1. edges \in Stored(links)
        BY <2>1 DEF Edges
      <3> QED  BY <2>1, <3>1, SiteOperators DEF Stored, Site!Recordable
    <2>2. CASE "list_push_back" \notin AllocFails
      BY <2>2 DEF Edges, Site!Recordable
    <2> QED  BY <2>1, <2>2
  <1>13. Site!Record(url)
    <2> HIDE DEF url, links
    <2> QED  BY <1>1, <1>5, <1>7, <1>8, <1>9, <1>10, <1>11, <1>12, SiteOperators DEF Site!Record, Site!Recorded
  <1> QED  BY <1>10, <1>13

\* The end of iter closes the page it went through.
LEMMA DoneIsClose ==
    ASSUME TypeInv, TypeInv', Control, GraphInv, [Next]_vars, Done
    PROVE  \E u \in Open : Site!Close(u)
  <1> DEFINE url == link_info.url
  <1>1. /\ wpc = "iter" /\ wpc' = "check" /\ link_info' = link_info /\ url \in Urls /\ rest = <<>>
    BY DEF Done, WorkGoto, TypeInv, TypeOK
  <1>2. IsVertex(url)
    BY <1>1 DEF GraphInv, InHand, Following
  <1>3. ~(Held(url) > 0)
    BY <1>1, <1>2, OnePlace
  <1>4. \A u \in Urls : Held(u)' > 0 <=> Held(u) > 0
    <2> SUFFICES ASSUME NEW u \in Urls PROVE Held(u)' > 0 <=> Held(u) > 0
      OBVIOUS
    <2>1. ~Ask /\ ~Top
      BY <1>1 DEF Ask, Top, WorkGoto
    <2>2. Held(u) \in Nat /\ Held(u)' = Held(u) + Bit(Ask /\ u = Head(rest)) - Bit(Top /\ u = Head(urlqueue).url)
      BY HeldWork, PlacedNat DEF Working, TypeInv
    <2> QED  BY <2>1, <2>2 DEF Bit
  <1>5. OpenIsHeld /\ OpenIsHeld'
    BY OpenNow
  <1>6. url \in Open /\ Open' = Open \ {url}
    BY <1>1, <1>3, <1>4, <1>5 DEF OpenIsHeld, Recording
  <1>7. Asked' = Asked /\ RecordedPages' = RecordedPages /\ wpc \notin Stopping /\ wpc' \notin Stopping
    <2>1. ~SeedSet /\ ~Ask /\ ~Insert
      BY <1>1 DEF SeedSet, MainGoto, Ask, Insert, WorkGoto, Control
    <2> QED  BY <1>1, <2>1, AskedKept, PagesKept DEF Stopping
  <1>8. "do_work" \in AllocFails \/ LinksFollowed \subseteq Asked
    <2>1. LinksFollowed \subseteq Known
      BY <1>1 DEF GraphInv, InHand, LinksFollowed, Following
    <2>2. Range(rest) = {}
      BY <1>1, EmptySeq DEF Range
    <2> QED  BY <2>1, <2>2 DEF GraphInv, Followed, Asked
  <1>9. LinksFollowed' = {}
    BY <1>1 DEF LinksFollowed, Recording
  <1>10. url \in DOMAIN RecordedPages
    BY <1>1, <1>2, PagesAreVertices DEF GraphInv
  <1>11. Site!Close(url)
    BY <1>6, <1>7, <1>8, <1>9, <1>10 DEF Site!Close, Site!Recorded
  <1> QED  BY <1>6, <1>11

\* A page given up is closed, and was not recorded.
LEMMA DropIsClose ==
    ASSUME TypeInv, TypeInv', Control, GraphInv, [Next]_vars, NEW t \in Threads, Pool(t) \/ Crawl(t), Drops(t)
    PROVE  \E u \in Open : Site!Close(u)
  <1> DEFINE url == job[t]
  <1>1. /\ tpc[t] = "crawl" /\ job' = job /\ url \in Urls /\ t \in Fetching
        /\ UNCHANGED <<wpc, link_info, vertex, vertex_dict, seeded>>
    BY DEF Drops, Fetching, Crawls, TypeInv, TypeOK, Goto, Pool, PoolStep, Start, Test, WaitJob, GetJob, DoExit, Finish,
           Crawl, BeginCrawl, Fetched, Dropped, Failed, CountUrl, PostUrl, Release, Signal
  <1>2. OpenIsHeld /\ OpenIsHeld'
    BY OpenNow
  <1>3. Held(url) > 0
    <2>1. FetchersOf(url) > 0
      <3> DEFINE F == {w \in Fetching : job[w] = url}
      <3>1. F \subseteq Threads /\ t \in F
        BY <1>1 DEF Fetching
      <3>2. IsFiniteSet(F)
        BY <3>1, ThreadsAssumption, FS_Subset
      <3>3. Cardinality(F) \in Nat /\ Cardinality(F) # 0
        BY <3>1, <3>2, FS_CardinalityType, FS_EmptySet
      <3>4. FetchersOf(url) = Cardinality(F)
        BY DEF FetchersOf, Count
      <3> QED  BY <3>3, <3>4
    <2>2. JobsOf(url) \in Nat /\ PagesOf(url) \in Nat /\ FetchersOf(url) \in Nat
      BY PlacesNat DEF TypeInv
    <2> QED  BY <2>1, <2>2 DEF Held
  <1>4. Held(url) = 1 /\ ~IsVertex(url) /\ ~(wpc \in Recording /\ link_info.url = url)
    BY <1>1, <1>3, OnePlace
  <1>5. \A u \in Urls : Held(u)' > 0 <=> Held(u) > 0 /\ u # url
    <2> SUFFICES ASSUME NEW u \in Urls PROVE Held(u)' > 0 <=> Held(u) > 0 /\ u # url
      OBVIOUS
    <2>1. Held(u) \in Nat /\ Held(u)' = Held(u) - Bit(Drops(t) /\ u = url)
      BY HeldThread, PlacedNat DEF TypeInv
    <2>2. Bit(Drops(t) /\ u = url) = IF u = url THEN 1 ELSE 0
      BY DEF Bit
    <2> QED  BY <1>4, <2>1, <2>2
  <1>6. url \in Open /\ Open' = Open \ {url}
    BY <1>1, <1>2, <1>3, <1>4, <1>5 DEF OpenIsHeld
  <1>7. Asked' = Asked /\ RecordedPages' = RecordedPages
    BY <1>1 DEF Asked, Known, RecordedPages
  <1>8. url \notin DOMAIN RecordedPages
    BY <1>4, PagesAreVertices DEF GraphInv
  <1>9. LinksFollowed' = LinksFollowed
    BY <1>1, LinksKept
  <1>10. Site!Close(url)
    BY <1>1, <1>6, <1>7, <1>8, <1>9 DEF Site!Close, Site!Recorded
  <1> QED  BY <1>6, <1>10

\* The end of do_work's loop stops the crawl.
LEMMA CheckIsStop ==
    ASSUME StopInv, StopInv', GraphInv, [Next]_vars, Check
    PROVE  Site!Stop \/ UNCHANGED Site!vars
  <1>1. /\ TypeInv /\ wpc = "check" /\ wpc' \in {"wait", "exit"}
        /\ UNCHANGED <<poolVars, graphVars, seeded, link_info, urlqueue, pages_lost>>
        /\ wpc' = "exit" => global_lock = 0 \/ Full
    BY DEF StopInv, Check, WorkGoto
  <1>2. Open' = Open /\ Asked' = Asked /\ RecordedPages' = RecordedPages /\ LinksFollowed' = LinksFollowed
    BY <1>1, LinksKept DEF Open, CrawlJobs, LostJobs, Fetching, Recording, Following, Asked, Known, RecordedPages
  <1>3. CASE wpc' = "wait"
    BY <1>1, <1>2, <1>3 DEF Site!vars, Stopping
  <1>4. CASE wpc' = "exit"
    <2>1. Cardinality(DOMAIN RecordedPages) = Len(vertex)
      BY <1>1, PagesAreVertices DEF GraphInv
    <2>2. global_lock = 0 => Open = {}
      <3>1. global_lock = 0 => urlqueue = <<>> /\ CrawlJobs = {} /\ Fetching = {} /\ pages_lost = <<>> /\ LostJobs = {}
        BY <1>1, LockMeansWork DEF StopInv, NothingLost
      <3>2. (urlqueue = <<>> => 1..Len(urlqueue) = {}) /\ (pages_lost = <<>> => Range(pages_lost) = {})
        BY EmptySeq DEF Range
      <3> QED  BY <1>1, <3>1, <3>2 DEF Open, Recording
    <2>3. Open = {} \/ Cardinality(DOMAIN RecordedPages) >= VertexMax
      BY <1>1, <1>4, <2>1, <2>2 DEF Full
    <2> QED  BY <1>1, <1>2, <1>4, <2>3, SiteOperators DEF Site!Stop, Site!Recorded, Stopping
  <1> QED  BY <1>1, <1>3, <1>4

\* Every other step leaves what SiteCrawl sees alone.
LEMMA OthersStutter ==
    ASSUME StopInv, TypeInv', GraphInv, [Next]_vars,
           ~SeedSet, ~Ask, ~Insert, ~Done, ~Check,
           \A t \in Threads : Pool(t) \/ Crawl(t) => ~Drops(t)
    PROVE  UNCHANGED Site!vars
  <1>1. TypeInv /\ Control
    BY DEF StopInv
  <1>2. Asked' = Asked /\ RecordedPages' = RecordedPages /\ (wpc' \in Stopping <=> wpc \in Stopping)
    BY <1>1, AskedKept, PagesKept, StoppedKept
  <1>3. Open' = Open
    <2>1. CASE Main
      <3>1. \A u \in Urls : Held(u)' > 0 <=> Held(u) > 0
        <4> SUFFICES ASSUME NEW u \in Urls PROVE Held(u)' > 0 <=> Held(u) > 0
          OBVIOUS
        <4>1. Held(u) \in Nat /\ Held(u)' = Held(u) + Bit(SeedSet /\ u = Seed)
          BY <1>1, <2>1, HeldMain, PlacedNat DEF TypeInv
        <4> QED  BY <4>1 DEF Bit
      <3>2. link_info' = link_info /\ (wpc' \in Recording <=> wpc \in Recording)
        BY <1>1, <2>1 DEF Recording, Control, MainGoto, Main, SeedSet, SeedNoMemory, SeedIncrease, SeedPost, CreateWorker, CreateFails, JoinWorker, JoinPool
      <3> QED  BY <1>1, <3>1, <3>2, OpenKept
    <2>2. CASE Top
      <3> DEFINE url == Head(urlqueue).url
      <3>1. /\ wpc = "top" /\ wpc' = "insert" /\ link_info' = Head(urlqueue) /\ urlqueue # <<>>
            /\ urlqueue \in Seq(Page) /\ ~Ask
        BY <1>1, <2>2 DEF Top, WorkGoto, Ask, TypeInv, TypeOK, Page
      <3>2. url \in Urls
        <4>1. Head(urlqueue) \in Page
          BY <3>1, HeadTailProperties
        <4> QED  BY <4>1 DEF Page
      <3>3. Held(url) > 0
        <4>1. UrlsOf(urlqueue) \in Seq(Urls) /\ UrlsOf(urlqueue) # <<>> /\ Head(UrlsOf(urlqueue)) = url
          BY <3>1, UrlsOfType, UrlsOfTail
        <4>2. 1 \in Occurs(UrlsOf(urlqueue), url)
          BY <4>1, EmptySeq DEF Occurs
        <4>3. IsFiniteSet(Occurs(UrlsOf(urlqueue), url)) /\ Count(Occurs(UrlsOf(urlqueue), url)) \in Nat
          BY <4>1, OccursFinite
        <4>4. PagesOf(url) # 0
          <5>1. Count(Occurs(UrlsOf(urlqueue), url)) # 0
            BY <4>2, <4>3, FS_EmptySet DEF Count
          <5>2. Count(Occurs(pages_lost, url)) \in Nat
            BY <1>1, OccursFinite DEF TypeInv, TypeOK
          <5> QED  BY <4>3, <5>1, <5>2 DEF PagesOf
        <4>5. JobsOf(url) \in Nat /\ PagesOf(url) \in Nat /\ FetchersOf(url) \in Nat
          BY <1>1, PlacesNat DEF TypeInv
        <4> QED  BY <4>4, <4>5 DEF Held
      <3>4. Held(url) = 1
        BY <1>1, <3>2, <3>3, OnePlace
      <3>5. \A u \in Urls : Held(u)' > 0 <=> Held(u) > 0 /\ u # url
        <4> SUFFICES ASSUME NEW u \in Urls PROVE Held(u)' > 0 <=> Held(u) > 0 /\ u # url
          OBVIOUS
        <4>1. Held(u) \in Nat
          BY <1>1, PlacedNat DEF TypeInv
        <4>2. Held(u)' = Held(u) + Bit(Ask /\ u = Head(rest)) - Bit(Top /\ u = url)
          BY <1>1, <2>2, HeldWork DEF Working
        <4>3. Held(u)' = Held(u) - IF u = url THEN 1 ELSE 0
          BY <2>2, <3>1, <4>1, <4>2 DEF Bit
        <4> QED  BY <3>4, <4>1, <4>3
      <3>6. OpenIsHeld /\ OpenIsHeld'
        BY <1>1, OpenNow
      <3> QED  BY <3>1, <3>2, <3>3, <3>5, <3>6 DEF OpenIsHeld, Recording
    <2>3. CASE Working /\ ~Top
      <3>1. \A u \in Urls : Held(u)' > 0 <=> Held(u) > 0
        <4> SUFFICES ASSUME NEW u \in Urls PROVE Held(u)' > 0 <=> Held(u) > 0
          OBVIOUS
        <4>1. Held(u) \in Nat
          BY <1>1, PlacedNat DEF TypeInv
        <4>2. Held(u)' = Held(u) + Bit(Ask /\ u = Head(rest)) - Bit(Top /\ u = Head(urlqueue).url)
          BY <1>1, <2>3, HeldWork
        <4> QED  BY <2>3, <4>1, <4>2 DEF Bit
      <3>2. link_info' = link_info /\ (wpc' \in Recording <=> wpc \in Recording)
        BY <2>3 DEF Recording, WorkGoto, Working, WaitWork, Size, Skip, AskNoMemory, AskIncrease, AskPost, SetExit, PostExit, Return
      <3> QED  BY <1>1, <3>1, <3>2, OpenKept
    <2>4. ASSUME NEW t \in Threads, Pool(t) \/ Crawl(t) PROVE Open' = Open
      <3>1. \A u \in Urls : Held(u)' > 0 <=> Held(u) > 0
        <4> SUFFICES ASSUME NEW u \in Urls PROVE Held(u)' > 0 <=> Held(u) > 0
          OBVIOUS
        <4>1. Held(u) \in Nat /\ Held(u)' = Held(u) - Bit(Drops(t) /\ u = job[t])
          BY <1>1, <2>4, HeldThread, PlacedNat DEF TypeInv
        <4> QED  BY <2>4, <4>1 DEF Bit
      <3>2. UNCHANGED <<link_info, wpc>>
        BY <2>4 DEF Pool, Crawl, BeginCrawl, Fetched, Dropped, Failed, CountUrl, PostUrl, Release, Signal
      <3> QED  BY <1>1, <3>1, <3>2, OpenKept
    <2>5. CASE Still
      BY <2>5 DEF Still, Open, CrawlJobs, LostJobs, Fetching
    <2> QED  BY <2>1, <2>2, <2>3, <2>4, <2>5, Moves
  <1>4. LinksFollowed' = LinksFollowed
    <2>1. CASE Working
      <3>1. CASE Top
        BY <3>1 DEF Top, WorkGoto, LinksFollowed, Recording
      <3>2. CASE ~Top
        <4>1. link_info' = link_info /\ (wpc' \in Following <=> wpc \in Following)
          BY <2>1, <3>2 DEF Following, WorkGoto, Working, WaitWork, Size, Skip, AskNoMemory, AskIncrease, AskPost, SetExit, PostExit, Return
        <4> QED  BY <4>1, LinksKept
      <3> QED  BY <3>1, <3>2
    <2>2. CASE ~Working
      BY <1>1, <2>2, WorkerKept, LinksKept DEF Following
    <2> QED  BY <2>1, <2>2
  <1> QED  BY <1>2, <1>3, <1>4 DEF Site!vars

\* Every step of the program is a step of SiteCrawl, or none.
LEMMA SiteStep ==
    StopInv /\ StopInv' /\ GraphInv /\ GraphInv' /\ [Next]_vars => [Site!Next]_(Site!vars)
  <1> SUFFICES ASSUME StopInv, StopInv', GraphInv, GraphInv', [Next]_vars
               PROVE  Site!Next \/ UNCHANGED Site!vars
    OBVIOUS
  <1>1. TypeInv /\ TypeInv' /\ Control
    BY DEF StopInv
  <1> USE DEF Site!Next
  <1>2. CASE SeedSet
    BY <1>1, <1>2, SeedIsRequest
  <1>3. CASE Ask
    BY <1>1, <1>3, AskIsFollow
  <1>4. CASE Insert
    BY <1>1, <1>4, InsertIsRecord
  <1>5. CASE Done
    BY <1>1, <1>5, DoneIsClose
  <1>6. CASE Check
    BY <1>6, CheckIsStop
  <1>7. CASE \E t \in Threads : (Pool(t) \/ Crawl(t)) /\ Drops(t)
    BY <1>1, <1>7, DropIsClose
  <1>8. CASE /\ ~SeedSet /\ ~Ask /\ ~Insert /\ ~Done /\ ~Check
             /\ \A t \in Threads : Pool(t) \/ Crawl(t) => ~Drops(t)
    BY <1>1, <1>8, OthersStutter
  <1> QED  BY <1>2, <1>3, <1>4, <1>5, <1>6, <1>7, <1>8

\* The crawl starts where SiteCrawl does.
LEMMA SiteInit == Init => Site!Init
  <1> SUFFICES ASSUME Init PROVE Site!Init
    OBVIOUS
  <1>1. /\ Known = {} /\ seeded = FALSE /\ vertex = <<>> /\ wpc = "off"
        /\ job_queue = <<>> /\ jobs_lost = <<>> /\ urlqueue = <<>> /\ pages_lost = <<>>
        /\ \A t \in Threads : tpc[t] = "start"
    BY DEF Init, PoolInit, WebGraphInit, Known
  <1>2. /\ 1..Len(job_queue) = {} /\ 1..Len(jobs_lost) = {} /\ 1..Len(urlqueue) = {} /\ 1..Len(vertex) = {}
        /\ Range(pages_lost) = {}
    BY <1>1, EmptySeq DEF Range
  <1>3. Asked = {} /\ wpc \notin Stopping
    BY <1>1 DEF Asked, Stopping
  <1>4. Open = {}
    BY <1>1, <1>2 DEF Open, CrawlJobs, LostJobs, Fetching, Recording
  <1>5. RecordedPages = [u \in {} |-> <<>>]
    BY <1>2 DEF RecordedPages
  <1>6. LinksFollowed = {}
    BY <1>1 DEF LinksFollowed, Recording
  <1> QED  BY <1>3, <1>4, <1>5, <1>6 DEF Site!Init

\* The crawl implements SiteCrawl.
THEOREM CrawlImplementsSite == Spec => SiteSpec
  BY SiteInit, SiteStep, StopInit, StopStep, GraphInvInit, GraphInvStep, PTL DEF Spec, SiteSpec, Site!Spec
=============================================================================
