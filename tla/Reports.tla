------------------------------ MODULE Reports -------------------------------
(***************************************************************************)
(* The web graph used as a library (webgraph_unittest.c) and reported on   *)
(* as at the end of the program: pages are inserted in any order, the same *)
(* one twice if the caller likes; then do_work prints the graph and main   *)
(* computes the degrees and the ranks and writes its four files.           *)
(*                                                                         *)
(* A rank is a whole number of Scale-ths, rounded down where the code      *)
(* computes with doubles.                                                  *)
(***************************************************************************)
EXTENDS WebGraph, FiniteSets, SequencesExt

CONSTANTS
    Pages,          \* the lists of links pages may have: no link twice (filter)
    MaxInserts,     \* bound: calls of insert_edge
    Scale,          \* what a rank of 1.0 is
    Rate,           \* PAGE_RANK_PRATE, in Scale-ths
    Top             \* IND_TOP and PR_TOP

(* A page comes from filter, which keeps no link twice. *)
ASSUME PagesAssumption == \A links \in Pages : links \in Seq(Urls) /\ IsInjective(links)

Damping == 15       \* DAMPING_FACTOR, in hundredths

(* The Scale-ths are so fine that no part of a rank is rounded to nothing. *)
ASSUME ScaleAssumption ==
    /\ Scale \in Nat /\ MaxInserts \in Nat /\ Top \in Nat
    /\ Damping * Scale >= (100 + Damping) * MaxInserts

VARIABLES
    phase,          \* the report to come
    inserted,       \* the URLs of the calls of insert_edge
    ind, outd,      \* vertex -> its indegree, its outdegree
    pr, pr_vector,  \* vertex -> its rank as computed, and in the last round
    files           \* [the names of the files written -> their contents]

degrees == <<ind, outd>>
ranks == <<pr, pr_vector>>
vars == <<graphVars, phase, inserted, degrees, ranks, files>>

Init ==
    /\ WebGraphInit
    /\ phase = "build" /\ inserted = <<>>
    /\ ind = <<>> /\ outd = <<>> /\ pr = <<>> /\ pr_vector = <<>>
    /\ files = [f \in {} |-> <<>>]

\* insert_edge, with memory for some of the edges or all.
Insert(url, links) ==
    /\ phase = "build"
    /\ Len(inserted) < MaxInserts
    /\ \E edges \in Stored(links) : InsertEdge(url, links, edges)
    /\ inserted' = Append(inserted, url)
    /\ UNCHANGED <<phase, degrees, ranks, files>>

Mark(u) ==
    /\ phase = "build"
    /\ MarkAsked(u)
    /\ UNCHANGED <<vertex, phase, inserted, degrees, ranks, files>>

-----------------------------------------------------------------------------
Vertices == DOMAIN vertex

Vid(u) == vertex_dict[u].vid

Edges == UNION {{<<i, k>> : k \in DOMAIN vertex[i].edge} : i \in Vertices}

Target(e) == Vid(vertex[e[1]].edge[e[2]])

(* The edges that count: those that lead to a vertex. *)
Counted == {e \in Edges : Target(e) # -1}

Write(file, contents) ==
    /\ files' = [f \in DOMAIN files \cup {file} |-> IF f = file THEN contents ELSE files[f]]
    /\ UNCHANGED <<graphVars, inserted, degrees, ranks>>

(* printWebg: webgraph.dat, and link.dat with every element of the        *)
(* dictionary.  By then, so that no two states differ in marks only, all   *)
(* URLs have been asked for; no report looks at the marks.                 *)
PrintWebg ==
    /\ phase = "build" /\ phase' = "degree"
    /\ \A u \in Known : vertex_dict[u].in
    /\ files' = [webgraph |->
                    [i \in Vertices |->
                        [vid |-> i - 1, url |-> vertex[i].addr,
                         edge |-> [k \in DOMAIN vertex[i].edge |->
                                     <<Target(<<i, k>>), vertex[i].edge[k]>>]]],
                 link |-> Known]
    /\ UNCHANGED <<graphVars, inserted, degrees, ranks>>

\* Faulty form: a link to a URL without a vertex counts for the page it is on.
CalcDegreeOfLinks ==
    /\ ind' = [j \in Vertices |-> Cardinality({e \in Counted : Target(e) + 1 = j})]
    /\ outd' = [i \in Vertices |-> Cardinality({e \in Edges : e[1] = i})]

CalcDegree ==
    /\ ind' = [j \in Vertices |-> Cardinality({e \in Counted : Target(e) + 1 = j})]
    /\ outd' = [i \in Vertices |-> Cardinality({e \in Counted : e[1] = i})]

-----------------------------------------------------------------------------
(* calc_pagerank *)

Total(f) == SumFunction(f)

BeginRanks ==
    /\ phase = "degree" /\ phase' = "rank"
    /\ CalcDegree
    /\ pr' = [i \in Vertices |-> 0] /\ pr_vector' = [i \in Vertices |-> Scale]
    /\ UNCHANGED <<graphVars, inserted, files>>

(* What each link gives the vertex it leads to. *)
Given == [e \in Counted |-> pr_vector[e[1]] \div outd[e[1]]]

(* The ranks before they are made shares of their sum: what the links to a *)
(* vertex give it, damped.                                                 *)
Damped ==
    LET given == Given
        ssum == Total(pr_vector)
    IN  [j \in Vertices |->
            LET got == pr[j] + SumFunctionOnSet(given, {e \in DOMAIN given : Target(e) + 1 = j})
            IN  ((got * (100 - Damping)) \div 100) + ((Damping * ssum) \div (100 * Len(vertex)))]

NewRanks ==
    LET damped == Damped
        sum == Total(damped)
    IN  [j \in Vertices |-> (damped[j] * Scale) \div sum]

(* flag: how many ranks have not come to rest. *)
Restless(new) ==
    {j \in Vertices : new[j] - pr_vector[j] > Rate \/ pr_vector[j] - new[j] > Rate}

\* Faulty form: only as many ranks are reset as are not at rest.
ResetFew(new) ==
    [j \in Vertices |-> IF j <= Cardinality(Restless(new)) THEN 0 ELSE new[j]]

(* The ranks start from 0 in the next round, if there is one. *)
Reset(new) == IF Restless(new) = {} THEN new ELSE [j \in Vertices |-> 0]

\* Faulty form: each round is compared with the first ranks.
RoundFromOne ==
    /\ phase = "rank" /\ vertex # <<>>
    /\ LET new == NewRanks
       IN  /\ pr' = Reset(new)
           /\ phase' = IF Restless(new) = {} THEN "cdf" ELSE "rank"
    /\ UNCHANGED <<graphVars, inserted, degrees, pr_vector, files>>

Round ==
    /\ phase = "rank" /\ vertex # <<>>
    /\ LET new == NewRanks
       IN  /\ pr' = Reset(new) /\ pr_vector' = new
           /\ phase' = IF Restless(new) = {} THEN "cdf" ELSE "rank"
    /\ UNCHANGED <<graphVars, inserted, degrees, files>>

NoRounds ==
    /\ phase = "rank" /\ vertex = <<>> /\ phase' = "cdf"
    /\ UNCHANGED <<graphVars, inserted, degrees, ranks, files>>

-----------------------------------------------------------------------------
(* the files of main *)

(* ind_vector[i] when the vertices of less than i have been added to it.   *)
(* Of ind_vector[vertex_size] only the first byte is in the array and set  *)
(* to 0: rest is what the others may hold.                                 *)
IndVector(i, rest) ==
    Cardinality({j \in Vertices : ind[j] <= i}) + IF i = Len(vertex) THEN rest ELSE 0

\* The line with every vertex in it is the last.
IsLast(i, rest) ==
    /\ i = Len(vertex) \/ IndVector(i, rest) = Len(vertex)
    /\ \A h \in 1..(i - 1) : IndVector(h, rest) # Len(vertex)

(* gen_ind_cdf.  An indegree above vertex_size would count somewhere past  *)
(* the array; the model goes no farther.                                   *)
GenIndCdf ==
    /\ phase = "cdf" /\ phase' = "sitemap"
    /\ \A j \in Vertices : ind[j] <= Len(vertex)
    /\ \E rest \in {0, 256}, last \in 0..Len(vertex) :
          /\ last = 0 <=> vertex = <<>>
          /\ IsLast(last, rest)
          /\ Write("indcdf", [i \in 1..last |-> IndVector(i, rest)])

GenGraphviz ==
    /\ phase = "sitemap" /\ phase' = "check"
    /\ Write("sitemap",
             FlattenSeq([i \in Vertices |->
                [k \in DOMAIN vertex[i].edge |-> <<i - 1, Target(<<i, k>>)>>]]))

(* gen_ind_pagerank, for a file with all the URLs: " - - " is <<>>.        *)
GenIndPagerank ==
    /\ phase = "check" /\ phase' = "top"
    /\ Write("checkresult",
             [u \in Urls |-> IF IsVertex(u) THEN <<ind[Vid(u) + 1], pr[Vid(u) + 1]>> ELSE <<>>])

(* qsort of the C library: a merge sort that takes from the left unless    *)
(* the comparison is above 0.                                              *)
Merge(cmp(_, _), left, right) ==
    LET from[p \in (1..(Len(left) + 1)) \X (1..(Len(right) + 1))] ==
            LET l == p[1]
                r == p[2]
            IN  IF l > Len(left) \/ r > Len(right)
                THEN SubSeq(left, l, Len(left)) \o SubSeq(right, r, Len(right))
                ELSE IF cmp(left[l], right[r]) <= 0 THEN <<left[l]>> \o from[<<l + 1, r>>]
                ELSE <<right[r]>> \o from[<<l, r + 1>>]
    IN  from[<<1, 1>>]

qsort(s, cmp(_, _)) ==
    LET sorted[p \in Nat \X (0..Len(s))] ==
            LET i == p[1]
                n == p[2]
                half == n \div 2
            IN  IF n <= 1 THEN SubSeq(s, i, i + n - 1)
                ELSE Merge(cmp, sorted[<<i, half>>], sorted[<<i + half, n - half>>])
    IN  sorted[<<1, Len(s)>>]

_ind_cmp(a, b) == IF ind[a] < ind[b] THEN 1 ELSE 0

\* Faulty form: the comparison the wrong way round.
_pr_cmp_ascending(a, b) == IF pr[a] > pr[b] THEN 1 ELSE 0

_pr_cmp(a, b) == IF pr[a] < pr[b] THEN 1 ELSE 0

GenTop ==
    /\ phase = "top" /\ phase' = "end"
    /\ LET byInd == qsort([i \in Vertices |-> i], _ind_cmp)
           byPr == qsort(byInd, _pr_cmp)
           First(s) == SubSeq(s, 1, IF Top < Len(s) THEN Top ELSE Len(s))
       IN  Write("top10", [byInd |-> First(byInd), byPr |-> First(byPr)])

Report == BeginRanks \/ Round \/ NoRounds \/ GenIndCdf \/ GenGraphviz \/ GenIndPagerank \/ GenTop

Next ==
    \/ \E url \in Urls, links \in Pages : Insert(url, links)
    \/ \E u \in Known : Mark(u)
    \/ PrintWebg
    \/ Report

(* calc_pagerank goes on. *)
Spec == Init /\ [][Next]_vars /\ WF_vars(Round \/ NoRounds)

-----------------------------------------------------------------------------
(* Properties. *)

Reported == phase = "end"

(* No page has been inserted twice, which the crawl sees to (CrawledOnce). *)
Once == Cardinality(Range(inserted)) = Len(inserted)

\* The lines of sitemap.dot that lead to, and that leave, the vertex of an id.
LinesTo(vid) == Cardinality({k \in DOMAIN files.sitemap : files.sitemap[k][2] = vid})
LinesFrom(vid) == Cardinality({k \in DOMAIN files.sitemap : files.sitemap[k][1] = vid})
LinesBetween(v, w) == Cardinality({k \in DOMAIN files.sitemap : files.sitemap[k] = <<v, w>>})

(* gen_ind_cdf counts within its array, its last index included. *)
IndegreesFit == Once => \A v \in DOMAIN ind : ind[v] <= Len(vertex)

\* webgraph.c, the reports: each pass goes over the graph by itself, and what
\* the files say agrees.  Ids and URLs in webgraph.dat belong together, also
\* where a link's page came later.  The lines of sitemap.dot that reach a
\* vertex are its indegree, in checkresult.dat and in indcdf.dat, and those
\* that leave it its outdegree and those to -1.  The distribution ends at all
\* vertices, unless one has links from all; and while no page is inserted
\* twice, no indegree is beyond the last index.
FilesAgree ==
    /\ IndegreesFit
    /\ Reported =>
         LET line == files.webgraph
             All == Len(vertex)
         IN
         /\ \A i \in DOMAIN line : \A k \in DOMAIN line[i].edge :
               LET vid == line[i].edge[k][1]
                   url == line[i].edge[k][2]
               IN  /\ url \in files.link
                   /\ \A j \in DOMAIN line : line[j].vid = vid <=> line[j].url = url
         /\ \A v \in Vertices :
               /\ ind[v] = LinesTo(v - 1)
               /\ LinesFrom(v - 1) = outd[v] + LinesBetween(v - 1, -1)
               /\ LinesFrom(v - 1) = Len(line[v].edge)
         /\ \A i \in DOMAIN files.indcdf : i < All =>
               files.indcdf[i] = Cardinality({v \in Vertices : LinesTo(v - 1) <= i})
         /\ (\E i \in DOMAIN files.indcdf : i < All /\ files.indcdf[i] = All)
               <=> All > 1 /\ \A v \in Vertices : LinesTo(v - 1) < All
         /\ \A u \in Urls :
               IF files.checkresult[u] = <<>> THEN \A j \in Vertices : line[j].url # u
               ELSE \E j \in Vertices : /\ line[j].url = u
                                        /\ files.checkresult[u][1] = LinesTo(j - 1)

\* webgraph.c, calc_pagerank: the ranks that are reported add up to 1.0 (but
\* for the rounding), and a page that every page links to as often as to
\* another, or more often, does not rank below it.
RankMonotone ==
    Reported /\ vertex # <<>> =>
        /\ Total(pr) \in (Scale - Len(vertex))..Scale
        /\ \A v, w \in Vertices :
              (\A x \in Vertices : LinesBetween(x - 1, v - 1) <= LinesBetween(x - 1, w - 1))
                => pr[v] <= pr[w]

\* webgraph.c, gen_top: each list is of different vertices, the best first, and
\* no vertex left out is better than one listed, though the comparisons answer
\* 1 and 0 only, where qsort expects one below 0 too.
TopRanked ==
    Reported =>
        \A by \in {<<files.top10.byInd, ind>>, <<files.top10.byPr, pr>>} :
            LET list == by[1]
                key == by[2]
            IN  /\ IsInjective(list) /\ Range(list) \subseteq Vertices
                /\ \A i, k \in DOMAIN list : i < k => key[list[i]] >= key[list[k]]
                /\ \A v \in Vertices \ Range(list) :
                      Len(list) = Top /\ \A k \in DOMAIN list : key[v] <= key[list[k]]

\* webgraph.c, calc_pagerank: the ranks of any graph come to rest, pages without
\* links and links that lead nowhere included, and main goes on.
RankEnds == phase = "rank" ~> phase = "cdf"
=============================================================================
