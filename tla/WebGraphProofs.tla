--------------------------- MODULE WebGraphProofs ---------------------------
(***************************************************************************)
(* What the operations of WebGraph do, for any URLs and any links: the     *)
(* lemmas that the proofs about its two clients, the crawl (Crawler) and   *)
(* the reports (Reports), rest on.                                         *)
(***************************************************************************)
EXTENDS WebGraph, SequenceTheorems, TLAPS

Info == [vid : Int, in : BOOLEAN]
Vertex == [addr : Urls, edge : Seq(Urls)]

(* What the dictionary and the vertex array can hold.                      *)
GraphTypes ==
    /\ Known \subseteq Urls
    /\ vertex_dict \in [Known -> Info]
    /\ vertex \in Seq(Vertex)

(* One step as the body of InfoKept states it.                             *)
InfoKeptStep ==
    \A u \in Known :
        /\ u \in Known'
        /\ IsVertex(u) => vertex_dict'[u].vid = vertex_dict[u].vid
        /\ vertex_dict[u].in => vertex_dict'[u].in

-----------------------------------------------------------------------------
(* insert_edge *)

\* The edges stored lead where the links do.
LEMMA StoredLinks ==
    ASSUME NEW links \in Seq(Urls), NEW edges \in Stored(links)
    PROVE  edges \in Seq(Urls) /\ Range(edges) \subseteq Range(links)
  <1>1. PICK n \in 0..Len(links) : edges \in [1..n -> Range(links)]
    BY DEF Stored
  <1>2. n \in Nat /\ Range(links) \subseteq Urls
    BY <1>1, LenProperties, RangeOfSeq
  <1>3. edges \in Seq(Urls) /\ DOMAIN edges = 1..n
    BY <1>1, <1>2, SeqDef
  <1> QED  BY <1>1, <1>3 DEF Range

\* When nothing fails they are the links.
LEMMA StoredWhole == ASSUME NEW links \in Seq(Urls) PROVE links \in Stored(links)
  <1> DEFINE n == Len(links)
             at == [i \in 1..n |-> i]
  <1>1. n \in Nat /\ DOMAIN links = 1..n
    BY LenProperties
  <1>2. links \in [1..n -> Range(links)]
    BY <1>1, LenProperties DEF Range
  <1>3. links \in UNION {[1..k -> Range(links)] : k \in 0..n}
    BY <1>1, <1>2
  <1>4. /\ at \in [1..n -> 1..n]
        /\ \A i, j \in 1..n : i < j => at[i] < at[j]
        /\ \A i \in 1..n : links[i] = links[at[i]]
    BY <1>1
  <1> HIDE DEF at
  <1> QED  BY <1>3, <1>4 DEF Stored

\* The element of each URL after insert_edge: a new vertex gets the next id,
\* a URL seen for the first time an element that says so, and every other
\* element stays as it was.
LEMMA InsertEdgeInfos ==
    ASSUME GraphTypes, NEW url \in Urls, NEW links \in Seq(Urls),
           NEW edges \in Stored(links), InsertEdge(url, links, edges)
    PROVE  /\ Known' = Known \cup {url} \cup Range(links)
           /\ vertex_dict' \in [Known' -> Info]
           /\ \A u \in Known : u # url \/ IsVertex(url) => vertex_dict'[u] = vertex_dict[u]
           /\ ~IsVertex(url) => vertex_dict'[url] = [vid |-> Len(vertex), in |-> TRUE]
           /\ \A u \in Known' \ Known : u # url => vertex_dict'[u] = [vid |-> -1, in |-> FALSE]
  <1>1. vertex_dict \in [Known -> Info] /\ Len(vertex) \in Nat
    BY LenProperties DEF GraphTypes
  <1>2. ASSUME NEW D, NEW d \in [D -> Info]
        PROVE  InsertVertexInfos(d, links) \in [D \cup Range(links) -> Info]
    BY DEF InsertVertexInfos, Info
  <1>3. CASE IsVertex(url)
    <2>1. vertex_dict' = InsertVertexInfos(vertex_dict, links) /\ url \in Known
      BY <1>3 DEF InsertEdge, IsVertex
    <2>2. vertex_dict' \in [Known \cup Range(links) -> Info]
      BY <1>1, <1>2, <2>1
    <2>3. Known' = Known \cup Range(links)
      BY <2>2 DEF Known
    <2>4. \A u \in Known : vertex_dict'[u] = vertex_dict[u]
      BY <2>1 DEF InsertVertexInfos, Known
    <2>5. \A u \in Range(links) \ Known : vertex_dict'[u] = [vid |-> -1, in |-> FALSE]
      BY <2>1 DEF InsertVertexInfos, Known
    <2> QED  BY <1>3, <2>1, <2>2, <2>3, <2>4, <2>5
  <1>4. CASE ~IsVertex(url)
    <2> DEFINE D == Known \cup {url}
               d == InsertVertex(vertex_dict, url)
    <2>1. /\ d \in [D -> Info]
          /\ \A u \in Known \ {url} : d[u] = vertex_dict[u]
          /\ d[url] = [vid |-> Len(vertex), in |-> TRUE]
      BY <1>1 DEF InsertVertex, Known, Info
    <2>2. vertex_dict' = InsertVertexInfos(d, links)
      BY <1>4 DEF InsertEdge
    <2> HIDE DEF D, d
    <2>3. vertex_dict' \in [D \cup Range(links) -> Info]
      BY <1>2, <2>1, <2>2
    <2>4. Known' = D \cup Range(links)
      BY <2>3 DEF Known
    <2>5. \A u \in D : vertex_dict'[u] = d[u]
      BY <2>1, <2>2 DEF InsertVertexInfos
    <2>6. \A u \in Range(links) \ D : vertex_dict'[u] = [vid |-> -1, in |-> FALSE]
      BY <2>1, <2>2 DEF InsertVertexInfos
    <2> QED  BY <1>4, <2>1, <2>3, <2>4, <2>5, <2>6 DEF D
  <1> QED  BY <1>3, <1>4

\* The vertex array after insert_edge, for a page that has no vertex yet.
LEMMA InsertEdgeNew ==
    ASSUME GraphTypes, NEW url \in Urls, NEW links \in Seq(Urls),
           NEW edges \in Stored(links), InsertEdge(url, links, edges),
           ~IsVertex(url)
    PROVE  /\ vertex' \in Seq(Vertex)
           /\ Len(vertex') = Len(vertex) + 1
           /\ \A i \in 1..Len(vertex) : vertex'[i] = vertex[i]
           /\ vertex'[Len(vertex) + 1] = [addr |-> url, edge |-> edges]
  <1>1. vertex' = Append(vertex, [addr |-> url, edge |-> edges])
    BY DEF InsertEdge
  <1>2. vertex \in Seq(Vertex) /\ [addr |-> url, edge |-> edges] \in Vertex
    BY StoredLinks DEF GraphTypes, Vertex
  <1> QED  BY <1>1, <1>2, AppendProperties

\* And for a page inserted again: its vertex gets the links, the others stay.
LEMMA InsertEdgeAgain ==
    ASSUME GraphTypes, NEW url \in Urls, NEW links \in Seq(Urls),
           NEW edges \in Stored(links), InsertEdge(url, links, edges),
           IsVertex(url), vertex_dict[url].vid < Len(vertex)
    PROVE  LET i == vertex_dict[url].vid + 1
           IN  /\ vertex' \in Seq(Vertex)
               /\ i \in 1..Len(vertex) /\ Len(vertex') = Len(vertex)
               /\ \A k \in 1..Len(vertex) : k # i => vertex'[k] = vertex[k]
               /\ vertex'[i].addr = vertex[i].addr
               /\ vertex'[i].edge = vertex[i].edge \o edges
  <1> DEFINE i == vertex_dict[url].vid + 1
             new == [vertex[i] EXCEPT !.edge = @ \o edges]
  <1>1. vertex \in Seq(Vertex) /\ Len(vertex) \in Nat /\ url \in Known /\ vertex_dict[url].vid \in Int
    BY LenProperties DEF GraphTypes, IsVertex, Info
  <1>2. i \in 1..Len(vertex)
    BY <1>1 DEF IsVertex
  <1>3. vertex' = [vertex EXCEPT ![i] = new]
    BY DEF InsertEdge
  <1>4. vertex[i] \in Vertex
    BY <1>1, <1>2, ElementOfSeq
  <1>5. vertex[i].edge \o edges \in Seq(Urls)
    BY <1>4, StoredLinks, ConcatProperties DEF Vertex
  <1>6. new \in Vertex /\ new.addr = vertex[i].addr /\ new.edge = vertex[i].edge \o edges
    BY <1>4, <1>5 DEF Vertex
  <1> HIDE DEF i, new
  <1>7. /\ vertex' \in Seq(Vertex) /\ Len(vertex') = Len(vertex)
        /\ \A k \in 1..Len(vertex) : vertex'[k] = IF k = i THEN new ELSE vertex[k]
    BY <1>1, <1>2, <1>3, <1>6, ExceptSeq
  <1>8. vertex'[i] = new /\ \A k \in 1..Len(vertex) : k # i => vertex'[k] = vertex[k]
    BY <1>2, <1>7
  <1>9. vertex'[i].addr = vertex[i].addr /\ vertex'[i].edge = vertex[i].edge \o edges
    BY <1>6, <1>8
  <1> QED  BY <1>2, <1>7, <1>8, <1>9 DEF i

\* insert_edge keeps the types, also where the dictionary and the array do
\* not agree.
LEMMA InsertEdgeType ==
    ASSUME GraphTypes, NEW url \in Urls, NEW links \in Seq(Urls),
           NEW edges \in Stored(links), InsertEdge(url, links, edges)
    PROVE  GraphTypes'
  <1>1. Range(links) \subseteq Urls
    BY RangeOfSeq
  <1>2. Known' \subseteq Urls /\ vertex_dict' \in [Known' -> Info]
    BY <1>1, InsertEdgeInfos DEF GraphTypes
  <1>3. CASE ~IsVertex(url)
    BY <1>2, <1>3, InsertEdgeNew DEF GraphTypes
  <1>4. CASE IsVertex(url) /\ vertex_dict[url].vid < Len(vertex)
    BY <1>2, <1>4, InsertEdgeAgain DEF GraphTypes
  <1>5. CASE IsVertex(url) /\ ~(vertex_dict[url].vid < Len(vertex))
    <2>1. vertex \in Seq(Vertex) /\ Len(vertex) \in Nat /\ DOMAIN vertex = 1..Len(vertex)
          /\ vertex_dict[url].vid \in Int
      BY <1>5, LenProperties DEF GraphTypes, IsVertex, Info
    <2>2. vertex_dict[url].vid + 1 \notin DOMAIN vertex
      BY <1>5, <2>1
    <2> DEFINE i == vertex_dict[url].vid + 1
               new == [vertex[i] EXCEPT !.edge = @ \o edges]
    <2>3. vertex' = vertex
      <3>1. vertex' = [vertex EXCEPT ![i] = new]
        BY <1>5 DEF InsertEdge
      <3>2. vertex \in [1..Len(vertex) -> Vertex] /\ i \notin 1..Len(vertex)
        BY <2>1, <2>2, LenProperties
      <3> HIDE DEF i, new
      <3> QED  BY <3>1, <3>2
    <2> QED  BY <1>2, <2>1, <2>3 DEF GraphTypes, Vertex
  <1> QED  BY <1>3, <1>4, <1>5

\* insert_edge keeps the dictionary and the vertex array in agreement.
LEMMA InsertEdgeConsistent ==
    ASSUME GraphTypes, GraphConsistent, NEW url \in Urls, NEW links \in Seq(Urls),
           NEW edges \in Stored(links), InsertEdge(url, links, edges)
    PROVE  GraphConsistent'
  <1> DEFINE n == Len(vertex)
  <1>1. n \in Nat /\ vertex \in Seq(Vertex) /\ vertex_dict \in [Known -> Info]
    BY LenProperties DEF GraphTypes
  <1>2. /\ Known' = Known \cup {url} \cup Range(links)
        /\ \A u \in Known : u # url \/ IsVertex(url) => vertex_dict'[u] = vertex_dict[u]
        /\ ~IsVertex(url) => vertex_dict'[url] = [vid |-> n, in |-> TRUE]
        /\ \A u \in Known' \ Known : u # url => vertex_dict'[u] = [vid |-> -1, in |-> FALSE]
    BY InsertEdgeInfos
  <1>3. /\ \A u \in Known : IsVertex(u) =>
              /\ vertex_dict[u].vid < n
              /\ vertex[vertex_dict[u].vid + 1].addr = u
              /\ vertex_dict[u].in
        /\ \A i \in 1..n : /\ vertex[i].addr \in Known /\ vertex_dict[vertex[i].addr].vid = i - 1
                           /\ Range(vertex[i].edge) \subseteq Known
    BY DEF GraphConsistent
  <1>4. CASE ~IsVertex(url)
    <2>1. /\ Len(vertex') = n + 1
          /\ \A i \in 1..n : vertex'[i] = vertex[i]
          /\ vertex'[n + 1] = [addr |-> url, edge |-> edges]
      BY <1>4, InsertEdgeNew
    <2>2. \A i \in 1..n : vertex[i].addr # url
      BY <1>1, <1>3, <1>4 DEF IsVertex
    <2>3. ASSUME NEW u \in Known', IsVertex(u)'
          PROVE  /\ vertex_dict'[u].vid < n + 1
                 /\ vertex'[vertex_dict'[u].vid + 1].addr = u
                 /\ vertex_dict'[u].in
      <3>1. CASE u = url
        BY <1>1, <1>2, <1>4, <2>1, <3>1
      <3>2. CASE u # url
        <4>1. u \in Known /\ vertex_dict'[u] = vertex_dict[u]
          BY <1>2, <2>3, <3>2 DEF IsVertex
        <4>2. IsVertex(u) /\ vertex_dict[u].vid \in 0..(n - 1)
          BY <1>1, <1>3, <2>3, <4>1 DEF IsVertex, Info
        <4>3. vertex_dict[u].vid + 1 \in 1..n /\ vertex_dict[u].vid < n + 1
          BY <1>1, <4>2
        <4> QED  BY <1>3, <2>1, <4>1, <4>2, <4>3
      <3> QED  BY <3>1, <3>2
    <2>4. ASSUME NEW i \in 1..(n + 1)
          PROVE  /\ vertex'[i].addr \in Known' /\ vertex_dict'[vertex'[i].addr].vid = i - 1
                 /\ Range(vertex'[i].edge) \subseteq Known'
      <3>1. CASE i = n + 1
        BY <1>1, <1>2, <1>4, <2>1, <3>1, StoredLinks
      <3>2. CASE i \in 1..n
        BY <1>2, <1>3, <2>1, <2>2, <3>2
      <3> QED  BY <1>1, <3>1, <3>2
    <2> QED  BY <2>1, <2>3, <2>4 DEF GraphConsistent
  <1>5. CASE IsVertex(url)
    <2> DEFINE v == vertex_dict[url].vid + 1
    <2>1. url \in Known /\ vertex_dict[url].vid < n
      BY <1>3, <1>5 DEF IsVertex
    <2>2. /\ v \in 1..n /\ Len(vertex') = n
          /\ \A k \in 1..n : k # v => vertex'[k] = vertex[k]
          /\ vertex'[v].addr = vertex[v].addr
          /\ vertex'[v].edge = vertex[v].edge \o edges
      BY SMTT(30), <1>5, <2>1, InsertEdgeAgain
    <2>3. Known \subseteq Known' /\ \A u \in Known : vertex_dict'[u] = vertex_dict[u]
      BY <1>2, <1>5
    <2>4. vertex[v].edge \in Seq(Urls)
      <3>1. vertex[v] \in Vertex
        BY SMTT(30), <1>1, <2>2, ElementOfSeq
      <3> QED  BY <3>1 DEF Vertex
    <2>5. Range(vertex'[v].edge) = Range(vertex[v].edge) \cup Range(edges)
      BY SMTT(30), <2>2, <2>4, StoredLinks, RangeConcatenation
    <2>6. \A k \in 1..n : vertex'[k].addr = vertex[k].addr /\ Range(vertex'[k].edge) \subseteq Known'
      BY <1>2, <1>3, <2>2, <2>3, <2>5, StoredLinks
    <2>7. \A u \in Known' : IsVertex(u)' => u \in Known /\ IsVertex(u)
      BY <1>2, <1>5, <2>1 DEF IsVertex
    <2>8. \A u \in Known : IsVertex(u) => vertex_dict[u].vid + 1 \in 1..n
      BY <1>1, <1>3 DEF IsVertex, Info
    <2> HIDE DEF v
    <2>9. ASSUME NEW u \in Known', IsVertex(u)'
          PROVE  /\ vertex_dict'[u].vid < n
                 /\ vertex'[vertex_dict'[u].vid + 1].addr = u
                 /\ vertex_dict'[u].in
      BY <1>3, <2>3, <2>6, <2>7, <2>8, <2>9
    <2>10. ASSUME NEW i \in 1..n
           PROVE  /\ vertex'[i].addr \in Known' /\ vertex_dict'[vertex'[i].addr].vid = i - 1
                  /\ Range(vertex'[i].edge) \subseteq Known'
      BY <1>3, <2>3, <2>6, <2>10
    <2> QED  BY <2>2, <2>9, <2>10 DEF GraphConsistent
  <1> QED  BY <1>4, <1>5

\* insert_edge takes no element, id or mark back.
LEMMA InsertEdgeKeeps ==
    ASSUME GraphTypes, NEW url \in Urls, NEW links \in Seq(Urls),
           NEW edges \in Stored(links), InsertEdge(url, links, edges)
    PROVE  InfoKeptStep
  BY InsertEdgeInfos DEF InfoKeptStep

-----------------------------------------------------------------------------
(* vertex_info->in = 1 *)

\* Marking a known URL changes its mark and nothing else.
LEMMA MarkAskedInfos ==
    ASSUME GraphTypes, NEW u \in Known, MarkAsked(u)
    PROVE  /\ Known' = Known
           /\ vertex_dict' \in [Known -> Info]
           /\ vertex_dict'[u].in
           /\ \A w \in Known : /\ vertex_dict'[w].vid = vertex_dict[w].vid
                               /\ w # u => vertex_dict'[w] = vertex_dict[w]
  <1> DEFINE new == [vertex_dict[u] EXCEPT !.in = TRUE]
  <1>1. vertex_dict \in [Known -> Info] /\ vertex_dict[u] \in Info
    BY DEF GraphTypes
  <1>2. new \in Info /\ new.in /\ new.vid = vertex_dict[u].vid
    BY <1>1 DEF Info
  <1>3. vertex_dict' = [vertex_dict EXCEPT ![u] = new]
    BY DEF MarkAsked
  <1> HIDE DEF new
  <1>4. vertex_dict' \in [Known -> Info] /\ vertex_dict'[u] = new
        /\ \A w \in Known : w # u => vertex_dict'[w] = vertex_dict[w]
    BY <1>1, <1>2, <1>3
  <1>5. Known' = Known
    BY <1>4 DEF Known
  <1> QED  BY <1>2, <1>4, <1>5

\* Marking a URL keeps the dictionary and the vertex array in agreement, and
\* takes no element, id or mark back.
LEMMA MarkAskedConsistent ==
    ASSUME GraphTypes, GraphConsistent, NEW u \in Known, MarkAsked(u), vertex' = vertex
    PROVE  GraphTypes' /\ GraphConsistent' /\ InfoKeptStep
  <1>1. /\ Known' = Known
        /\ vertex_dict' \in [Known -> Info]
        /\ vertex_dict'[u].in
        /\ \A w \in Known : /\ vertex_dict'[w].vid = vertex_dict[w].vid
                            /\ w # u => vertex_dict'[w] = vertex_dict[w]
    BY MarkAskedInfos
  <1>2. GraphTypes'
    BY <1>1 DEF GraphTypes, Vertex
  <1>3. \A w \in Known : IsVertex(w)' <=> IsVertex(w)
    BY <1>1 DEF IsVertex
  <1> QED  BY <1>1, <1>2, <1>3 DEF GraphConsistent, InfoKeptStep

-----------------------------------------------------------------------------
\* The empty graph has its types and agrees with itself.
LEMMA WebGraphStart == WebGraphInit => GraphTypes /\ GraphConsistent
  <1> SUFFICES ASSUME WebGraphInit PROVE GraphTypes /\ GraphConsistent
    OBVIOUS
  <1>1. Known = {} /\ vertex = <<>> /\ vertex_dict \in [{} -> Info]
    BY DEF WebGraphInit, Known
  <1>2. vertex \in Seq(Vertex) /\ Len(vertex) = 0
    BY <1>1, EmptySeq
  <1> QED  BY <1>1, <1>2 DEF GraphTypes, GraphConsistent

\* A URL has a vertex when, and only when, it is the address of one.
LEMMA VertexAddrs ==
    ASSUME GraphTypes, GraphConsistent
    PROVE  \A u : IsVertex(u) <=> \E i \in 1..Len(vertex) : vertex[i].addr = u
  <1>1. Len(vertex) \in Nat /\ vertex_dict \in [Known -> Info]
    BY LenProperties DEF GraphTypes
  <1> SUFFICES ASSUME NEW u PROVE IsVertex(u) <=> \E i \in 1..Len(vertex) : vertex[i].addr = u
    OBVIOUS
  <1>2. ASSUME IsVertex(u) PROVE \E i \in 1..Len(vertex) : vertex[i].addr = u
    <2>1. u \in Known /\ vertex_dict[u].vid \in Int /\ vertex_dict[u].vid >= 0
      BY <1>1, <1>2 DEF IsVertex, Info
    <2>2. vertex_dict[u].vid < Len(vertex) /\ vertex[vertex_dict[u].vid + 1].addr = u
      BY <1>2, <2>1 DEF GraphConsistent
    <2>3. vertex_dict[u].vid + 1 \in 1..Len(vertex)
      BY <1>1, <2>1, <2>2
    <2> QED  BY <2>2, <2>3
  <1>3. ASSUME NEW i \in 1..Len(vertex), vertex[i].addr = u PROVE IsVertex(u)
    <2>1. u \in Known /\ vertex_dict[u].vid = i - 1
      BY <1>3 DEF GraphConsistent
    <2> QED  BY <1>1, <2>1 DEF IsVertex
  <1> QED  BY <1>2, <1>3
=============================================================================
