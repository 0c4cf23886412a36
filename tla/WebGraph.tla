------------------------------ MODULE WebGraph ------------------------------
(***************************************************************************)
(* The web graph of webgraph.c as the crawl builds it: a dictionary from a *)
(* URL to its vertex_info (vid, in) and the array of the vertices, each    *)
(* with a pointer to its vertex_info and a list of pointers to those of    *)
(* the URLs it links to.  A pointer to an element of the dictionary is     *)
(* modelled by the URL it is the element of: the dictionary is keyed by    *)
(* URL and an element never moves (Dict models the chains).                *)
(*                                                                         *)
(* The arrays count from 0: vertex[vid + 1] is the C expression            *)
(* vertex[vid], and Len(vertex) is vertex_size.                            *)
(***************************************************************************)
EXTENDS Integers, Sequences, Functions

CONSTANT Urls

VARIABLES
    vertex_dict,    \* [the URLs known -> [vid, in]]
    vertex          \* the vertices in use, in the order of their creation

graphVars == <<vertex_dict, vertex>>

Known == DOMAIN vertex_dict

WebGraphInit ==
    /\ vertex_dict = [u \in {} |-> [vid |-> -1, in |-> FALSE]]
    /\ vertex = <<>>

-----------------------------------------------------------------------------
(* find_vertex returns a vertex: the URL is known and has an id. *)
IsVertex(u) == u \in Known /\ vertex_dict[u].vid >= 0

(* The dictionary once insert_vertex has made url the next vertex. *)
InsertVertex(dict, url) ==
    [u \in DOMAIN dict \cup {url} |->
        IF u = url THEN [vid |-> Len(vertex), in |-> TRUE] ELSE dict[u]]

\* Faulty form: the element of a known URL is replaced.
InsertVertexInfosAnew(dict, links) ==
    [u \in DOMAIN dict \cup Range(links) |->
        IF u \in Range(links) THEN [vid |-> -1, in |-> FALSE] ELSE dict[u]]

(* The dictionary once insert_vertex_info has been called for every link:  *)
(* a URL already known keeps its element.                                  *)
InsertVertexInfos(dict, links) ==
    [u \in DOMAIN dict \cup Range(links) |->
        IF u \in DOMAIN dict THEN dict[u] ELSE [vid |-> -1, in |-> FALSE]]

(* What list_push_back leaves of the edges to the links: it drops the one  *)
(* it finds no memory for, so any of them may be missing.                  *)
Stored(links) ==
    {edges \in UNION {[1..n -> Range(links)] : n \in 0..Len(links)} :
        \E at \in [1..Len(edges) -> 1..Len(links)] :
            /\ \A i, j \in 1..Len(edges) : i < j => at[i] < at[j]
            /\ \A i \in 1..Len(edges) : edges[i] = links[at[i]]}

\* Faulty form: find_vertex is not asked, and every page gets a vertex.
InsertEdgeAnew(url, links, edges) ==
    /\ vertex_dict' = InsertVertexInfos(InsertVertex(vertex_dict, url), links)
    /\ vertex' = Append(vertex, [addr |-> url, edge |-> edges])

(* insert_edge: the page gets a vertex if it has none, each URL it links   *)
(* to is made known, and edges are those of them the vertex's list took.   *)
InsertEdge(url, links, edges) ==
    \/ /\ ~IsVertex(url)
       /\ vertex_dict' = InsertVertexInfos(InsertVertex(vertex_dict, url), links)
       /\ vertex' = Append(vertex, [addr |-> url, edge |-> edges])
    \/ /\ IsVertex(url)
       /\ vertex_dict' = InsertVertexInfos(vertex_dict, links)
       /\ vertex' = [vertex EXCEPT ![vertex_dict[url].vid + 1].edge = @ \o edges]

(* vertex_info->in = 1, in do_work. *)
MarkAsked(u) == vertex_dict' = [vertex_dict EXCEPT ![u].in = TRUE]

-----------------------------------------------------------------------------
(* Properties of the graph, for whoever builds it. *)

\* The dictionary and the vertex array agree: an id names the vertex that
\* points back, a vertex was asked for, and an edge leads to a known URL.
GraphConsistent ==
    /\ \A u \in Known : IsVertex(u) =>
          /\ vertex_dict[u].vid < Len(vertex)
          /\ vertex[vertex_dict[u].vid + 1].addr = u
          /\ vertex_dict[u].in
    /\ \A i \in 1..Len(vertex) :
          /\ vertex[i].addr \in Known /\ vertex_dict[vertex[i].addr].vid = i - 1
          /\ Range(vertex[i].edge) \subseteq Known

\* A vertex keeps its id and a URL asked for stays so: vertex_info elements
\* are shared by pointer with the edge lists and never start again.
InfoKept ==
    [][\A u \in Known :
          /\ u \in Known'
          /\ IsVertex(u) => vertex_dict'[u].vid = vertex_dict[u].vid
          /\ vertex_dict[u].in => vertex_dict'[u].in]_graphVars
=============================================================================
