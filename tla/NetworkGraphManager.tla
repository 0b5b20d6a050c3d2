------------------------- MODULE NetworkGraphManager -------------------------
(***************************************************************************)
(* graph/network/NetworkGraphManager over a Boost adjacency list with      *)
(* vector vertices and parallel edges.  A graph is a record: vertices is   *)
(* the sequence of the vertices' addresses (a descriptor is a position in  *)
(* it), edges the edges in insertion order, ip_to_vertex the index from    *)
(* addresses to descriptors.                                               *)
(***************************************************************************)
EXTENDS Integers, Sequences

EmptyGraph ==
  [vertices |-> << >>, edges |-> << >>, ip_to_vertex |-> [ip \in {} |-> 0]]

get_vertex_count(g) == Len(g.vertices)

\* try_emplace(ip, BoostGraphManager::add_vertex(...)): the new vertex is an
\* argument, so it exists whether or not the address is already in the index.
EmplaceNewVertex(g, ip) ==
  LET v     == Len(g.vertices) + 1
      known == DOMAIN g.ip_to_vertex
  IN  [vertices     |-> Append(g.vertices, ip),
       edges        |-> g.edges,
       ip_to_vertex |-> IF ip \in known THEN g.ip_to_vertex
                        ELSE [k \in known \cup {ip} |->
                                IF k = ip THEN v ELSE g.ip_to_vertex[k]]]

BoostEdge(src, dst, properties) == [src |-> src, dst |-> dst, properties |-> properties]

\* Seeded fault: the adjacency list refuses a parallel edge.
FaultyAddEdge(g, src, dst, properties) ==
  IF \E i \in DOMAIN g.edges : g.edges[i].src = src /\ g.edges[i].dst = dst THEN g
  ELSE [g EXCEPT !.edges = Append(@, BoostEdge(src, dst, properties))]

BoostAddEdge(g, src, dst, properties) ==
  [vertices     |-> g.vertices,
   edges        |-> Append(g.edges, BoostEdge(src, dst, properties)),
   ip_to_vertex |-> g.ip_to_vertex]

\* Seeded fault: the destination is not looked up before it is added.
FaultyAddFlow(g, src_ip, dst_ip, properties) ==
  LET withSrc == IF src_ip \in DOMAIN g.ip_to_vertex THEN g ELSE EmplaceNewVertex(g, src_ip)
      withDst == EmplaceNewVertex(withSrc, dst_ip)
  IN  BoostAddEdge(withDst, withDst.ip_to_vertex[src_ip],
                   withDst.ip_to_vertex[dst_ip], properties)

\* Both lookups come before both insertions.
add_edge_and_vertex_if_not_exists(g, src_ip, dst_ip, properties) ==
  LET Found(ip) == ip \in DOMAIN g.ip_to_vertex
      withSrc == IF Found(src_ip) THEN g ELSE EmplaceNewVertex(g, src_ip)
      withDst == IF Found(dst_ip) THEN withSrc ELSE EmplaceNewVertex(withSrc, dst_ip)
  IN  BoostAddEdge(withDst, withDst.ip_to_vertex[src_ip],
                   withDst.ip_to_vertex[dst_ip], properties)

=============================================================================
