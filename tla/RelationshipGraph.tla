------------------------- MODULE RelationshipGraph -------------------------
(***************************************************************************)
(* Neo4jRelationshipRepository.related: the paths its query returns.  A    *)
(* graph is a set of nodes, each its own properties, and a set of          *)
(* relationships, each an id and the nodes it joins; the query ignores     *)
(* directions.  Who writes the graph is not in the repository.             *)
(***************************************************************************)
EXTENDS Naturals, SequencesExt

MAX_TRAVERSAL_DEPTH == 3

\* MATCH (e:Entity {tenant_id: ...}) WHERE e.entity_id IN entity_ids.
Starts(graph, tenant, entity_ids) ==
    {n \in graph.nodes :
        n.label = "Entity" /\ n.tenant_id = tenant /\ n.entity_id \in entity_ids}

\* -[*1..3]-: a match uses a relationship once, and may come back to a node.
Trails(graph, from) ==
    LET step(t) == {p \in (graph.relationships \ t.used) \X graph.nodes :
                        p[1].ends = {Last(t.nodes), p[2]}}
        ofLength[k \in 0..MAX_TRAVERSAL_DEPTH] ==
            IF k = 0 THEN {[nodes |-> <<n>>, used |-> {}] : n \in from}
            ELSE UNION {{[nodes |-> Append(t.nodes, p[2]), used |-> t.used \cup {p[1]}] :
                            p \in step(t)} : t \in ofLength[k-1]}
    IN  UNION {ofLength[k] : k \in 1..MAX_TRAVERSAL_DEPTH}

\* A faulty WithinTenant: only the node a path leads to is looked at.
WithinTenantAtEnd(path, tenant) == Last(path).tenant_id = tenant

WithinTenant(path, tenant) == \A n \in ToSet(path) : n.tenant_id = tenant

\* ORDER BY length(p), coalesce(n.entity_id, ""): 0 where a node has none.
Nearer(p, q) ==
    \/ Len(p) < Len(q)
    \/ Len(p) = Len(q) /\ Last(p).entity_id < Last(q).entity_id

\* A faulty Cutoff: LIMIT without the order.
CutoffUnordered(paths, limit) == kSubset(Min({limit, Cardinality(paths)}), paths)

\* The paths LIMIT may leave, as a set.
Cutoff(paths, limit) ==
    {kept \in kSubset(Min({limit, Cardinality(paths)}), paths) :
        \A p \in kept, q \in paths \ kept : ~Nearer(q, p)}

\* DISTINCT compares the properties along the paths, so two relationships
\* between the same nodes give one row.
Related(graph, tenant, entity_ids, limit) ==
    LET trails == Trails(graph, Starts(graph, tenant, entity_ids))
    IN  Cutoff({p \in {t.nodes : t \in trails} : WithinTenant(p, tenant)}, limit)
=============================================================================
