----------------------------- MODULE RouterMeta -----------------------------
(* rest: the router group that keeps metadata by path and method.  A path is *)
(* the sequence of its segments; groups nest and share one mapping.          *)
EXTENDS Sequences, Naturals

CONSTANTS Segments, Metas, MaxGroups, MaxRoutes   \* bounds: groups and routes

VARIABLE router   \* the groups, the mapping, and for the properties what was registered

Methods == {"GET", "POST"}
NoMeta  == {<<>>}
Meta    == NoMeta \cup {<<x>> : x \in Metas}   \* nil, or one value

NewGinRouterGroup == [base |-> <<>>, metadata |-> <<>>, parent |-> 0, own |-> <<>>]

RouterInit == router = [groups |-> <<NewGinRouterGroup>>, byPath |-> <<>>, routes |-> <<>>, panicked |-> FALSE]

\* GetMetaByFullPath: nothing for a path or method without an entry.
GetMetaByFullPath(path, method) ==
  IF <<path, method>> \in DOMAIN router.byPath THEN router.byPath[<<path, method>>] ELSE <<>>

\* path.Join(BasePath, relativePath); an entry that exists already has its group's metadata.
addMeta(g, path, method, meta) ==
  LET key   == <<router.groups[g].base \o path, method>>
      first == IF key \in DOMAIN router.byPath THEN router.byPath[key] ELSE router.groups[g].metadata
  IN  [k \in {key} \cup DOMAIN router.byPath |-> IF k = key THEN first \o meta ELSE router.byPath[k]]

\* HandleWithMeta, and Handle and the methods named for GET, POST, ... with no metadata of
\* their own; gin panics if the route exists.
HandleWithMeta(g, method, path, meta) ==
  /\ ~router.panicked /\ g \in DOMAIN router.groups /\ Len(router.routes) < MaxRoutes
  /\ LET full   == router.groups[g].base \o path
         exists == \E i \in DOMAIN router.routes : router.routes[i].path = full /\ router.routes[i].method = method
     IN  router' = [router EXCEPT
           !.byPath = addMeta(g, path, method, meta), !.panicked = exists,
           !.routes = IF exists THEN @ ELSE Append(@, [path |-> full, method |-> method, group |-> g, own |-> meta])]

\* Mutant: a group forgets the metadata of its parent.
GroupWithMeta_Own(g, path, meta) ==
  /\ ~router.panicked /\ g \in DOMAIN router.groups /\ Len(router.groups) < MaxGroups
  /\ router' = [router EXCEPT
       !.groups = Append(@, [base |-> router.groups[g].base \o path, metadata |-> meta, parent |-> g, own |-> meta])]

GroupWithMeta(g, path, meta) ==
  /\ ~router.panicked /\ g \in DOMAIN router.groups /\ Len(router.groups) < MaxGroups
  /\ LET parent == router.groups[g]
     IN  router' = [router EXCEPT
           !.groups = Append(@, [base |-> parent.base \o path, metadata |-> parent.metadata \o meta,
                                 parent |-> g, own |-> meta])]

RouterNext ==
  \E g \in 1 .. MaxGroups, path \in {<<>>} \cup {<<s>> : s \in Segments}, meta \in Meta :
    \/ \E method \in Methods : HandleWithMeta(g, method, path, meta)
    \/ GroupWithMeta(g, path, meta)

RouterSpec == RouterInit /\ [][RouterNext]_router

-----------------------------------------------------------------------------
\* The metadata given to a group and to those around it, outermost first.
Inherited[g \in 0 .. Len(router.groups)] ==
  IF g = 0 THEN <<>> ELSE Inherited[router.groups[g].parent] \o router.groups[g].own

\* Metadata follows the rules of the chain of handlers: a request to a route sees what the
\* groups around it were given, outermost first, then its own, whatever is registered
\* before or after it and by whichever group (addMeta and GroupWithMeta).
MetaFollowsGroups ==
  ~router.panicked => \A i \in DOMAIN router.routes :
    LET r == router.routes[i]
    IN  GetMetaByFullPath(r.path, r.method) = Inherited[r.group] \o r.own
=============================================================================
