----------------------------- MODULE CodeGraph -----------------------------
(***************************************************************************)
(* The symbol graph of a repository (graph.py), the export of another tool *)
(* it can be read from (graphify_adapter.py) and the queries the agent's   *)
(* tools make of it.                                                       *)
(*                                                                         *)
(* A content of a file is a name, and Ast says what Python finds in it:     *)
(*   parses    whether it is Python at all                                 *)
(*   defs      its classes and functions, each with the classes around it  *)
(*   calls     its calls in order: the qualified name of the innermost     *)
(*             function around the call (<<>> at module level), the name   *)
(*             called, and whether it is called on `self`                  *)
(*   imports   the modules it imports, each the sequence of its parts      *)
(*   text      its lines                                                   *)
(* A qualified name is the sequence of its parts, so a bare name is a      *)
(* sequence of one, and the id of a node is <<file>> \o qualname.          *)
(***************************************************************************)
EXTENDS Naturals, Sequences, FiniteSets, SequencesExt

CONSTANTS
    Files,      \* the paths of the Python files of the repository
    Module,     \* a path -> the parts of the module it is
    Ast         \* a content -> what is in it

Qualname(d) == d.outer \o <<d.name>>

(* A caller is a function the visitor has entered; ids hold "::", names do not. *)
ASSUME AstAssumption ==
    \A content \in DOMAIN Ast :
        /\ \A d \in Ast[content].defs :
              /\ d.outer \in Seq(STRING) /\ d.name \in STRING
              /\ Qualname(d)[1] \notin Files
        /\ Ast[content].calls \in Seq([caller : Seq(STRING), name : STRING, self : BOOLEAN])
        /\ \A i \in DOMAIN Ast[content].calls :
              Ast[content].calls[i].caller # <<>> =>
                \E d \in Ast[content].defs : Ast[content].calls[i].caller = Qualname(d)
        /\ Ast[content].text \in Seq([code : STRING, names : SUBSET STRING])

_AMBIGUOUS_FANOUT_CAP == 3

Provenance == {"extracted", "inferred", "ambiguous"}

RepoGraph(sha, nodes, edges, imports) ==
    [sha |-> sha, nodes |-> nodes, edges |-> edges, imports |-> imports]

Ids(g) == {n.id : n \in g.nodes}

NodeOf(g, id) == CHOOSE n \in g.nodes : n.id = id

(* A node by its id, or else every node of that bare or qualified name.     *)
resolve(g, symbol) ==
    IF symbol \in Ids(g)
    THEN {symbol}
    ELSE {n.id : n \in {m \in g.nodes : symbol \in {<<m.name>>, m.qualname}}}

callers_of(g, symbol) ==
    LET targets == resolve(g, symbol)
    IN  {<<e.src, e.provenance>> : e \in {d \in g.edges : d.dst \in targets /\ d.src \in Ids(g)}}

callees_of(g, symbol) ==
    LET srcs == resolve(g, symbol)
    IN  {<<e.dst, e.provenance>> : e \in {d \in g.edges : d.src \in srcs /\ d.dst \in Ids(g)}}

Usable(g, include_ambiguous) ==
    {e \in g.edges : include_ambiguous \/ e.provenance # "ambiguous"}

(* One round of the loop of transitive_callers.                             *)
Widen(edges, walk) ==
    LET nxt == {e.src : e \in {d \in edges : /\ d.dst \in walk.frontier
                                             /\ d.src \notin walk.seen \cup walk.frontier}}
    IN  [seen |-> walk.seen \cup nxt, frontier |-> nxt]

(* A bug: one round too few.                                                *)
transitive_callers_short(g, symbol, max_depth, include_ambiguous) ==
    LET edges == Usable(g, include_ambiguous)
        walk[depth \in 0 .. max_depth] ==
            IF depth = 0
            THEN [seen |-> {}, frontier |-> resolve(g, symbol)]
            ELSE LET before == walk[depth - 1] IN Widen(edges, before)
    IN  walk[max_depth - 1].seen \cap Ids(g)

transitive_callers(g, symbol, max_depth, include_ambiguous) ==
    LET edges == Usable(g, include_ambiguous)
        walk[depth \in 0 .. max_depth] ==
            IF depth = 0
            THEN [seen |-> {}, frontier |-> resolve(g, symbol)]
            ELSE LET before == walk[depth - 1] IN Widen(edges, before)
    IN  walk[max_depth].seen \cap Ids(g)

get_subgraph(g, symbol, depth) ==
    LET around(S) == {e.dst : e \in {d \in g.edges : d.src \in S}}
                     \cup {e.src : e \in {d \in g.edges : d.dst \in S}}
        walk[k \in 0 .. depth] ==
            IF k = 0
            THEN [keep |-> resolve(g, symbol), frontier |-> resolve(g, symbol)]
            ELSE LET before == walk[k - 1]
                     nxt == around(before.frontier) \ before.keep
                 IN  [keep |-> before.keep \cup nxt, frontier |-> nxt]
        keep == walk[depth].keep
    IN  [nodes |-> keep \cap Ids(g), edges |-> {e \in g.edges : {e.src, e.dst} \subseteq keep}]

has_edge(g, src_symbol, dst_symbol) ==
    \E e \in g.edges : e.src \in resolve(g, src_symbol) /\ e.dst \in resolve(g, dst_symbol)

(* The files that import the module; one of the same last part will do.      *)
dependents_of(g, key) ==
    {f \in DOMAIN g.imports : \E m \in g.imports[f] : Last(m) = Last(key)}

(***************************************************************************)
(* The graph of a set of sources.                                          *)
(***************************************************************************)

(* What the visitor makes of a definition.                                  *)
SymbolNode(f, d) ==
    [id |-> <<f>> \o Qualname(d), name |-> d.name, qualname |-> Qualname(d),
     kind |-> CASE d.class -> "class"
                [] ~d.class /\ d.outer # <<>> -> "method"
                [] OTHER -> "function",
     file |-> f]

NodesOf(f, content) ==
    IF Ast[content].parses THEN {SymbolNode(f, d) : d \in Ast[content].defs} ELSE {}

(* The methods `name` of the class that `caller` is a method of.            *)
SelfCandidates(nodes, caller, name) ==
    {n.id : n \in {m \in nodes : /\ m.file = Head(caller)
                                 /\ m.kind = "method"
                                 /\ Len(caller) > 2
                                 /\ m.qualname = Append(SubSeq(caller, 2, Len(caller) - 1), name)}}

NameCandidates(g, caller, name) == resolve(g, <<name>>) \ {caller}

EdgesOfCall(g, call) ==
    IF call.self
    THEN LET candidates == SelfCandidates(g.nodes, call.caller, call.name)
         IN  {[src |-> call.caller, dst |-> c,
               provenance |-> IF Cardinality(candidates) = 1 THEN "extracted" ELSE "inferred"]
                : c \in candidates}
    ELSE LET candidates == NameCandidates(g, call.caller, call.name)
         IN  IF Cardinality(candidates) > _AMBIGUOUS_FANOUT_CAP
             THEN {}
             ELSE {[src |-> call.caller, dst |-> c,
                    provenance |-> IF Cardinality(candidates) = 1 THEN "extracted" ELSE "ambiguous"]
                     : c \in candidates}

(* The calls of a file that are made in a function, by their place in it.     *)
RawCalls(f, content) ==
    LET calls == Ast[content].calls
        own == {i \in DOMAIN calls : Ast[content].parses /\ calls[i].caller # <<>>}
    IN  [i \in own |-> [calls[i] EXCEPT !.caller = <<f>> \o @]]

(* The first call from a caller to a callee decides the edge.  A caller is in  *)
(* one file, so only the order of the calls in that file counts.             *)
EdgesOfFile(g, f, content) ==
    LET calls == RawCalls(f, content)
        first(i, e) == \A j \in DOMAIN calls : j < i =>
            \A d \in EdgesOfCall(g, calls[j]) : <<d.src, d.dst>> # <<e.src, e.dst>>
    IN  UNION {{e \in EdgesOfCall(g, calls[i]) : first(i, e)} : i \in DOMAIN calls}

build_graph_from_sources(sha, files) ==
    LET paths == DOMAIN files
        importing == {f \in paths : Ast[files[f]].parses /\ Ast[files[f]].imports # {}}
        nodes == UNION {NodesOf(f, files[f]) : f \in paths}
        symbols == RepoGraph(sha, nodes, {}, [f \in importing |-> Ast[files[f]].imports])
    IN  [symbols EXCEPT !.edges = UNION {EdgesOfFile(symbols, f, files[f]) : f \in paths}]

EmptyGraph == RepoGraph(0, {}, {}, <<>>)

(***************************************************************************)
(* The same graph from a graphify export: its nodes are code or prose, its *)
(* links relations with a confidence.                                      *)
(***************************************************************************)

_CALL_RELS == {"calls", "call", "invokes", "uses", "references", "instantiates", "constructs"}

_IMPORT_RELS == {"imports_from", "imports", "import", "includes", "depends_on"}

ExportedNodes(data) ==
    {[id |-> n.id, name |-> n.name, qualname |-> <<n.name>>, kind |-> n.kind, file |-> n.file]
        : n \in {m \in data.nodes : m.code /\ m.symbol /\ m.file # ""}}

(* A bug: links to the nodes that were left out are kept.                    *)
ExportedEdges_dangling(data, ids) ==
    LET calls == {l \in data.links : l.relation \in _CALL_RELS \cup {""}}
        stated(l) == IF l.confidence \in Provenance THEN l.confidence ELSE "inferred"
    IN  {[src |-> l.source, dst |-> l.target, provenance |-> stated(l)] : l \in calls}
        \cup IF data.directed
             THEN {}
             ELSE {[src |-> l.target, dst |-> l.source, provenance |-> "inferred"] : l \in calls}

ExportedEdges(data, ids) ==
    LET calls == {l \in data.links : /\ l.relation \in _CALL_RELS \cup {""}
                                     /\ {l.source, l.target} \subseteq ids}
        stated(l) == IF l.confidence \in Provenance THEN l.confidence ELSE "inferred"
    IN  {[src |-> l.source, dst |-> l.target, provenance |-> stated(l)] : l \in calls}
        \cup IF data.directed
             THEN {}
             ELSE {[src |-> l.target, dst |-> l.source, provenance |-> "inferred"] : l \in calls}

ExportedImports(data) ==
    LET file(id) == LET named == {n \in data.nodes : n.id = id}
                    IN  IF named = {} THEN "" ELSE (CHOOSE n \in named : TRUE).file
        pairs == {p \in {<<file(l.source), file(l.target)>>
                            : l \in {k \in data.links : k.relation \in _IMPORT_RELS}} :
                    "" \notin {p[1], p[2]} /\ p[1] # p[2]}
    IN  [f \in {p[1] : p \in pairs} |-> {Module[p[2]] : p \in {q \in pairs : q[1] = f}}]

from_graphify_json(data) ==
    LET nodes == ExportedNodes(data)
    IN  RepoGraph(data.sha, nodes, ExportedEdges(data, {n.id : n \in nodes}),
                  ExportedImports(data))

(***************************************************************************)
(* What the summary says of a graph.                                       *)
(***************************************************************************)

(* Functions nothing in the repository calls.                               *)
EntryPoints(g) ==
    {n.qualname : n \in {m \in g.nodes : /\ m.kind \in {"function", "method"}
                                         /\ \A e \in g.edges : e.dst # m.id}}

Keywords(g) == {n.name : n \in g.nodes} \cup {n.file : n \in g.nodes}

(***************************************************************************)
(* Reference definitions, for the properties.                              *)
(***************************************************************************)

(* The nodes with a chain of exactly k edges to one of the targets.         *)
ChainsTo(edges, targets, k) ==
    LET back[j \in 0 .. k] ==
            IF j = 0
            THEN targets
            ELSE LET reached == back[j - 1] IN {e.src : e \in {d \in edges : d.dst \in reached}}
    IN  back[k]
=============================================================================
