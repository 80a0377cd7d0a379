----------------------------- MODULE RepoIndex -----------------------------
(***************************************************************************)
(* What the agent knows of a repository without asking GitLab, and how it  *)
(* gets old.  Developers push to the production branch.  A job that runs   *)
(* every night (reindex.py, index.py, frontend_index/refresh.py) reads the *)
(* branch file by file and writes three artifacts to the index directory:  *)
(* the symbol graph, the summary, and the screens of the frontend.  The    *)
(* threads of the dashboard that run the agent's tools (tools.py) read     *)
(* them while the job writes, and share one cache of the graph             *)
(* (graph_store.py).  People edit the human block of the summary.  The job *)
(* may be killed at any moment; files are written in place, so what it was *)
(* writing is then left empty.                                             *)
(*                                                                         *)
(* One backend repository and one frontend repository are modelled.  A     *)
(* stamp is the number of a commit of the branch, 0 for none.              *)
(***************************************************************************)
EXTENDS GitLab

CONSTANTS
    Contents,       \* a path -> the contents that are pushed to it
    FirstTrees,     \* the trees of the branch at the start
    Export,         \* {} or {the graphify export in the index directory}
    Threads,        \* the dashboard threads that run tools
    Queries,        \* the questions they ask of the graph
    MaxPushes,      \* pushes, to both repositories together
    MaxNights,      \* runs of the job
    MaxEdits,       \* edits of the human block
    MaxQueries,     \* tool calls
    MaxEvents       \* pushes, edits, tool calls and investigations together

Trees == UNION {[paths -> DOMAIN Ast] : paths \in SUBSET Files}

ASSUME IndexAssumption ==
    /\ FirstTrees \subseteq Trees
    /\ \A f \in Files : Contents[f] \subseteq DOMAIN Ast
    /\ {MaxPushes, MaxNights, MaxEdits, MaxQueries, MaxEvents} \subseteq Nat

VARIABLES
    branch,     \* the commits of the production branch
    frontend,   \* the number of commits of the frontend branch
    graphs,     \* the graph file: its mtime, its state and the graph in it
    summary,    \* the summary file: its state, its stamp, its words and its human block
    screens,    \* the frontend's clone, the index built from it, and the published copy
    job,        \* the nightly job
    cache,      \* _cache of the dashboard: <<>> or <<[mtime, graph]>>
    tool,       \* the tool call of each thread
    saved,      \* the last human block somebody saved
    overrun,    \* a job lost a human block: it died writing, or was overtaken by an edit
    spent       \* how often each bounded thing has happened

indexVars == <<branch, frontend, graphs, summary, screens, job, cache, tool, saved, overrun, spent>>

NoTime == 0     \* the mtime when no artifact is on disk

ExportTime == 1 \* the mtime of the graphify export

Idle == [at |-> "idle", stamp |-> 0, left |-> <<>>, read |-> <<>>, graph |-> EmptyGraph, human |-> 0]

NoAnswer == [error |-> "none"]

NoCall == [at |-> "idle", mtime |-> NoTime, query |-> [tool |-> "none"], graph |-> EmptyGraph,
           answer |-> NoAnswer, areas |-> 0, overtaken |-> FALSE]

NoSummary == [state |-> "none", sha |-> 0, words |-> {}, human |-> 0]

NothingSpent == [pushes |-> 0, nights |-> 0, edits |-> 0, queries |-> 0, investigations |-> 0]

(* A repository nobody indexed yet, or one with a graph, a summary and a note. *)
IndexInit ==
    /\ \E tree \in FirstTrees : branch = <<tree>>
    /\ frontend = 1
    /\ \/ /\ graphs = [mtime |-> NoTime, state |-> "none", graph |-> EmptyGraph]
          /\ summary = NoSummary
          /\ screens = [head |-> 0, areas |-> 0, meta |-> 0, published |-> [areas |-> 0, meta |-> 0]]
          /\ saved = 0
          /\ spent = NothingSpent
       \/ /\ LET g == build_graph_from_sources(1, Tip(branch))
             IN  /\ graphs = [mtime |-> ExportTime + 1, state |-> "whole", graph |-> g]
                 /\ summary = [state |-> "whole", sha |-> 1, words |-> Keywords(g), human |-> 1]
          /\ screens = [head |-> 1, areas |-> 1, meta |-> 1, published |-> [areas |-> 1, meta |-> 1]]
          /\ saved = 1
          /\ spent = [NothingSpent EXCEPT !.nights = 1]
    /\ job = Idle
    /\ cache = <<>>
    /\ tool = [t \in Threads |-> NoCall]
    /\ overrun = FALSE

Spend(what, max) ==
    /\ spent[what] < max
    /\ spent' = [spent EXCEPT ![what] = @ + 1]

Event(what, max) ==
    /\ spent.pushes + spent.edits + spent.queries + spent.investigations < MaxEvents
    /\ Spend(what, max)

(***************************************************************************)
(* The developers and the readers of the summary.                          *)
(***************************************************************************)

Push ==
    \E f \in Files :
        /\ Event("pushes", MaxPushes)
        /\ \/ \E c \in Contents[f] :
                /\ Has(branch, f) => c # get_file(branch, f)
                /\ branch' = Append(branch, [p \in DOMAIN Tip(branch) \cup {f} |->
                                                IF p = f THEN c ELSE get_file(branch, p)])
           \/ /\ Has(branch, f)
              /\ branch' = Append(branch, [p \in DOMAIN Tip(branch) \ {f} |-> Tip(branch)[p]])
        /\ UNCHANGED <<frontend, graphs, summary, screens, job, cache, tool, saved, overrun>>

PushFrontend ==
    /\ Event("pushes", MaxPushes)
    /\ frontend' = frontend + 1
    /\ UNCHANGED <<branch, graphs, summary, screens, job, cache, tool, saved, overrun>>

(* Somebody writes the human block of a summary that is there.              *)
EditSummary ==
    /\ Event("edits", MaxEdits)
    /\ summary.state = "whole"
    /\ saved' = spent.edits + 2
    /\ summary' = [summary EXCEPT !.human = spent.edits + 2]
    /\ overrun' = (overrun \/ job.at \in {"write_summary"})
    /\ UNCHANGED <<branch, frontend, graphs, screens, job, cache, tool>>

(***************************************************************************)
(* The nightly job: the frontend first, then the repository.               *)
(***************************************************************************)

JobAt(from, to) == job.at = from /\ job' = [job EXCEPT !.at = to]

OnlyScreens == UNCHANGED <<branch, frontend, graphs, summary, cache, tool, saved, overrun, spent>>

(* The night begins with the frontend's clone (ensure_latest) and the gate.  A *)
(* fetch that fails is not looked at: the clone then stays where it is.  When  *)
(* git fails otherwise, or no frontend is set up, the night goes on without.  *)
reindex_all ==
    /\ job.at = "idle"
    /\ Spend("nights", MaxNights)
    /\ \/ \E head \in {frontend} \cup ({screens.head} \ {0}) :
            /\ screens' = [screens EXCEPT !.head = head]
            /\ job' = [job EXCEPT !.at = IF head = screens.meta THEN "publish" ELSE "extract"]
       \/ /\ job' = [job EXCEPT !.at = "resolve"]
          /\ UNCHANGED screens
    /\ UNCHANGED <<branch, frontend, graphs, summary, cache, tool, saved, overrun>>

(* The screens change between the two reads of a tool call.                  *)
Overtake ==
    tool' = [t \in Threads |-> [tool[t] EXCEPT !.overtaken = @ \/ tool[t].at = "screen"]]

(* A bug: an extractor that fails is not noticed.                            *)
Extract_unchecked ==
    /\ JobAt("extract", "stamp")
    /\ \E areas \in {screens.areas, screens.head} : screens' = [screens EXCEPT !.areas = areas]
    /\ Overtake
    /\ UNCHANGED <<branch, frontend, graphs, summary, cache, saved, overrun, spent>>

Extract ==
    /\ JobAt("extract", "stamp")
    /\ screens' = [screens EXCEPT !.areas = screens.head]
    /\ Overtake
    /\ UNCHANGED <<branch, frontend, graphs, summary, cache, saved, overrun, spent>>

Stamp ==
    /\ JobAt("stamp", "publish")
    /\ screens' = [screens EXCEPT !.meta = screens.head]
    /\ OnlyScreens

PublishAreas ==
    /\ JobAt("publish", "publish_meta")
    /\ screens' = [screens EXCEPT !.published.areas = screens.areas]
    /\ Overtake
    /\ UNCHANGED <<branch, frontend, graphs, summary, cache, saved, overrun, spent>>

PublishMeta ==
    /\ JobAt("publish_meta", "resolve")
    /\ screens' = [screens EXCEPT !.published.meta = screens.meta]
    /\ OnlyScreens

(* git, an extractor or the clock ended the refresh: the job goes on.        *)
FrontendFails ==
    /\ job.at \in {"extract", "stamp", "publish", "publish_meta"}
    /\ job' = [job EXCEPT !.at = "resolve"]
    /\ UNCHANGED <<branch, frontend, graphs, summary, screens, cache, tool, saved, overrun, spent>>

OnlyJob == UNCHANGED <<branch, frontend, graphs, summary, screens, cache, tool, saved, overrun, spent>>

(* The commit the branch is at, best-effort.                                *)
ResolveHead ==
    /\ job.at = "resolve"
    /\ \E sha \in {get_commit(branch), 0} : job' = [job EXCEPT !.at = "list", !.stamp = sha]
    /\ OnlyJob

ListFiles ==
    /\ job.at = "list"
    /\ job' = [job EXCEPT !.at = "fetch", !.left = list_source_files(branch)]
    /\ OnlyJob

(* One file of the listing; it may be gone by now, and the build then fails. *)
FetchFile ==
    /\ job.at = "fetch"
    /\ job.left # <<>>
    /\ LET f == Head(job.left)
       IN  job' = IF Has(branch, f)
                  THEN [job EXCEPT !.left = Tail(@), !.read = Append(@, <<f, get_file(branch, f)>>)]
                  ELSE Idle
    /\ OnlyJob

(* What was read of each file.                                             *)
Sources(read) ==
    [f \in {read[i][1] : i \in DOMAIN read} |-> read[CHOOSE i \in DOMAIN read : read[i][1] = f][2]]

(* A bug: the stamp is that of the branch when the sources have been read.    *)
build_repo_graph_stamped_late(read, sha) ==
    build_graph_from_sources(get_commit(branch), Sources(read))

(* The graph of what was read.                                              *)
build_repo_graph(read, sha) ==
    build_graph_from_sources(sha, Sources(read))

(* write_text empties the file first.                                       *)
BuildGraph ==
    /\ job.at = "fetch"
    /\ job.left = <<>>
    /\ job' = [job EXCEPT !.at = "write_graph", !.read = <<>>,
                          !.graph = build_repo_graph(job.read, job.stamp)]
    /\ graphs' = [mtime |-> IF graphs.mtime < ExportTime THEN ExportTime + 1 ELSE graphs.mtime + 1,
                  state |-> "torn", graph |-> EmptyGraph]
    /\ UNCHANGED <<branch, frontend, summary, screens, cache, tool, saved, overrun, spent>>

WriteGraph ==
    /\ JobAt("write_graph", "existing")
    /\ graphs' = [mtime |-> graphs.mtime + 1, state |-> "whole", graph |-> job.graph]
    /\ UNCHANGED <<branch, frontend, summary, screens, cache, tool, saved, overrun, spent>>

extract_human_block(file) == IF file.state = "whole" THEN file.human ELSE 0

ReadExisting ==
    /\ job.at = "existing"
    /\ job' = [job EXCEPT !.at = "write_summary", !.human = extract_human_block(summary)]
    /\ OnlyJob

TruncateSummary ==
    /\ JobAt("write_summary", "fill_summary")
    /\ summary' = [NoSummary EXCEPT !.state = "torn"]
    /\ UNCHANGED <<branch, frontend, graphs, screens, cache, tool, saved, overrun, spent>>

(* A bug: the summary is generated anew.                                     *)
generate_summary_anew(graph, sha, human) ==
    [state |-> "whole", sha |-> sha, human |-> 0,
     words |-> Keywords(graph) \cup UNION {Range(q) : q \in EntryPoints(graph)}]

generate_summary(graph, sha, human) ==
    [state |-> "whole", sha |-> sha, human |-> human,
     words |-> Keywords(graph) \cup UNION {Range(q) : q \in EntryPoints(graph)}]

WriteSummary ==
    /\ job.at = "fill_summary"
    /\ job' = Idle
    /\ summary' = generate_summary(job.graph, job.stamp, job.human)
    /\ UNCHANGED <<branch, frontend, graphs, screens, cache, tool, saved, overrun, spent>>

(* GitLab fails and reindex_all goes on to the next repository, or the job    *)
(* is killed.                                                               *)
JobDies ==
    /\ job.at # "idle"
    /\ job' = Idle
    /\ overrun' = (overrun \/ job.at = "fill_summary")
    /\ UNCHANGED <<branch, frontend, graphs, summary, screens, cache, tool, saved, spent>>

Job ==
    \/ reindex_all \/ Extract \/ Stamp \/ PublishAreas \/ PublishMeta \/ FrontendFails
    \/ ResolveHead \/ ListFiles \/ FetchFile \/ BuildGraph \/ WriteGraph
    \/ ReadExisting \/ TruncateSummary \/ WriteSummary \/ JobDies

(***************************************************************************)
(* The tools: load_repo_graph in three steps, and find_screen in two.      *)
(***************************************************************************)

OnlyTools == UNCHANGED <<branch, frontend, graphs, summary, screens, job, saved, overrun>>

(* The mtime of the artifact that would be used; nothing to watch without one. *)
_artifact_mtime ==
    IF graphs.state # "none" THEN graphs.mtime
    ELSE IF Export # {} THEN ExportTime
    ELSE NoTime

(* What the handlers of tools.py answer from a graph.                       *)
ToolAnswer(g, q) ==
    CASE q.tool = "find_callers" ->
            [graph_sha |-> g.sha, callers |-> callers_of(g, q.symbol)]
      [] q.tool = "find_dependents" ->
            [graph_sha |-> g.sha, dependents |-> dependents_of(g, q.symbol)]
      [] q.tool = "get_subgraph" ->
            [graph_sha |-> g.sha, nodes |-> get_subgraph(g, q.symbol, 1).nodes]
      [] q.tool = "graph_has_edge" ->
            [graph_sha |-> g.sha, has_edge |-> has_edge(g, q.symbol, q.callee)]

Answered(t, q, g) ==
    tool' = [tool EXCEPT ![t] = [NoCall EXCEPT !.at = "answered", !.answer = ToolAnswer(g, q)]]

(* The artifact's mtime, and the cache when it is of that mtime.             *)
LoadGraph(t) ==
    /\ tool[t].at \in {"idle", "answered"}
    /\ Event("queries", MaxQueries)
    /\ \E q \in Queries :
        IF cache # <<>> /\ cache[1].mtime = _artifact_mtime
        THEN Answered(t, q, cache[1].graph)
        ELSE tool' = [tool EXCEPT ![t] = [NoCall EXCEPT !.at = "read", !.query = q,
                                                        !.mtime = _artifact_mtime]]
    /\ cache' = cache
    /\ OnlyTools

(* What is on disk now.  Without an artifact the graph is that of the mock     *)
(* fixtures, of which a deployment has none.                                *)
OnDisk ==
    IF graphs.state = "whole" THEN graphs.graph
    ELSE IF Export # {} THEN from_graphify_json(CHOOSE data \in Export : TRUE)
    ELSE EmptyGraph

ReadGraph(t) ==
    /\ tool[t].at = "read"
    /\ tool' = [tool EXCEPT ![t] =
            IF graphs.state = "torn"
            THEN NoCall
            ELSE [tool[t] EXCEPT !.at = "store", !.graph = OnDisk]]
    /\ UNCHANGED <<cache, spent>>
    /\ OnlyTools

(* A bug: the file's time is taken when the graph is stored.                 *)
StoreGraph_stats_late(t) ==
    /\ tool[t].at = "store"
    /\ cache' = <<[mtime |-> _artifact_mtime, graph |-> tool[t].graph]>>
    /\ Answered(t, tool[t].query, tool[t].graph)
    /\ spent' = spent
    /\ OnlyTools

StoreGraph(t) ==
    /\ tool[t].at = "store"
    /\ cache' = <<[mtime |-> tool[t].mtime, graph |-> tool[t].graph]>>
    /\ Answered(t, tool[t].query, tool[t].graph)
    /\ spent' = spent
    /\ OnlyTools

(* The published index, or else the one beside the code.                     *)
Published(part) ==
    IF screens.published[part] # 0 THEN screens.published[part] ELSE screens[part]

FindScreen(t) ==
    /\ tool[t].at \in {"idle", "answered"}
    /\ Event("queries", MaxQueries)
    /\ tool' = [tool EXCEPT ![t] =
            IF Published("areas") = 0
            THEN NoCall
            ELSE [NoCall EXCEPT !.at = "screen", !.areas = Published("areas")]]
    /\ cache' = cache
    /\ OnlyTools

ReadStamp(t) ==
    /\ tool[t].at = "screen"
    /\ tool' = [tool EXCEPT ![t] = [tool[t] EXCEPT
            !.at = "answered",
            !.answer = [index_sha |-> Published("meta")],
            !.overtaken = @ \/ (screens.published.areas # 0 /\ screens.published.meta = 0)]]
    /\ UNCHANGED <<cache, spent>>
    /\ OnlyTools

(* The dashboard is restarted.                                              *)
Restart ==
    /\ cache # <<>> \/ \E t \in Threads : tool[t].at # "idle"
    /\ cache' = <<>>
    /\ tool' = [t \in Threads |-> NoCall]
    /\ spent' = spent
    /\ OnlyTools

Tools ==
    \/ \E t \in Threads :
        \/ LoadGraph(t) \/ ReadGraph(t) \/ StoreGraph(t) \/ FindScreen(t) \/ ReadStamp(t)
    \/ Restart

IndexNext == Push \/ PushFrontend \/ EditSummary \/ Job \/ Tools

IndexSpec == IndexInit /\ [][IndexNext]_indexVars
=============================================================================
