----------------------------- MODULE TraceFirst -----------------------------
(***************************************************************************)
(* The investigation without a model (investigation.py, routing.py,        *)
(* stack_trace.py): from the trace in a ticket to the line it crashed at,  *)
(* the commit that wrote that line and the merge request it came with, and *)
(* the callers of the crashed function from the graph.  Each step asks     *)
(* GitLab anew, of the branch and not of a commit, while developers push   *)
(* and the nightly job writes the index.                                   *)
(***************************************************************************)
EXTENDS RepoIndex

CONSTANTS
    Tickets,            \* the tickets investigated
    Project,            \* the repository of `branch`
    OtherSummaries,     \* summaries of other repositories, in the order of their names
    ContextLines,       \* context_lines
    MaxInvestigations

Frames == [path : STRING, line : Nat, symbol : Seq(STRING)]

ASSUME TraceAssumption ==
    /\ ContextLines \in Nat /\ MaxInvestigations \in Nat
    /\ \A ticket \in Tickets :
          {ticket.python, ticket.java, ticket.js, ticket.generic} \subseteq Seq(Frames)

VARIABLE run    \* the investigation of the command line

vars == <<indexVars, run>>

NoVerdict == [confidence |-> "none"]

NoRun == [at |-> "idle", trace |-> <<>>, crash |-> <<>>, text |-> <<>>, confirmed |-> FALSE, commit |-> NoCommit,
          mr |-> <<>>, seen |-> 0, blamed |-> 0, verdict |-> NoVerdict]

Init == IndexInit /\ run = NoRun

(***************************************************************************)
(* Frames.  A ticket holds the frames each language's pattern finds in it, *)
(* in the order of the text; the symbol is <<>> when the frame names none. *)
(***************************************************************************)

Place(frame) == <<frame.path, frame.line>>

(* The first frame of each place.                                           *)
_dedupe(frames) ==
    Picked(frames, {i \in DOMAIN frames : \A j \in 1 .. i - 1 : Place(frames[j]) # Place(frames[i])})

(* Outermost frame first, whatever the language's own order.                 *)
LanguageFrames(ticket) ==
    IF ticket.python # <<>> THEN ticket.python
    ELSE IF ticket.java # <<>> THEN Reverse(ticket.java)
    ELSE Reverse(ticket.js)

parse_stack_trace(ticket) ==
    IF LanguageFrames(ticket) # <<>> THEN _dedupe(LanguageFrames(ticket))
    ELSE IF ~ticket.looks_like_a_trace THEN <<>>
    ELSE _dedupe([i \in DOMAIN ticket.generic |-> [ticket.generic[i] EXCEPT !.symbol = <<>>]])

crash_site(frames) == IF frames = <<>> THEN <<>> ELSE <<Last(frames)>>

(***************************************************************************)
(* Routing.                                                                *)
(***************************************************************************)

_load_summaries ==
    (IF summary.state = "whole"
     THEN <<[project |-> Project, words |-> summary.words]>>
     ELSE <<>>) \o OtherSummaries

(* Words the ticket shares with a summary, those of its paths three times.   *)
Score(ticket, s) ==
    Cardinality(ticket.words \cap s.words) + 3 * Cardinality(ticket.paths \cap s.words)

route_repo(ticket) ==
    LET all == _load_summaries
        hits == {i \in DOMAIN all : Score(ticket, all[i]) > 0}
        better(i, j) == \/ Score(ticket, all[i]) > Score(ticket, all[j])
                        \/ Score(ticket, all[i]) = Score(ticket, all[j]) /\ i < j
        ranked == SetToSortSeq(hits, better)
    IN  [k \in 1 .. (IF Len(ranked) < 3 THEN Len(ranked) ELSE 3) |-> all[ranked[k]].project]

(***************************************************************************)
(* The steps of investigate.                                               *)
(***************************************************************************)

Conclude(v) == run' = [run EXCEPT !.at = "done", !.verdict = v]

Low == [confidence |-> "low", commit |-> NoCommit, mr |-> <<>>, is_regression |-> "unknown",
        blast_radius |-> {}]

Start ==
    /\ run.at \in {"idle", "done"}
    /\ Event("investigations", MaxInvestigations)
    /\ \E ticket \in Tickets :
        LET crash == crash_site(parse_stack_trace(ticket))
            routed == route_repo(ticket)
            to == IF ticket.pinned THEN <<Project>> ELSE routed
        IN  run' = [NoRun EXCEPT
                !.trace = LanguageFrames(ticket),
                !.crash = crash,
                !.at = IF crash = <<>> \/ to = <<>> THEN "done"
                       ELSE IF to[1] = Project THEN "fetch" ELSE "elsewhere",
                !.verdict = IF crash = <<>> \/ to = <<>> THEN Low ELSE NoVerdict]
    /\ UNCHANGED <<branch, frontend, graphs, summary, screens, job, cache, tool, saved, overrun>>

(* The trace was routed to a repository that has no such file.               *)
FetchElsewhere ==
    /\ run.at = "elsewhere"
    /\ Conclude(Low)
    /\ UNCHANGED indexVars

(* The line is there and, if the frame names a symbol, the symbol is near it. *)
_confirm_frame ==
    /\ run.at = "fetch"
    /\ LET frame == run.crash[1]
           start == IF frame.line > ContextLines THEN frame.line - ContextLines ELSE 1
       IN  IF ~Has(branch, frame.path)
           THEN Conclude(Low)
           ELSE LET window == get_file_lines(branch, frame.path, start, frame.line + ContextLines)
                    text == IF frame.line \in DOMAIN window THEN <<window[frame.line]>> ELSE <<>>
                    symbol_ok == \A s \in Range(frame.symbol) : \E n \in DOMAIN window : s \in window[n].names
                IN  run' = [run EXCEPT !.at = "blame", !.text = text, !.seen = Len(branch),
                                       !.confirmed = text # <<>> /\ text[1].code # "" /\ symbol_ok]
    /\ UNCHANGED indexVars

Blame ==
    /\ run.at = "blame"
    /\ LET commit == blame_line(branch, run.crash[1].path, run.crash[1].line)
       IN  run' = [run EXCEPT !.commit = commit, !.blamed = Len(branch),
                              !.at = IF commit = NoCommit THEN "graph" ELSE "mrs"]
    /\ UNCHANGED indexVars

FindMergeRequests ==
    /\ run.at = "mrs"
    /\ LET mrs == merge_requests_for_commit(run.commit)
       IN  run' = [run EXCEPT !.at = "graph", !.mr = IF mrs = <<>> THEN <<>> ELSE <<mrs[1]>>]
    /\ UNCHANGED indexVars

(* Only GitLabError of the first fetch is caught.                            *)
GitLabRaises ==
    /\ run.at \in {"blame", "mrs"}
    /\ run' = NoRun
    /\ UNCHANGED indexVars

(* A graph that cannot be read is no graph; nor is there one without an       *)
(* artifact, since the settings are then passed where a client is expected.  *)
BlastRadius(frame) ==
    LET readable == graphs.state = "whole" \/ (graphs.state = "none" /\ Export # {})
    IN  IF frame.symbol = <<>> \/ ~readable
        THEN {}
        ELSE transitive_callers(OnDisk, frame.symbol, 4, FALSE)

Synthesize ==
    /\ run.at = "graph"
    /\ Conclude([confidence |-> CASE run.confirmed /\ run.commit # NoCommit /\ run.mr # <<>> -> "high"
                                  [] run.confirmed /\ run.commit # NoCommit /\ run.mr = <<>> -> "medium"
                                  [] OTHER -> "low",
                 commit |-> run.commit,
                 mr |-> run.mr,
                 is_regression |-> IF run.mr = <<>> THEN "unknown"
                                   ELSE IF run.mr[1].state = "merged" THEN "yes" ELSE "no",
                 blast_radius |-> BlastRadius(run.crash[1])])
    /\ UNCHANGED indexVars

investigate ==
    Start \/ FetchElsewhere \/ _confirm_frame \/ Blame \/ FindMergeRequests \/ GitLabRaises \/ Synthesize

Next ==
    \/ IndexNext /\ run' = run
    \/ investigate

Spec == Init /\ [][Next]_vars

(***************************************************************************)
(* Properties.                                                             *)
(***************************************************************************)

(* The files and the processes have the shapes the code gives them, and the   *)
(* edges of every graph join symbols of that graph.                          *)
TypeOK ==
    /\ branch # <<>> /\ \A k \in DOMAIN branch : DOMAIN branch[k] \subseteq Files
    /\ graphs.state \in {"none", "torn", "whole"} /\ graphs.mtime \in Nat
    /\ summary.state \in {"none", "torn", "whole"} /\ summary.sha \in 0 .. Len(branch)
    /\ {screens.head, screens.areas, screens.meta} \subseteq 0 .. frontend
    /\ job.stamp \in 0 .. Len(branch)
    /\ cache = <<>> \/ cache[1].mtime \in 0 .. graphs.mtime + ExportTime
    /\ run.commit \in 0 .. Len(branch)
    /\ \A g \in {graphs.graph, job.graph} \cup {cache[i].graph : i \in DOMAIN cache} :
        \A e \in g.edges : {e.src, e.dst} \subseteq Ids(g)

(* A cached graph that the next load would be given is the graph on disk: a  *)
(* thread that read the file while the job replaced it never leaves an entry *)
(* that hides the new graph (graph_store.py, load_repo_graph).              *)
CacheAgrees ==
    (cache # <<>> /\ cache[1].mtime = _artifact_mtime /\ graphs.state = "whole")
        => cache[1].graph = graphs.graph

(* The symbols the stamped graph shows of a file are those of the file in the *)
(* stamped commit or in a later one: the stamp never claims a commit the      *)
(* sources were not yet read at (reindex.py: the stamp tells how stale the     *)
(* map is).                                                                 *)
StampNotAhead ==
    LET g == graphs.graph
    IN  g.sha > 0 => \A f \in Files :
            LET shown == {n \in g.nodes : n.file = f}
            IN  \E k \in g.sha .. Len(branch) :
                    shown = IF f \in DOMAIN branch[k] THEN NodesOf(f, branch[k][f]) ELSE {}

(* A summary that is whole holds the human block somebody last saved, except  *)
(* after a job died while it wrote the file or wrote over an edit made since   *)
(* it had read the file (summarize.py: "an existing human block is preserved *)
(* verbatim").                                                              *)
HumanBlockKept == (summary.state = "whole" /\ ~overrun) => summary.human = saved

(* The screens a tool call returns are at least as new as the commit it says  *)
(* they were built from, however often a refresh failed midway; except when    *)
(* the job changed them between the two reads, or the first publication ever  *)
(* ended before the stamp and the one beside the code is read in its place    *)
(* (screen_index.py, refresh.py).                                           *)
ScreensNotBehindStamp ==
    \A t \in Threads :
        (tool[t].at = "answered" /\ tool[t].areas # 0 /\ ~tool[t].overtaken)
            => tool[t].answer.index_sha <= tool[t].areas

(* The queries agree with their definitions on every graph the job has just   *)
(* published: the blast radius within a depth is every symbol with a chain of *)
(* at most that many certain calls to the target, and the callers, the edges *)
(* and the neighbourhood are those of the same calls (graph.py).             *)
QueriesAgree ==
    job.at = "existing" =>
        LET g == graphs.graph
            certain == {e \in g.edges : e.provenance # "ambiguous"}
        IN  \A n \in g.nodes :
                LET targets == {m.id : m \in {k \in g.nodes : k.qualname = n.qualname \/ <<k.name>> = n.qualname}}
                    chains == [k \in 1 .. 4 |-> ChainsTo(certain, targets, k)]
                    callers == {c[1] : c \in callers_of(g, n.qualname)}
                    callees == {c[1] : c \in callees_of(g, n.qualname)}
                IN  /\ \A depth \in 1 .. 4 :
                        transitive_callers(g, n.qualname, depth, FALSE) \ targets
                            = (UNION {chains[k] : k \in 1 .. depth}) \ targets
                    /\ callers = ChainsTo(g.edges, targets, 1)
                    /\ \A c \in callees : has_edge(g, n.qualname, c)
                    /\ callees = {e.dst : e \in {d \in g.edges : d.src \in targets}}
                    /\ callers \cup callees \subseteq get_subgraph(g, n.qualname, 1).nodes

(* A high verdict is about the deepest frame of the trace, unless that place   *)
(* occurs in it twice; it names the commit that wrote the line there, and that *)
(* is the line that was confirmed unless a push changed it between the two     *)
(* requests (investigation.py, stack_trace.py, gitlab_client.py).           *)
LineAt(k, frame) == LineIn(branch[k], frame.path, frame.line)

HighNamesTheWriter ==
    run.verdict.confidence = "high" =>
        LET frame == run.crash[1]
            changed(k) == k = 1 \/ LineAt(k - 1, frame) # LineAt(k, frame)
        IN  /\ run.trace # <<>> =>
                LET deepest == Place(Last(run.trace))
                IN  \/ Place(frame) = deepest
                    \/ \E i \in 1 .. Len(run.trace) - 1 : Place(run.trace[i]) = deepest
            /\ changed(run.commit)
            /\ \A k \in run.commit + 1 .. run.blamed : ~changed(k)
            /\ \/ LineAt(run.commit, frame) = run.text
               \/ \E k \in run.seen + 1 .. run.blamed : changed(k)
=============================================================================
