------------------------------ MODULE IndexProofs ------------------------------
(***************************************************************************)
(* Proofs about the code index (RepoIndex) as the trace-first              *)
(* investigation runs beside it (TraceFirst): what people wrote in a       *)
(* summary survives the nightly job, the cache never hides a newer graph,  *)
(* a tool's screens are not behind the commit it names, the stamp on the   *)
(* graph is not ahead of its sources, the queries of the tools are what    *)
(* they say, and a high verdict names the commit that wrote the line.      *)
(***************************************************************************)
EXTENDS TraceFirst, OrderProofs

(***************************************************************************)
(* What the actions of the investigation and of the job leave alone.       *)
(***************************************************************************)

LEMMA InvestigateFrame ==
    investigate => UNCHANGED <<frontend, graphs, summary, screens, job, cache, tool, saved, overrun>>
BY DEF investigate, Start, FetchElsewhere, _confirm_frame, Blame, FindMergeRequests,
       GitLabRaises, Synthesize, indexVars

LEMMA ToolsFrame ==
    Tools => UNCHANGED <<frontend, graphs, summary, screens, job, saved, overrun>>
BY DEF Tools, LoadGraph, ReadGraph, StoreGraph, FindScreen, ReadStamp, Restart, OnlyTools

(***************************************************************************)
(* The human block of the summary.                                         *)
(***************************************************************************)

JobShape ==
    job = [at |-> job.at, stamp |-> job.stamp, left |-> job.left, read |-> job.read,
           graph |-> job.graph, human |-> job.human]

SummaryShape ==
    /\ summary = [state |-> summary.state, sha |-> summary.sha, words |-> summary.words,
                  human |-> summary.human]
    /\ summary.state \in {"none", "torn", "whole"}

\* The job that is about to write the summary holds the block somebody last
\* saved, and only its own writing leaves the file torn.
HumanInv ==
    /\ JobShape
    /\ SummaryShape
    /\ job.at = "fill_summary" => summary.state = "torn"
    /\ ~overrun =>
        /\ summary.state = "whole" => summary.human = saved
        /\ summary.state = "none" => saved = 0
        /\ summary.state = "torn" => job.at = "fill_summary"
        /\ job.at \in {"write_summary", "fill_summary"} => job.human = saved

LEMMA HumanInit == Init => HumanInv
<1> SUFFICES ASSUME Init PROVE HumanInv
  OBVIOUS
<1>1. JobShape /\ job.at = "idle"
  BY DEF Init, IndexInit, Idle, JobShape
<1>2. \/ summary = NoSummary /\ saved = 0
      \/ \E w : summary = [state |-> "whole", sha |-> 1, words |-> w, human |-> 1] /\ saved = 1
  BY DEF Init, IndexInit
<1>3. QED
  BY <1>1, <1>2 DEF HumanInv, SummaryShape, NoSummary

\* A step of the job before it reads the summary.
LEMMA HumanBefore ==
    ASSUME HumanInv, JobShape', UNCHANGED <<summary, saved, overrun>>,
           job.at # "fill_summary",
           job'.at \notin {"write_summary", "fill_summary"}
    PROVE  HumanInv'
BY DEF HumanInv, SummaryShape

LEMMA HumanStep == HumanInv /\ [Next]_vars => HumanInv'
<1> SUFFICES ASSUME HumanInv, [Next]_vars PROVE HumanInv'
  OBVIOUS
<1>0. ASSUME UNCHANGED <<job, summary, saved, overrun>> PROVE HumanInv'
  BY <1>0 DEF HumanInv, JobShape, SummaryShape
<1>1. CASE investigate
  BY <1>0, <1>1, InvestigateFrame
<1>2. CASE Tools
  BY <1>0, <1>2, ToolsFrame
<1>3. CASE Push \/ PushFrontend
  BY <1>0, <1>3 DEF Push, PushFrontend
<1>4. CASE EditSummary
  BY <1>4 DEF EditSummary, HumanInv, JobShape, SummaryShape
<1>5. CASE Job
  <2>1. CASE reindex_all \/ Extract \/ Stamp \/ PublishAreas \/ PublishMeta \/ FrontendFails
    <3>1. JobShape' /\ job'.at \in {"publish", "extract", "resolve", "stamp", "publish_meta"}
      BY <2>1 DEF HumanInv, JobShape, reindex_all, Extract, Stamp, PublishAreas, PublishMeta,
                  FrontendFails, JobAt
    <3>2. UNCHANGED <<summary, saved, overrun>> /\ job.at # "fill_summary"
      BY <2>1 DEF reindex_all, Extract, Stamp, PublishAreas, PublishMeta, FrontendFails,
                  JobAt, OnlyScreens
    <3>3. QED
      BY <3>1, <3>2, HumanBefore
  <2>2. CASE ResolveHead \/ ListFiles \/ FetchFile \/ BuildGraph \/ WriteGraph
    <3>1. JobShape' /\ job'.at \in {"list", "fetch", "idle", "write_graph", "existing"}
      <4>1. CASE ResolveHead
        BY <4>1 DEF HumanInv, JobShape, ResolveHead
      <4>2. CASE ListFiles
        BY <4>2 DEF HumanInv, JobShape, ListFiles
      <4>3. CASE FetchFile
        BY <4>3 DEF HumanInv, JobShape, FetchFile, Idle
      <4>4. CASE BuildGraph
        BY <4>4 DEF HumanInv, JobShape, BuildGraph
      <4>5. CASE WriteGraph
        BY <4>5 DEF HumanInv, JobShape, WriteGraph, JobAt
      <4>6. QED
        BY <2>2, <4>1, <4>2, <4>3, <4>4, <4>5
    <3>2. UNCHANGED <<summary, saved, overrun>> /\ job.at # "fill_summary"
      BY <2>2 DEF ResolveHead, ListFiles, FetchFile, BuildGraph, WriteGraph, JobAt, OnlyJob
    <3>3. QED
      BY <3>1, <3>2, HumanBefore
  <2>3. CASE ReadExisting
    BY <2>3 DEF ReadExisting, extract_human_block, OnlyJob, HumanInv, JobShape, SummaryShape
  <2>4. CASE TruncateSummary
    BY <2>4 DEF TruncateSummary, JobAt, NoSummary, HumanInv, JobShape, SummaryShape
  <2>5. CASE WriteSummary
    BY <2>5 DEF WriteSummary, generate_summary, Idle, HumanInv, JobShape, SummaryShape
  <2>6. CASE JobDies
    BY <2>6 DEF JobDies, Idle, HumanInv, JobShape, SummaryShape
  <2>7. QED
    BY <1>5, <2>1, <2>2, <2>3, <2>4, <2>5, <2>6 DEF Job
<1>6. CASE UNCHANGED vars
  BY <1>0, <1>6 DEF vars, indexVars
<1>7. QED
  BY <1>1, <1>2, <1>3, <1>4, <1>5, <1>6 DEF Next, IndexNext

\* A whole summary holds the human block last saved, however often the job
\* rewrote it, died or met an edit, except after the two races named by overrun.
THEOREM HumanBlockAlways == Spec => []HumanBlockKept
<1>1. HumanInv => HumanBlockKept
  BY DEF HumanInv, HumanBlockKept
<1>2. QED
  BY <1>1, HumanInit, HumanStep, PTL DEF Spec

(***************************************************************************)
(* The cache of the graph.                                                 *)
(***************************************************************************)

GraphsShape ==
    /\ graphs.state \in {"none", "torn", "whole"}
    /\ graphs.mtime \in Nat
    /\ graphs.state = "none" => graphs.mtime = NoTime
    /\ graphs.state # "none" => graphs.mtime > ExportTime
    /\ job.at = "write_graph" => graphs.state = "torn"
    /\ DOMAIN job = {"at", "stamp", "left", "read", "graph", "human"}

\* A graph read under an mtime: not a later one than the file has, and if it is
\* the file's, the graph is the file's.
ReadUnder(mtime, graph) ==
    /\ mtime \in Nat
    /\ mtime <= _artifact_mtime
    /\ (graphs.state = "whole" /\ mtime = graphs.mtime) => graph = graphs.graph

\* Before the graph is read only the mtime is known.
WatchedAt(mtime) == mtime \in Nat /\ mtime <= _artifact_mtime

CacheInv ==
    /\ GraphsShape
    /\ cache # <<>> => ReadUnder(cache[1].mtime, cache[1].graph)
    /\ DOMAIN tool = Threads
    /\ \A t \in Threads :
        /\ DOMAIN tool[t] = DOMAIN NoCall
        /\ tool[t].at = "read" => WatchedAt(tool[t].mtime)
        /\ tool[t].at = "store" => ReadUnder(tool[t].mtime, tool[t].graph)

\* What is read under an mtime stays so when the job writes the file: writing
\* gives it a later one.
LEMMA ReadUnderStable ==
    ASSUME NEW m, NEW g, GraphsShape,
           \/ graphs' = graphs
           \/ /\ graphs'.mtime \in Nat
              /\ graphs'.state # "none"
              /\ graphs'.mtime > ExportTime
              /\ graphs'.mtime > graphs.mtime
    PROVE  /\ ReadUnder(m, g) => ReadUnder(m, g)'
           /\ WatchedAt(m) => WatchedAt(m)'
BY DEF GraphsShape, ReadUnder, WatchedAt, _artifact_mtime, ExportTime, NoTime

LEMMA CacheInit == Init => CacheInv
<1> SUFFICES ASSUME Init PROVE CacheInv
  OBVIOUS
<1>1. GraphsShape
  BY DEF Init, IndexInit, GraphsShape, Idle, NoTime, ExportTime
<1>2. cache = <<>> /\ tool = [t \in Threads |-> NoCall]
  BY DEF Init, IndexInit
<1>3. QED
  BY <1>1, <1>2 DEF CacheInv, NoCall

\* A step that keeps the cache, and of every call its place, mtime and graph.
LEMMA CacheKept ==
    ASSUME CacheInv, GraphsShape', cache' = cache, DOMAIN tool' = Threads,
           \A t \in Threads :
                /\ DOMAIN tool'[t] = DOMAIN NoCall
                /\ tool'[t].at = tool[t].at
                /\ tool'[t].mtime = tool[t].mtime
                /\ tool'[t].graph = tool[t].graph,
           \/ graphs' = graphs
           \/ /\ graphs'.mtime \in Nat
              /\ graphs'.state # "none"
              /\ graphs'.mtime > ExportTime
              /\ graphs'.mtime > graphs.mtime
    PROVE  CacheInv'
<1>1. cache # <<>> => ReadUnder(cache[1].mtime, cache[1].graph)'
  BY ReadUnderStable DEF CacheInv
<1>2. \A t \in Threads : /\ tool[t].at = "read" => WatchedAt(tool[t].mtime)'
                         /\ tool[t].at = "store" => ReadUnder(tool[t].mtime, tool[t].graph)'
  BY ReadUnderStable DEF CacheInv
<1>3. QED
  BY <1>1, <1>2 DEF CacheInv, ReadUnder, WatchedAt, _artifact_mtime

\* A tool call of one thread.
LEMMA CacheTool ==
    ASSUME CacheInv, NEW t \in Threads, NEW call,
           UNCHANGED <<graphs, job>>, tool' = [tool EXCEPT ![t] = call],
           DOMAIN call = DOMAIN NoCall,
           call.at = "read" => WatchedAt(call.mtime),
           call.at = "store" => ReadUnder(call.mtime, call.graph),
           cache' # <<>> => ReadUnder(cache'[1].mtime, cache'[1].graph)
    PROVE  CacheInv'
BY DEF CacheInv, GraphsShape, ReadUnder, WatchedAt, _artifact_mtime

LEMMA CacheTools == CacheInv /\ Tools => CacheInv'
<1> SUFFICES ASSUME CacheInv, Tools PROVE CacheInv'
  OBVIOUS
<1>0. UNCHANGED <<graphs, job>>
  BY ToolsFrame
<1>a. GraphsShape /\ (cache # <<>> => ReadUnder(cache[1].mtime, cache[1].graph))
  BY DEF CacheInv
<1>b. NoCall.at = "idle" /\ DOMAIN NoCall # {}
  BY DEF NoCall
<1>1. ASSUME NEW t \in Threads, LoadGraph(t) PROVE CacheInv'
  <2>1. PICK q \in Queries :
            \/ Answered(t, q, cache[1].graph)
            \/ tool' = [tool EXCEPT ![t] = [NoCall EXCEPT !.at = "read", !.query = q,
                                                          !.mtime = _artifact_mtime]]
    BY <1>1 DEF LoadGraph
  <2>2. WatchedAt(_artifact_mtime)
    BY <1>a DEF WatchedAt, _artifact_mtime, GraphsShape, ExportTime, NoTime
  <2>3. cache' = cache
    BY <1>1 DEF LoadGraph
  <2>4. CASE Answered(t, q, cache[1].graph)
    <3>1. PICK a : tool' = [tool EXCEPT ![t] = [NoCall EXCEPT !.at = "answered", !.answer = a]]
      BY <2>4 DEF Answered
    <3>2. QED
      BY <3>1, <1>0, <1>a, <2>3, CacheTool DEF NoCall
  <2>5. CASE tool' = [tool EXCEPT ![t] = [NoCall EXCEPT !.at = "read", !.query = q,
                                                        !.mtime = _artifact_mtime]]
    BY <2>5, <2>2, <1>0, <1>a, <2>3, CacheTool DEF NoCall
  <2>6. QED
    BY <2>1, <2>4, <2>5
<1>2. ASSUME NEW t \in Threads, ReadGraph(t) PROVE CacheInv'
  <2>1. cache' = cache /\ tool[t].at = "read" /\ WatchedAt(tool[t].mtime)
        /\ DOMAIN tool[t] = DOMAIN NoCall
    BY <1>2 DEF ReadGraph, CacheInv
  <2>2. CASE graphs.state = "torn"
    <3>1. tool' = [tool EXCEPT ![t] = NoCall]
      BY <1>2, <2>2 DEF ReadGraph
    <3>2. QED
      BY <3>1, <1>0, <1>a, <2>1, CacheTool DEF NoCall
  <2>3. CASE graphs.state # "torn"
    <3>1. tool' = [tool EXCEPT ![t] = [tool[t] EXCEPT !.at = "store", !.graph = OnDisk]]
      BY <1>2, <2>3 DEF ReadGraph
    <3>2. ReadUnder(tool[t].mtime, OnDisk)
      BY <2>1 DEF ReadUnder, WatchedAt, OnDisk
    <3>3. QED
      BY <3>1, <3>2, <1>0, <1>a, <2>1, CacheTool DEF NoCall
  <2>4. QED
    BY <2>2, <2>3
<1>3. ASSUME NEW t \in Threads, StoreGraph(t) PROVE CacheInv'
  <2>1. PICK a : tool' = [tool EXCEPT ![t] = [NoCall EXCEPT !.at = "answered", !.answer = a]]
    BY <1>3 DEF StoreGraph, Answered
  <2>2. ReadUnder(tool[t].mtime, tool[t].graph)
    BY <1>3 DEF StoreGraph, CacheInv
  <2>3. cache' = <<[mtime |-> tool[t].mtime, graph |-> tool[t].graph]>>
    BY <1>3 DEF StoreGraph
  <2>4. cache'[1].mtime = tool[t].mtime /\ cache'[1].graph = tool[t].graph
    BY <2>3
  <2>5. QED
    BY <2>1, <2>2, <2>4, <1>0, CacheTool DEF NoCall
<1>4. ASSUME NEW t \in Threads, FindScreen(t) \/ ReadStamp(t) PROVE CacheInv'
  <2>1. cache' = cache /\ tool[t].at \notin {"read", "store"} /\ DOMAIN tool[t] = DOMAIN NoCall
    BY <1>4 DEF FindScreen, ReadStamp, CacheInv
  <2>2. CASE FindScreen(t) /\ Published("areas") = 0
    <3>1. tool' = [tool EXCEPT ![t] = NoCall]
      BY <2>2 DEF FindScreen
    <3>2. QED
      BY <2>1, <3>1, <1>0, <1>a, CacheTool DEF NoCall
  <2>3. CASE FindScreen(t) /\ Published("areas") # 0
    <3>1. tool' = [tool EXCEPT ![t] = [NoCall EXCEPT !.at = "screen", !.areas = Published("areas")]]
      BY <2>3 DEF FindScreen
    <3>2. QED
      BY <2>1, <3>1, <1>0, <1>a, CacheTool DEF NoCall
  <2>4. CASE ReadStamp(t)
    <3>1. PICK answer, overtaken :
            tool' = [tool EXCEPT ![t] = [tool[t] EXCEPT !.at = "answered", !.answer = answer,
                                                        !.overtaken = overtaken]]
      BY <2>4 DEF ReadStamp
    <3>2. QED
      BY <2>1, <3>1, <1>0, <1>a, CacheTool DEF NoCall
  <2>5. QED
    BY <1>4, <2>2, <2>3, <2>4
<1>5. CASE Restart
  BY <1>5, <1>0 DEF Restart, CacheInv, GraphsShape, NoCall
<1>6. QED
  BY <1>1, <1>2, <1>3, <1>4, <1>5 DEF Tools

LEMMA CacheJob == CacheInv /\ Job => CacheInv'
<1> SUFFICES ASSUME CacheInv, Job PROVE CacheInv'
  OBVIOUS
<1>a. cache' = cache
  BY DEF Job, reindex_all, Extract, Stamp, PublishAreas, PublishMeta, FrontendFails, ResolveHead,
         ListFiles, FetchFile, BuildGraph, WriteGraph, ReadExisting, TruncateSummary, WriteSummary,
         JobDies, JobAt, OnlyScreens, OnlyJob
<1>b. ASSUME tool' = tool PROVE /\ DOMAIN tool' = Threads
                                /\ \A t \in Threads : /\ DOMAIN tool'[t] = DOMAIN NoCall
                                                      /\ tool'[t].at = tool[t].at
                                                      /\ tool'[t].mtime = tool[t].mtime
                                                      /\ tool'[t].graph = tool[t].graph
  BY <1>b DEF CacheInv
<1>c. GraphsShape
  BY DEF CacheInv
<1>1. CASE Extract \/ PublishAreas
  <2>1. Overtake /\ UNCHANGED graphs /\ GraphsShape'
    BY <1>1, <1>c DEF Extract, PublishAreas, JobAt, GraphsShape
  <2>2. /\ DOMAIN tool' = Threads
        /\ \A t \in Threads : /\ DOMAIN tool'[t] = DOMAIN NoCall
                              /\ tool'[t].at = tool[t].at
                              /\ tool'[t].mtime = tool[t].mtime
                              /\ tool'[t].graph = tool[t].graph
    BY <2>1 DEF Overtake, CacheInv, NoCall
  <2>3. QED
    BY <2>1, <2>2, <1>a, CacheKept
<1>2. CASE reindex_all \/ Stamp \/ PublishMeta \/ FrontendFails \/ ResolveHead \/ ListFiles \/ FetchFile
           \/ ReadExisting \/ TruncateSummary \/ WriteSummary \/ JobDies
  <2>1. UNCHANGED <<graphs, tool>>
    BY <1>2 DEF reindex_all, Stamp, PublishMeta, FrontendFails, ResolveHead, ListFiles, FetchFile,
                ReadExisting, TruncateSummary, WriteSummary, JobDies, JobAt, OnlyScreens, OnlyJob
  <2>2. DOMAIN job' = DOMAIN job /\ job'.at # "write_graph"
    <3>1. CASE reindex_all \/ Stamp \/ PublishMeta \/ FrontendFails
      BY <3>1, <1>c DEF reindex_all, Stamp, PublishMeta, FrontendFails, JobAt, GraphsShape
    <3>2. CASE ResolveHead \/ ListFiles \/ FetchFile
      <4>1. CASE ResolveHead
        BY <4>1, <1>c DEF ResolveHead, GraphsShape
      <4>2. CASE ListFiles
        BY <4>2, <1>c DEF ListFiles, GraphsShape
      <4>3. CASE FetchFile
        BY <4>3, <1>c DEF FetchFile, GraphsShape, Idle
      <4>4. QED
        BY <3>2, <4>1, <4>2, <4>3
    <3>3. CASE ReadExisting \/ TruncateSummary
      BY <3>3, <1>c DEF ReadExisting, TruncateSummary, JobAt, GraphsShape
    <3>4. CASE WriteSummary \/ JobDies
      BY <3>4, <1>c DEF WriteSummary, JobDies, GraphsShape, Idle
    <3>5. QED
      BY <1>2, <3>1, <3>2, <3>3, <3>4
  <2>3. GraphsShape'
    BY <2>1, <2>2, <1>c DEF GraphsShape
  <2>4. QED
    BY <2>1, <2>3, <1>a, <1>b, CacheKept
<1>3. CASE BuildGraph
  <2>1. tool' = tool
    BY <1>3 DEF BuildGraph
  <2>2. graphs' = [mtime |-> IF graphs.mtime < ExportTime THEN ExportTime + 1 ELSE graphs.mtime + 1,
                   state |-> "torn", graph |-> EmptyGraph]
    BY <1>3 DEF BuildGraph
  <2>3. /\ graphs'.mtime \in Nat /\ graphs'.state = "torn"
        /\ graphs'.mtime > ExportTime /\ graphs'.mtime > graphs.mtime
    BY <2>2, <1>c DEF GraphsShape, ExportTime, NoTime
  <2>4. DOMAIN job' = DOMAIN job
    BY <1>3 DEF BuildGraph
  <2>5. GraphsShape'
    BY <2>3, <2>4, <1>c DEF GraphsShape
  <2>6. QED
    BY <2>1, <2>3, <2>5, <1>a, <1>b, CacheKept
<1>4. CASE WriteGraph
  <2>1. tool' = tool
    BY <1>4 DEF WriteGraph
  <2>2. graphs.state = "torn"
    BY <1>4, <1>c DEF WriteGraph, JobAt, GraphsShape
  <2>3. /\ graphs'.mtime \in Nat /\ graphs'.state = "whole"
        /\ graphs'.mtime > ExportTime /\ graphs'.mtime > graphs.mtime
    BY <1>4, <2>2, <1>c DEF WriteGraph, GraphsShape, ExportTime
  <2>4. DOMAIN job' = DOMAIN job /\ job'.at = "existing"
    BY <1>4, <1>c DEF WriteGraph, JobAt, GraphsShape
  <2>5. GraphsShape'
    BY <2>3, <2>4, <1>c DEF GraphsShape
  <2>6. QED
    BY <2>1, <2>3, <2>5, <1>a, <1>b, CacheKept
<1>5. QED
  BY <1>1, <1>2, <1>3, <1>4 DEF Job

LEMMA CacheStep == CacheInv /\ [Next]_vars => CacheInv'
<1> SUFFICES ASSUME CacheInv, [Next]_vars PROVE CacheInv'
  OBVIOUS
<1>1. ASSUME UNCHANGED <<graphs, job, cache, tool>> PROVE CacheInv'
  BY <1>1 DEF CacheInv, GraphsShape, ReadUnder, WatchedAt, _artifact_mtime
<1>2. CASE investigate
  BY <1>1, <1>2, InvestigateFrame
<1>3. CASE Push \/ PushFrontend \/ EditSummary
  BY <1>1, <1>3 DEF Push, PushFrontend, EditSummary
<1>4. CASE UNCHANGED vars
  BY <1>1, <1>4 DEF vars, indexVars
<1>5. QED
  BY <1>2, <1>3, <1>4, CacheTools, CacheJob DEF Next, IndexNext

\* However the steps of two threads that load the graph fall between the job's
\* two writes, the cache never hides the graph that is on disk.
THEOREM CacheAlwaysAgrees == Spec => []CacheAgrees
<1>1. CacheInv => CacheAgrees
  BY DEF CacheInv, GraphsShape, CacheAgrees, ReadUnder, _artifact_mtime
<1>2. QED
  BY <1>1, CacheInit, CacheStep, PTL DEF Spec

(***************************************************************************)
(* The screens of the frontend.                                            *)
(***************************************************************************)

ScreensShape ==
    /\ DOMAIN screens = {"head", "areas", "meta", "published"}
    /\ DOMAIN screens.published = {"areas", "meta"}
    /\ {screens.head, screens.areas, screens.meta, screens.published.areas,
        screens.published.meta} \subseteq Nat
    /\ frontend \in Nat
    /\ DOMAIN job = {"at", "stamp", "left", "read", "graph", "human"}

\* The stamp beside the code, and the published one, never claim more than the
\* screens with them show, and nothing shows more than the clone has.
StampsBehind ==
    /\ screens.head <= frontend
    /\ screens.meta <= screens.areas
    /\ screens.areas <= screens.head
    /\ screens.published.areas <= screens.areas
    /\ screens.published.meta <= screens.meta
    /\ screens.published.meta <= screens.published.areas
    /\ job.at = "stamp" => screens.areas = screens.head
    /\ job.at = "publish_meta" => screens.published.areas = screens.areas

CallsBehind ==
    /\ DOMAIN tool = Threads
    /\ \A t \in Threads :
        /\ DOMAIN tool[t] = DOMAIN NoCall
        /\ tool[t].overtaken \in BOOLEAN
        /\ (tool[t].at = "screen" /\ ~tool[t].overtaken) => tool[t].areas = Published("areas")
        /\ (tool[t].at = "answered" /\ tool[t].areas # 0 /\ ~tool[t].overtaken)
              => tool[t].answer.index_sha <= tool[t].areas

ScreensInv == ScreensShape /\ StampsBehind /\ CallsBehind

LEMMA ScreensInit == Init => ScreensInv
<1> SUFFICES ASSUME Init PROVE ScreensInv
  OBVIOUS
<1>1. ScreensShape /\ StampsBehind
  BY DEF Init, IndexInit, ScreensShape, StampsBehind, Idle
<1>2. tool = [t \in Threads |-> NoCall]
  BY DEF Init, IndexInit
<1>3. CallsBehind
  BY <1>2 DEF CallsBehind, NoCall
<1>4. QED
  BY <1>1, <1>3 DEF ScreensInv

\* A tool call of one thread.
LEMMA ScreensTool ==
    ASSUME ScreensInv, NEW t \in Threads, NEW call,
           UNCHANGED <<frontend, screens, job>>, tool' = [tool EXCEPT ![t] = call],
           DOMAIN call = DOMAIN NoCall, call.overtaken \in BOOLEAN,
           (call.at = "screen" /\ ~call.overtaken) => call.areas = Published("areas"),
           (call.at = "answered" /\ call.areas # 0 /\ ~call.overtaken)
              => call.answer.index_sha <= call.areas
    PROVE  ScreensInv'
BY DEF ScreensInv, ScreensShape, StampsBehind, CallsBehind, Published

\* The stamp read second is not ahead of the screens read first.
LEMMA StampRead ==
    ASSUME ScreensInv, NEW t \in Threads, ReadStamp(t) PROVE ScreensInv'
<1> DEFINE overtaken == tool[t].overtaken \/ (screens.published.areas # 0 /\ screens.published.meta = 0)
           call == [tool[t] EXCEPT !.at = "answered", !.answer = [index_sha |-> Published("meta")],
                                   !.overtaken = overtaken]
<1>1. tool' = [tool EXCEPT ![t] = call]
  BY DEF ReadStamp
<1>2. UNCHANGED <<frontend, screens, job>>
  BY DEF ReadStamp, OnlyTools
<1>3. /\ DOMAIN tool[t] = DOMAIN NoCall
      /\ ~overtaken => tool[t].areas = Published("areas")
  BY DEF ReadStamp, ScreensInv, CallsBehind
<1>4. ~overtaken => Published("meta") <= Published("areas")
  BY DEF ScreensInv, ScreensShape, StampsBehind, Published
<1>5. /\ DOMAIN call = DOMAIN NoCall /\ call.at = "answered" /\ call.overtaken = overtaken
      /\ call.areas = tool[t].areas /\ call.answer.index_sha = Published("meta")
  BY <1>3 DEF NoCall
<1>6. overtaken \in BOOLEAN
  BY DEF ScreensInv, CallsBehind
<1> HIDE DEF call, overtaken
<1>7. (call.at = "answered" /\ call.areas # 0 /\ ~call.overtaken)
         => call.answer.index_sha <= call.areas
  BY <1>3, <1>4, <1>5
<1>8. call.overtaken \in BOOLEAN /\ call.at # "screen"
  BY <1>5, <1>6
<1>9. QED
  BY <1>1, <1>2, <1>5, <1>7, <1>8, ScreensTool

LEMMA ScreensTools == ScreensInv /\ Tools => ScreensInv'
<1> SUFFICES ASSUME ScreensInv, Tools PROVE ScreensInv'
  OBVIOUS
<1>0. UNCHANGED <<frontend, screens, job>>
  BY ToolsFrame
<1>1. ASSUME NEW t \in Threads, LoadGraph(t) \/ StoreGraph(t) PROVE ScreensInv'
  <2>1. CASE \E a : tool' = [tool EXCEPT ![t] = [NoCall EXCEPT !.at = "answered", !.answer = a]]
    BY <2>1, <1>0, ScreensTool DEF NoCall
  <2>2. CASE \E q, m : tool' = [tool EXCEPT ![t] = [NoCall EXCEPT !.at = "read", !.query = q, !.mtime = m]]
    BY <2>2, <1>0, ScreensTool DEF NoCall
  <2>3. QED
    BY <1>1, <2>1, <2>2 DEF LoadGraph, StoreGraph, Answered
<1>2. ASSUME NEW t \in Threads, ReadGraph(t) PROVE ScreensInv'
  <2>1. CASE tool' = [tool EXCEPT ![t] = NoCall]
    BY <2>1, <1>0, ScreensTool DEF NoCall
  <2>2. CASE tool' = [tool EXCEPT ![t] = [tool[t] EXCEPT !.at = "store", !.graph = OnDisk]]
    <3>1. DOMAIN tool[t] = DOMAIN NoCall /\ tool[t].overtaken \in BOOLEAN
      BY DEF ScreensInv, CallsBehind
    <3>2. QED
      BY <3>1, <2>2, <1>0, ScreensTool DEF NoCall
  <2>3. QED
    BY <1>2, <2>1, <2>2 DEF ReadGraph
<1>3. ASSUME NEW t \in Threads, FindScreen(t) PROVE ScreensInv'
  <2>1. CASE tool' = [tool EXCEPT ![t] = NoCall]
    BY <2>1, <1>0, ScreensTool DEF NoCall
  <2>2. CASE tool' = [tool EXCEPT ![t] = [NoCall EXCEPT !.at = "screen", !.areas = Published("areas")]]
    BY <2>2, <1>0, ScreensTool DEF NoCall
  <2>3. QED
    BY <1>3, <2>1, <2>2 DEF FindScreen
<1>4. ASSUME NEW t \in Threads, ReadStamp(t) PROVE ScreensInv'
  BY <1>4, StampRead
<1>5. CASE Restart
  <2>1. tool' = [t \in Threads |-> NoCall]
    BY <1>5 DEF Restart
  <2>2. CallsBehind'
    BY <2>1 DEF CallsBehind, NoCall
  <2>3. QED
    BY <2>2, <1>0 DEF ScreensInv, ScreensShape, StampsBehind
<1>6. QED
  BY <1>1, <1>2, <1>3, <1>4, <1>5 DEF Tools

\* The screens change, and calls between their two reads are marked.
LEMMA ScreensOvertaken ==
    ASSUME ScreensInv, Overtake, (ScreensShape /\ StampsBehind)' PROVE ScreensInv'
<1>1. CallsBehind'
  BY DEF ScreensInv, CallsBehind, Overtake, NoCall
<1>2. QED
  BY <1>1 DEF ScreensInv

\* What a first read gives stays, and so do the calls.
LEMMA ScreensQuiet ==
    ASSUME ScreensInv, UNCHANGED tool, Published("areas")' = Published("areas"),
           (ScreensShape /\ StampsBehind)'
    PROVE  ScreensInv'
BY DEF ScreensInv, CallsBehind

LEMMA ScreensJob == ScreensInv /\ Job => ScreensInv'
<1> SUFFICES ASSUME ScreensInv, Job PROVE ScreensInv'
  OBVIOUS
<1>a. ScreensShape /\ StampsBehind
  BY DEF ScreensInv
<1>1. CASE reindex_all
  <2>1. ScreensShape' /\ StampsBehind'
    <3>1. CASE \E head \in {frontend} \cup ({screens.head} \ {0}) :
                  /\ screens' = [screens EXCEPT !.head = head]
                  /\ job' = [job EXCEPT !.at = IF head = screens.meta THEN "publish" ELSE "extract"]
      BY <1>1, <1>a, <3>1 DEF reindex_all, ScreensShape, StampsBehind
    <3>2. CASE job' = [job EXCEPT !.at = "resolve"] /\ UNCHANGED screens
      BY <1>1, <1>a, <3>2 DEF reindex_all, ScreensShape, StampsBehind
    <3>3. QED
      BY <1>1, <3>1, <3>2 DEF reindex_all
  <2>2. Published("areas")' = Published("areas") /\ UNCHANGED tool
    BY <1>1, <1>a DEF reindex_all, Published, ScreensShape
  <2>3. QED
    BY <2>1, <2>2, ScreensQuiet
<1>2. CASE Extract
  BY <1>2, <1>a, ScreensOvertaken DEF Extract, JobAt, ScreensShape, StampsBehind
<1>3. CASE PublishAreas
  BY <1>3, <1>a, ScreensOvertaken DEF PublishAreas, JobAt, ScreensShape, StampsBehind
<1>4. CASE Stamp
  <2>1. ScreensShape' /\ StampsBehind'
    BY <1>4, <1>a DEF Stamp, JobAt, OnlyScreens, ScreensShape, StampsBehind
  <2>2. Published("areas")' = Published("areas") /\ UNCHANGED tool
    BY <1>4, <1>a DEF Stamp, OnlyScreens, Published, ScreensShape
  <2>3. QED
    BY <2>1, <2>2, ScreensQuiet
<1>5. CASE PublishMeta
  <2>1. ScreensShape' /\ StampsBehind'
    BY <1>5, <1>a DEF PublishMeta, JobAt, OnlyScreens, ScreensShape, StampsBehind
  <2>2. Published("areas")' = Published("areas") /\ UNCHANGED tool
    BY <1>5, <1>a DEF PublishMeta, OnlyScreens, Published, ScreensShape
  <2>3. QED
    BY <2>1, <2>2, ScreensQuiet
<1>6. CASE FrontendFails \/ ResolveHead \/ ListFiles \/ FetchFile \/ BuildGraph \/ WriteGraph
           \/ ReadExisting \/ TruncateSummary \/ WriteSummary \/ JobDies
  <2>1. UNCHANGED <<frontend, screens, tool>>
    BY <1>6 DEF FrontendFails, ResolveHead, ListFiles, FetchFile, BuildGraph, WriteGraph,
                ReadExisting, TruncateSummary, WriteSummary, JobDies, OnlyJob
  <2>2. DOMAIN job' = DOMAIN job /\ job'.at \notin {"stamp", "publish_meta"}
    <3>1. CASE ResolveHead
      BY <3>1, <1>a DEF ResolveHead, ScreensShape
    <3>2. CASE ListFiles
      BY <3>2, <1>a DEF ListFiles, ScreensShape
    <3>3. CASE FetchFile
      BY <3>3, <1>a DEF FetchFile, ScreensShape, Idle
    <3>4. CASE BuildGraph
      BY <3>4, <1>a DEF BuildGraph, ScreensShape
    <3>5. CASE FrontendFails \/ WriteGraph \/ ReadExisting \/ TruncateSummary
      BY <3>5, <1>a DEF FrontendFails, WriteGraph, ReadExisting, TruncateSummary, JobAt, ScreensShape
    <3>6. CASE WriteSummary \/ JobDies
      BY <3>6, <1>a DEF WriteSummary, JobDies, ScreensShape, Idle
    <3>7. QED
      BY <1>6, <3>1, <3>2, <3>3, <3>4, <3>5, <3>6
  <2>3. ScreensShape' /\ StampsBehind'
    BY <2>1, <2>2, <1>a DEF ScreensShape, StampsBehind
  <2>4. Published("areas")' = Published("areas")
    BY <2>1 DEF Published
  <2>5. QED
    BY <2>1, <2>3, <2>4, ScreensQuiet
<1>7. QED
  BY <1>1, <1>2, <1>3, <1>4, <1>5, <1>6 DEF Job

LEMMA ScreensStep == ScreensInv /\ [Next]_vars => ScreensInv'
<1> SUFFICES ASSUME ScreensInv, [Next]_vars PROVE ScreensInv'
  OBVIOUS
<1>1. ASSUME UNCHANGED <<screens, job, tool>>, frontend' \in {frontend, frontend + 1} PROVE ScreensInv'
  <2>1. ScreensShape' /\ StampsBehind'
    BY <1>1 DEF ScreensInv, ScreensShape, StampsBehind
  <2>2. QED
    BY <1>1, <2>1, ScreensQuiet DEF Published
<1>2. CASE investigate
  BY <1>1, <1>2, InvestigateFrame
<1>3. CASE Push \/ PushFrontend \/ EditSummary
  BY <1>1, <1>3 DEF Push, PushFrontend, EditSummary
<1>4. CASE UNCHANGED vars
  BY <1>1, <1>4 DEF vars, indexVars
<1>5. QED
  BY <1>2, <1>3, <1>4, ScreensTools, ScreensJob DEF Next, IndexNext

\* However often a refresh dies between two of its writes and however the
\* publication falls between the two reads of a tool, a call that was not
\* overtaken returns screens at least as new as the commit it names.
THEOREM ScreensAlwaysAtStamp == Spec => []ScreensNotBehindStamp
<1>1. ScreensInv => ScreensNotBehindStamp
  BY DEF ScreensInv, CallsBehind, ScreensNotBehindStamp
<1>2. QED
  BY <1>1, ScreensInit, ScreensStep, PTL DEF Spec

(***************************************************************************)
(* Functions that are defined by recursion on a number.                    *)
(***************************************************************************)

\* A function over 0 .. n that each value determines the next of.
LEMMA WalkExists ==
    ASSUME NEW n \in Nat, NEW S, NEW base \in S, NEW Step \in [S -> S]
    PROVE  \E w \in [0 .. n -> S] : w = [k \in 0 .. n |-> IF k = 0 THEN base ELSE Step[w[k - 1]]]
<1> DEFINE Good(m, g) == g[0] = base /\ \A k \in 1 .. m : g[k] = Step[g[k - 1]]
           Done == {m \in Nat : \E g \in [0 .. m -> S] : Good(m, g)}
<1>1. 0 \in Done
  <2>1. [k \in 0 .. 0 |-> base] \in [0 .. 0 -> S]
    OBVIOUS
  <2>2. Good(0, [k \in 0 .. 0 |-> base])
    OBVIOUS
  <2>3. QED
    BY <2>1, <2>2
<1>2. ASSUME NEW m \in Nat, m \in Done PROVE m + 1 \in Done
  <2>1. PICK g \in [0 .. m -> S] : Good(m, g)
    BY <1>2
  <2> DEFINE h == [k \in 0 .. m + 1 |-> IF k <= m THEN g[k] ELSE Step[g[m]]]
  <2>2. h \in [0 .. m + 1 -> S]
    <3>1. g[m] \in S
      OBVIOUS
    <3>2. ASSUME NEW k \in 0 .. m + 1, k <= m PROVE g[k] \in S
      BY <3>2
    <3>3. QED
      BY <3>1, <3>2
  <2>3. h[0] = base
    BY <2>1
  <2>4. ASSUME NEW k \in 1 .. m + 1 PROVE h[k] = Step[h[k - 1]]
    <3>1. CASE k <= m
      BY <3>1, <2>1
    <3>2. CASE k = m + 1
      BY <3>2
    <3>3. QED
      BY <3>1, <3>2
  <2>5. Good(m + 1, h)
    BY <2>3, <2>4
  <2> HIDE DEF h
  <2>6. QED
    BY <2>2, <2>5
<1> HIDE DEF Done
<1>3. n \in Done
  BY <1>1, <1>2, Counting
<1> USE DEF Done
<1>4. PICK g \in [0 .. n -> S] : Good(n, g)
  BY <1>3
<1>5. g = [k \in 0 .. n |-> IF k = 0 THEN base ELSE Step[g[k - 1]]]
  <2>1. ASSUME NEW k \in 0 .. n PROVE g[k] = IF k = 0 THEN base ELSE Step[g[k - 1]]
    BY <1>4
  <2>2. QED
    BY <2>1
<1>6. QED
  BY <1>5

(***************************************************************************)
(* The graph of a set of sources, and the imported one.                    *)
(***************************************************************************)

\* Every edge joins two symbols of the graph.
Joined(g) == \A e \in g.edges : {e.src, e.dst} \subseteq Ids(g)

\* A name of a symbol is not the id of another.
Apart(g) == \A n \in g.nodes : n.qualname \notin Ids(g)

ShownOf(g, f) == {n \in g.nodes : n.file = f}

LEMMA QualnameIs ==
    ASSUME NEW content \in DOMAIN Ast, NEW d \in Ast[content].defs, NEW f
    PROVE  /\ Qualname(d) \in Seq(STRING)
           /\ Qualname(d)[1] \notin Files
           /\ (<<f>> \o Qualname(d))[1] = f
<1>1. d.outer \in Seq(STRING) /\ d.name \in STRING /\ Qualname(d)[1] \notin Files
  BY AstAssumption
<1>2. Qualname(d) \in Seq(STRING)
  BY <1>1 DEF Qualname
<1>3. (<<f>> \o Qualname(d))[1] = f
  <2> DEFINE X == STRING \cup {f}
  <2>1. <<f>> \in Seq(X) /\ Qualname(d) \in Seq(X) /\ Len(<<f>>) = 1 /\ <<f>>[1] = f
    <3>1. Qualname(d) \in Seq(X)
      <4>1. Qualname(d) \in [1 .. Len(Qualname(d)) -> STRING] /\ Len(Qualname(d)) \in Nat
        BY <1>2
      <4>2. QED
        BY <4>1
    <3>2. QED
      BY <3>1
  <2> HIDE DEF X
  <2>2. QED
    BY <2>1
<1>4. QED
  BY <1>1, <1>2, <1>3

LEMMA SymbolIs ==
    ASSUME NEW f, NEW d
    PROVE  /\ SymbolNode(f, d).file = f
           /\ SymbolNode(f, d).id = <<f>> \o Qualname(d)
           /\ SymbolNode(f, d).qualname = Qualname(d)
BY DEF SymbolNode

\* A call leads to symbols of the graph.
LEMMA CallLands ==
    ASSUME NEW g, NEW call, NEW e \in EdgesOfCall(g, call)
    PROVE  e.src = call.caller /\ e.dst \in Ids(g)
<1>1. ASSUME NEW symbol PROVE resolve(g, symbol) \subseteq Ids(g)
  BY DEF resolve, Ids
<1>2. CASE call.self
  <2>1. SelfCandidates(g.nodes, call.caller, call.name) \subseteq Ids(g)
    BY DEF SelfCandidates, Ids
  <2>2. QED
    BY <1>2, <2>1 DEF EdgesOfCall
<1>3. CASE ~ call.self
  <2>1. NameCandidates(g, call.caller, call.name) \subseteq Ids(g)
    BY <1>1 DEF NameCandidates
  <2>2. QED
    BY <1>3, <2>1 DEF EdgesOfCall
<1>4. QED
  BY <1>2, <1>3

LEMMA EntryOf == ASSUME NEW T, NEW s \in Seq(T), NEW i \in DOMAIN s PROVE s[i] \in T
OBVIOUS

\* A call is made in a symbol of its file.
LEMMA CallStarts ==
    ASSUME NEW f, NEW content \in DOMAIN Ast, NEW i \in DOMAIN RawCalls(f, content)
    PROVE  \E n \in NodesOf(f, content) : n.id = RawCalls(f, content)[i].caller
<1> DEFINE c == Ast[content].calls[i]
<1>1. i \in DOMAIN Ast[content].calls /\ Ast[content].parses /\ c.caller # <<>>
  BY DEF RawCalls
<1>2. RawCalls(f, content)[i].caller = <<f>> \o c.caller
  <2>1. RawCalls(f, content)[i] = [c EXCEPT !.caller = <<f>> \o @]
    BY <1>1 DEF RawCalls
  <2>2. "caller" \in DOMAIN c
    <3>1. c \in [caller : Seq(STRING), name : STRING, self : BOOLEAN]
      BY <1>1, AstAssumption, EntryOf
    <3>2. QED
      BY <3>1
  <2>3. QED
    BY <2>1, <2>2
<1>3. PICK d \in Ast[content].defs : c.caller = Qualname(d)
  BY <1>1, AstAssumption
<1>4. SymbolNode(f, d) \in NodesOf(f, content) /\ SymbolNode(f, d).id = <<f>> \o Qualname(d)
  BY <1>1, SymbolIs DEF NodesOf
<1>5. QED
  BY <1>2, <1>3, <1>4

\* The graph of some sources shows of each file what is in it, its edges join
\* its symbols, and it tells names from ids.
LEMMA Built ==
    ASSUME NEW sha, NEW files, DOMAIN files \subseteq Files,
           \A f \in DOMAIN files : files[f] \in DOMAIN Ast,
           NEW g, g = build_graph_from_sources(sha, files)
    PROVE  /\ g.sha = sha
           /\ Joined(g) /\ Apart(g)
           /\ \A f : ShownOf(g, f) = IF f \in DOMAIN files THEN NodesOf(f, files[f]) ELSE {}
<1> DEFINE importing == {f \in DOMAIN files : Ast[files[f]].parses /\ Ast[files[f]].imports # {}}
           nodes == UNION {NodesOf(f, files[f]) : f \in DOMAIN files}
           symbols == RepoGraph(sha, nodes, {}, [f \in importing |-> Ast[files[f]].imports])
           edges == UNION {EdgesOfFile(symbols, f, files[f]) : f \in DOMAIN files}
<1>1. g = [symbols EXCEPT !.edges = edges]
  BY DEF build_graph_from_sources
<1>2. symbols.nodes = nodes
  BY DEF RepoGraph
<1>3. g.sha = sha /\ g.nodes = nodes /\ g.edges = edges
  BY <1>1 DEF RepoGraph
<1>4. Ids(symbols) = Ids(g)
  BY <1>2, <1>3 DEF Ids
<1> HIDE DEF symbols
<1>5. Joined(g)
  <2>1. SUFFICES ASSUME NEW f \in DOMAIN files, NEW e \in EdgesOfFile(symbols, f, files[f])
                 PROVE  e.src \in Ids(g) /\ e.dst \in Ids(g)
    BY <1>3 DEF Joined
  <2>2. PICK i \in DOMAIN RawCalls(f, files[f]) :
            e \in EdgesOfCall(symbols, RawCalls(f, files[f])[i])
    BY DEF EdgesOfFile
  <2>3. e.src = RawCalls(f, files[f])[i].caller /\ e.dst \in Ids(g)
    BY <2>2, <1>4, CallLands
  <2>4. PICK n \in NodesOf(f, files[f]) : n.id = RawCalls(f, files[f])[i].caller
    BY CallStarts
  <2>5. n \in g.nodes
    BY <2>4, <1>3
  <2>6. QED
    BY <2>3, <2>4, <2>5 DEF Ids
<1>6. ASSUME NEW n \in g.nodes
      PROVE  \E f \in DOMAIN files : \E d \in Ast[files[f]].defs :
                n \in NodesOf(f, files[f]) /\ n = SymbolNode(f, d)
  BY <1>3, <1>6 DEF NodesOf
<1>7. Apart(g)
  <2>1. SUFFICES ASSUME NEW n \in g.nodes, NEW m \in g.nodes, n.qualname = m.id PROVE FALSE
    BY DEF Apart, Ids
  <2>a. PICK f \in DOMAIN files : \E d \in Ast[files[f]].defs : n = SymbolNode(f, d)
    BY <1>6
  <2>2. PICK d \in Ast[files[f]].defs : n = SymbolNode(f, d)
    BY <2>a
  <2>b. PICK h \in DOMAIN files : \E c \in Ast[files[h]].defs : m = SymbolNode(h, c)
    BY <1>6
  <2>3. PICK c \in Ast[files[h]].defs : m = SymbolNode(h, c)
    BY <2>b
  <2>4. Qualname(d) = <<h>> \o Qualname(c)
    <3>1. n.qualname = Qualname(d)
      BY <2>2 DEF SymbolNode
    <3>2. m.id = <<h>> \o Qualname(c)
      BY <2>3 DEF SymbolNode
    <3>3. QED
      BY <2>1, <3>1, <3>2
  <2>c. files[f] \in DOMAIN Ast /\ files[h] \in DOMAIN Ast /\ h \in Files
    OBVIOUS
  <2>5. Qualname(d)[1] \notin Files
    BY <2>c, QualnameIs
  <2>6. (<<h>> \o Qualname(c))[1] = h
    BY <2>c, QualnameIs
  <2>7. QED
    BY <2>4, <2>5, <2>6
<1>8. ASSUME NEW f PROVE ShownOf(g, f) = IF f \in DOMAIN files THEN NodesOf(f, files[f]) ELSE {}
  <2>1. ASSUME NEW h \in DOMAIN files, NEW n \in NodesOf(h, files[h]) PROVE n.file = h
    BY <2>1, SymbolIs DEF NodesOf
  <2>2. QED
    BY <2>1, <1>3 DEF ShownOf
<1>9. QED
  BY <1>3, <1>5, <1>7, <1>8

\* The links of an export that are kept join symbols that are kept.
LEMMA Imported == ASSUME NEW data PROVE Joined(from_graphify_json(data))
<1> DEFINE nodes == ExportedNodes(data)
           ids == {n.id : n \in nodes}
           g == from_graphify_json(data)
<1>1. g.nodes = nodes /\ g.edges = ExportedEdges(data, ids)
  BY DEF from_graphify_json, RepoGraph
<1>2. ASSUME NEW e \in ExportedEdges(data, ids) PROVE e.src \in ids /\ e.dst \in ids
  <2> DEFINE calls == {l \in data.links : /\ l.relation \in _CALL_RELS \cup {""}
                                          /\ {l.source, l.target} \subseteq ids}
             stated(l) == IF l.confidence \in Provenance THEN l.confidence ELSE "inferred"
  <2>1. \/ \E l \in calls : e = [src |-> l.source, dst |-> l.target, provenance |-> stated(l)]
        \/ \E l \in calls : e = [src |-> l.target, dst |-> l.source, provenance |-> "inferred"]
    BY <1>2 DEF ExportedEdges
  <2>2. \A l \in calls : l.source \in ids /\ l.target \in ids
    OBVIOUS
  <2> HIDE DEF calls, stated, ids
  <2>3. QED
    BY <2>1, <2>2
<1>3. ids = Ids(g)
  BY <1>1 DEF Ids
<1> HIDE DEF ids, g
<1>4. QED
  BY <1>1, <1>2, <1>3 DEF Joined, g

(***************************************************************************)
(* The stamp: what a job has fetched is of the commit it stamped or later. *)
(***************************************************************************)

\* What a commit shows of a file.
Shown(history, k, f) == IF f \in DOMAIN history[k] THEN NodesOf(f, history[k][f]) ELSE {}

\* A graph shows of each file what is in it in the stamped commit or a later one.
NotAhead(g, history) ==
    /\ g.sha \in 0 .. Len(history)
    /\ g.sha > 0 => \A f \in Files : \E k \in g.sha .. Len(history) :
                        ShownOf(g, f) = Shown(history, k, f)

HasSince(history, sha, f, content) ==
    \E k \in 1 .. Len(history) : k >= sha /\ f \in DOMAIN history[k] /\ history[k][f] = content

LacksSince(history, sha, f) ==
    \E k \in 1 .. Len(history) : k >= sha /\ f \notin DOMAIN history[k]

\* What a job that fetches has: contents of the stamped commit or of later ones;
\* and a file it has not, nor is about to fetch, is missing in one of them.
Fetched(history, sha, left, read) ==
    /\ left \in Seq(Files) /\ read \in Seq(Files \X DOMAIN Ast)
    /\ \A i \in DOMAIN read : HasSince(history, sha, read[i][1], read[i][2])
    /\ \A f \in Files : \/ f \in Range(left)
                        \/ \E i \in DOMAIN read : read[i][1] = f
                        \/ LacksSince(history, sha, f)

History(history) == history \in Seq(Trees) /\ Len(history) >= 1

GrownTo(history, later) ==
    /\ Len(later) >= Len(history)
    /\ \A k \in 1 .. Len(history) : later[k] = history[k]

LEMMA TreeIs ==
    ASSUME NEW tree \in Trees
    PROVE  DOMAIN tree \subseteq Files /\ \A f \in DOMAIN tree : tree[f] \in DOMAIN Ast
BY DEF Trees

LEMMA TreeFrom ==
    ASSUME NEW tree, tree = [f \in DOMAIN tree |-> tree[f]], DOMAIN tree \subseteq Files,
           \A f \in DOMAIN tree : tree[f] \in DOMAIN Ast
    PROVE  tree \in Trees
<1>1. tree \in [DOMAIN tree -> DOMAIN Ast]
  OBVIOUS
<1>2. QED
  BY <1>1 DEF Trees

LEMMA TipIs ==
    ASSUME NEW history, History(history)
    PROVE  /\ Tip(history) \in Trees /\ Len(history) \in Nat
           /\ Len(history) \in 1 .. Len(history)
           /\ \A k \in 1 .. Len(history) : history[k] \in Trees
           /\ DOMAIN history = 1 .. Len(history)
BY DEF History, Tip

LEMMA SourcesStay ==
    ASSUME NEW history, NEW later, History(history), History(later), GrownTo(history, later),
           NEW sha, NEW f, NEW content
    PROVE  /\ HasSince(history, sha, f, content) => HasSince(later, sha, f, content)
           /\ LacksSince(history, sha, f) => LacksSince(later, sha, f)
<1>1. Len(history) \in Nat /\ Len(later) \in Nat
  BY TipIs
<1>2. \A k \in 1 .. Len(history) : k \in 1 .. Len(later) /\ later[k] = history[k]
  BY <1>1 DEF GrownTo
<1>3. QED
  BY <1>2 DEF HasSince, LacksSince

LEMMA FetchedStays ==
    ASSUME NEW history, NEW later, History(history), History(later), GrownTo(history, later),
           NEW sha, NEW left, NEW read, Fetched(history, sha, left, read)
    PROVE  Fetched(later, sha, left, read)
BY SourcesStay DEF Fetched

LEMMA NotAheadStays ==
    ASSUME NEW history, NEW later, History(history), History(later), GrownTo(history, later),
           NEW g, NotAhead(g, history)
    PROVE  NotAhead(g, later)
<1>1. Len(history) \in Nat /\ Len(later) \in Nat /\ Len(later) >= Len(history)
  BY TipIs DEF GrownTo
<1>2. g.sha \in 0 .. Len(history) /\ g.sha \in 0 .. Len(later)
  BY <1>1 DEF NotAhead
<1>3. ASSUME g.sha > 0, NEW f \in Files
      PROVE  \E k \in g.sha .. Len(later) : ShownOf(g, f) = Shown(later, k, f)
  <2>1. PICK k \in g.sha .. Len(history) : ShownOf(g, f) = Shown(history, k, f)
    BY <1>3 DEF NotAhead
  <2>2. k \in 1 .. Len(history) /\ k \in g.sha .. Len(later)
    BY <1>1, <1>2, <1>3
  <2>3. later[k] = history[k]
    BY <2>2 DEF GrownTo
  <2>4. QED
    BY <2>1, <2>2, <2>3 DEF Shown
<1>4. QED
  BY <1>2, <1>3 DEF NotAhead

\* The graph of what was fetched, when nothing is left to fetch.
LEMMA BuiltFromFetched ==
    ASSUME NEW history, History(history), NEW sha \in 0 .. Len(history), NEW read,
           Fetched(history, sha, <<>>, read),
           NEW g, g = build_repo_graph(read, sha)
    PROVE  NotAhead(g, history) /\ Joined(g) /\ Apart(g)
<1> DEFINE files == Sources(read)
<1>1. /\ read \in Seq(Files \X DOMAIN Ast)
      /\ \A i \in DOMAIN read : HasSince(history, sha, read[i][1], read[i][2])
  BY DEF Fetched
<1>2. ASSUME NEW i \in DOMAIN read PROVE read[i][1] \in Files /\ read[i][2] \in DOMAIN Ast
  BY <1>1
<1>3. DOMAIN files = {read[i][1] : i \in DOMAIN read}
  BY DEF Sources
<1>4. ASSUME NEW f \in DOMAIN files
      PROVE  files[f] \in DOMAIN Ast /\ HasSince(history, sha, f, files[f])
  <2> DEFINE i == CHOOSE i \in DOMAIN read : read[i][1] = f
  <2>1. i \in DOMAIN read /\ read[i][1] = f
    BY <1>3
  <2>2. files[f] = read[i][2]
    BY <1>3 DEF Sources
  <2> HIDE DEF i, files
  <2>3. QED
    BY <2>1, <2>2, <1>1, <1>2
<1>5. DOMAIN files \subseteq Files
  BY <1>2, <1>3
<1>6. g = build_graph_from_sources(sha, files)
  BY DEF build_repo_graph
<1> HIDE DEF files
<1>7. /\ g.sha = sha /\ Joined(g) /\ Apart(g)
      /\ \A f : ShownOf(g, f) = IF f \in DOMAIN files THEN NodesOf(f, files[f]) ELSE {}
  BY <1>4, <1>5, <1>6, Built
<1>8. ASSUME sha > 0, NEW f \in Files
      PROVE  \E k \in sha .. Len(history) : ShownOf(g, f) = Shown(history, k, f)
  <2>1. Len(history) \in Nat /\ sha \in Nat
    BY TipIs
  <2>2. CASE f \in DOMAIN files
    <3>1. PICK k \in 1 .. Len(history) :
                k >= sha /\ f \in DOMAIN history[k] /\ history[k][f] = files[f]
      BY <2>2, <1>4 DEF HasSince
    <3>2. k \in sha .. Len(history)
      BY <2>1, <3>1
    <3>3. ShownOf(g, f) = Shown(history, k, f)
      BY <2>2, <3>1, <1>7 DEF Shown
    <3>4. QED
      BY <3>2, <3>3
  <2>3. CASE f \notin DOMAIN files
    <3>1. LacksSince(history, sha, f)
      <4>1. f \notin Range(<<>>)
        BY DEF Range
      <4>2. QED
        BY <4>1, <2>3, <1>3 DEF Fetched
    <3>2. PICK k \in 1 .. Len(history) : k >= sha /\ f \notin DOMAIN history[k]
      BY <3>1 DEF LacksSince
    <3>3. k \in sha .. Len(history)
      BY <2>1, <3>2
    <3>4. ShownOf(g, f) = Shown(history, k, f)
      BY <2>3, <3>2, <1>7 DEF Shown
    <3>5. QED
      BY <3>3, <3>4
  <2>4. QED
    BY <2>2, <2>3
<1>9. QED
  BY <1>7, <1>8 DEF NotAhead

\* A listing names every file of the branch as it is.
LEMMA Listed ==
    ASSUME NEW history, History(history), NEW sha \in 0 .. Len(history)
    PROVE  Fetched(history, sha, list_source_files(history), <<>>)
<1>1. Tip(history) \in Trees /\ Len(history) \in 1 .. Len(history)
  BY TipIs
<1>2. DOMAIN Tip(history) \in SUBSET Files
  BY <1>1, TreeIs
<1> DEFINE left == list_source_files(history)
<1>3. left \in Seq(Files) /\ Range(left) = DOMAIN Tip(history)
  BY <1>2, ListingAssumption DEF list_source_files
<1> HIDE DEF left
<1>4. ASSUME NEW f \in Files, f \notin Range(left) PROVE LacksSince(history, sha, f)
  <2>1. f \notin DOMAIN history[Len(history)] /\ Len(history) >= sha
    BY <1>1, <1>3, <1>4 DEF Tip
  <2>2. QED
    BY <1>1, <2>1 DEF LacksSince
<1>5. <<>> \in Seq(Files \X DOMAIN Ast)
  OBVIOUS
<1>6. Fetched(history, sha, left, <<>>)
  BY <1>3, <1>4, <1>5 DEF Fetched
<1>7. QED
  BY <1>6 DEF left

\* One more file is fetched.
LEMMA OneFetched ==
    ASSUME NEW history, History(history), NEW sha \in 0 .. Len(history),
           NEW left, NEW read, Fetched(history, sha, left, read), left # <<>>,
           Has(history, Head(left))
    PROVE  Fetched(history, sha, Tail(left),
                   Append(read, <<Head(left), get_file(history, Head(left))>>))
<1> DEFINE f == Head(left)
           new == <<f, get_file(history, f)>>
           more == Append(read, new)
<1>1. left \in Seq(Files) /\ read \in Seq(Files \X DOMAIN Ast)
  BY DEF Fetched
<1>2. f \in Files /\ Tail(left) \in Seq(Files)
  BY <1>1
<1>3. /\ Tip(history) \in Trees /\ Len(history) \in 1 .. Len(history) /\ sha \in Nat
      /\ f \in DOMAIN Tip(history)
  BY TipIs DEF Has
<1>4. get_file(history, f) \in DOMAIN Ast
  BY <1>3, TreeIs DEF get_file
<1>5. HasSince(history, sha, f, get_file(history, f))
  BY <1>3, TipIs DEF HasSince, get_file, Tip
<1>6. more \in Seq(Files \X DOMAIN Ast)
  BY <1>1, <1>2, <1>4
<1>7. /\ DOMAIN read = 1 .. Len(read) /\ DOMAIN more = 1 .. Len(read) + 1 /\ Len(read) \in Nat
      /\ more[Len(read) + 1] = new
      /\ \A i \in DOMAIN read : more[i] = read[i]
  BY <1>1, <1>6
<1>8. new[1] = f /\ new[2] = get_file(history, f)
  OBVIOUS
<1> HIDE DEF more, new
<1>9. ASSUME NEW i \in DOMAIN more PROVE HasSince(history, sha, more[i][1], more[i][2])
  <2>1. CASE i \in DOMAIN read
    BY <2>1, <1>7 DEF Fetched
  <2>2. CASE i = Len(read) + 1
    BY <2>2, <1>5, <1>7, <1>8
  <2>3. QED
    BY <2>1, <2>2, <1>7
<1>10. \A x \in Range(left) : x = f \/ x \in Range(Tail(left))
  <2>1. ASSUME NEW j \in DOMAIN left, j # 1 PROVE left[j] \in Range(Tail(left))
    <3>1. j - 1 \in DOMAIN Tail(left) /\ Tail(left)[j - 1] = left[j]
      BY <1>1, <2>1
    <3>2. QED
      BY <3>1 DEF Range
  <2>2. left[1] = f
    OBVIOUS
  <2>3. QED
    BY <2>1, <2>2 DEF Range
<1>11. ASSUME NEW x \in Files
       PROVE  \/ x \in Range(Tail(left))
              \/ \E i \in DOMAIN more : more[i][1] = x
              \/ LacksSince(history, sha, x)
  <2>1. CASE x \in Range(left)
    <3>1. Len(read) + 1 \in DOMAIN more
      BY <1>7
    <3>2. QED
      BY <2>1, <3>1, <1>7, <1>8, <1>10
  <2>2. CASE \E i \in DOMAIN read : read[i][1] = x
    <3>1. PICK i \in DOMAIN read : read[i][1] = x
      BY <2>2
    <3>2. i \in DOMAIN more /\ more[i][1] = x
      BY <3>1, <1>7
    <3>3. QED
      BY <3>2
  <2>3. CASE LacksSince(history, sha, x)
    BY <2>3
  <2>4. QED
    BY <2>1, <2>2, <2>3 DEF Fetched
<1>12. Fetched(history, sha, Tail(left), more)
  BY <1>2, <1>6, <1>9, <1>11 DEF Fetched
<1>13. QED
  BY <1>12 DEF more, new

GraphGood(g, history) == NotAhead(g, history) /\ Joined(g) /\ Apart(g)

JobGood ==
    /\ DOMAIN job = {"at", "stamp", "left", "read", "graph", "human"}
    /\ job.stamp \in 0 .. Len(branch)
    /\ IF job.at = "fetch" THEN Fetched(branch, job.stamp, job.left, job.read)
                           ELSE job.read = <<>>
    /\ GraphGood(job.graph, branch)

SummaryGood == DOMAIN summary = DOMAIN NoSummary /\ summary.sha \in 0 .. Len(branch)

CallsGood ==
    /\ DOMAIN cache \subseteq {1} /\ \A i \in DOMAIN cache : Joined(cache[i].graph)
    /\ DOMAIN tool = Threads
    /\ \A t \in Threads : /\ DOMAIN tool[t] = DOMAIN NoCall
                          /\ tool[t].at = "store" => Joined(tool[t].graph)

GraphInv ==
    /\ History(branch)
    /\ JobGood
    /\ GraphGood(graphs.graph, branch)
    /\ SummaryGood
    /\ CallsGood

LEMMA EmptyGood == ASSUME NEW history, History(history) PROVE GraphGood(EmptyGraph, history)
<1>1. EmptyGraph.sha = 0 /\ EmptyGraph.nodes = {} /\ EmptyGraph.edges = {}
  BY DEF EmptyGraph, RepoGraph
<1>2. Len(history) \in Nat
  BY TipIs
<1>3. QED
  BY <1>1, <1>2 DEF GraphGood, NotAhead, Joined, Apart

LEMMA GraphInit == Init => GraphInv
<1> SUFFICES ASSUME Init PROVE GraphInv
  OBVIOUS
<1>1. PICK tree \in FirstTrees : branch = <<tree>>
  BY DEF Init, IndexInit
<1>2. tree \in Trees
  BY IndexAssumption
<1>3. History(branch) /\ Len(branch) = 1 /\ branch[1] = tree /\ Tip(branch) = tree
  BY <1>1, <1>2 DEF History, Tip
<1>4. job = Idle /\ cache = <<>> /\ tool = [t \in Threads |-> NoCall]
  BY DEF Init, IndexInit
<1>5. JobGood
  <2>1. /\ DOMAIN Idle = {"at", "stamp", "left", "read", "graph", "human"}
        /\ Idle.stamp = 0 /\ Idle.at = "idle" /\ Idle.read = <<>> /\ Idle.graph = EmptyGraph
    BY DEF Idle
  <2>2. QED
    BY <2>1, <1>3, <1>4, EmptyGood DEF JobGood
<1>6. CallsGood
  BY <1>4 DEF CallsGood, NoCall
<1>7. CASE graphs = [mtime |-> NoTime, state |-> "none", graph |-> EmptyGraph] /\ summary = NoSummary
  BY <1>3, <1>5, <1>6, <1>7, EmptyGood DEF GraphInv, SummaryGood, NoSummary
<1>8. ASSUME NEW g, g = build_graph_from_sources(1, Tip(branch)),
             graphs = [mtime |-> ExportTime + 1, state |-> "whole", graph |-> g],
             summary = [state |-> "whole", sha |-> 1, words |-> Keywords(g), human |-> 1]
      PROVE  GraphInv
  <2>1. /\ g.sha = 1 /\ Joined(g) /\ Apart(g)
        /\ \A f : ShownOf(g, f) = IF f \in DOMAIN tree THEN NodesOf(f, tree[f]) ELSE {}
    BY <1>2, <1>3, <1>8, Built, TreeIs
  <2>2. NotAhead(g, branch)
    BY <2>1, <1>3 DEF NotAhead, Shown
  <2>3. graphs.graph = g /\ SummaryGood
    BY <1>3, <1>8 DEF SummaryGood, NoSummary
  <2>4. QED
    BY <2>1, <2>2, <2>3, <1>3, <1>5, <1>6 DEF GraphInv, GraphGood
<1>9. QED
  BY <1>7, <1>8 DEF Init, IndexInit

LEMMA GraphGoodStays ==
    ASSUME NEW history, NEW later, History(history), History(later), GrownTo(history, later),
           NEW g, GraphGood(g, history)
    PROVE  GraphGood(g, later)
BY NotAheadStays DEF GraphGood

\* Developers push; nothing that was read becomes wrong.
LEMMA GraphPush == GraphInv /\ Push => GraphInv'
<1> SUFFICES ASSUME GraphInv, Push PROVE GraphInv'
  OBVIOUS
<1>0. History(branch) /\ JobGood /\ GraphGood(graphs.graph, branch) /\ SummaryGood /\ CallsGood
  BY DEF GraphInv
<1>1. UNCHANGED <<graphs, summary, job, cache, tool>>
  BY DEF Push
<1>2. PICK tree \in Trees : branch' = Append(branch, tree)
  <2>1. PICK f \in Files :
            \/ \E c \in Contents[f] :
                  branch' = Append(branch, [p \in DOMAIN Tip(branch) \cup {f} |->
                                               IF p = f THEN c ELSE get_file(branch, p)])
            \/ branch' = Append(branch, [p \in DOMAIN Tip(branch) \ {f} |-> Tip(branch)[p]])
    BY DEF Push
  <2>2. Tip(branch) \in Trees
    BY <1>0, TipIs
  <2>3. DOMAIN Tip(branch) \subseteq Files /\ \A p \in DOMAIN Tip(branch) : Tip(branch)[p] \in DOMAIN Ast
    BY <2>2, TreeIs
  <2>4. ASSUME NEW c \in Contents[f]
        PROVE  [p \in DOMAIN Tip(branch) \cup {f} |-> IF p = f THEN c ELSE get_file(branch, p)] \in Trees
    <3> DEFINE tree == [p \in DOMAIN Tip(branch) \cup {f} |-> IF p = f THEN c ELSE get_file(branch, p)]
    <3>1. c \in DOMAIN Ast
      BY <2>4, IndexAssumption
    <3>2. \A p \in DOMAIN tree : tree[p] \in DOMAIN Ast
      BY <2>3, <3>1 DEF get_file
    <3>3. DOMAIN tree \subseteq Files /\ tree = [p \in DOMAIN tree |-> tree[p]]
      BY <2>3
    <3> HIDE DEF tree
    <3>4. tree \in Trees
      BY <3>2, <3>3, TreeFrom
    <3>5. QED
      BY <3>4 DEF tree
  <2>5. [p \in DOMAIN Tip(branch) \ {f} |-> Tip(branch)[p]] \in Trees
    <3> DEFINE tree == [p \in DOMAIN Tip(branch) \ {f} |-> Tip(branch)[p]]
    <3>1. /\ \A p \in DOMAIN tree : tree[p] \in DOMAIN Ast
          /\ DOMAIN tree \subseteq Files /\ tree = [p \in DOMAIN tree |-> tree[p]]
      BY <2>3
    <3> HIDE DEF tree
    <3>2. tree \in Trees
      BY <3>1, TreeFrom
    <3>3. QED
      BY <3>2 DEF tree
  <2>6. QED
    BY <2>1, <2>4, <2>5
<1>3. /\ History(branch') /\ GrownTo(branch, branch')
      /\ Len(branch) \in Nat /\ Len(branch') = Len(branch) + 1
  BY <1>0, <1>2 DEF History, GrownTo
<1>4. JobGood'
  <2>1. GraphGood(job.graph, branch')
    BY <1>0, <1>3, GraphGoodStays DEF JobGood
  <2>2. job.at = "fetch" => Fetched(branch', job.stamp, job.left, job.read)
    BY <1>0, <1>3, FetchedStays DEF JobGood
  <2>3. QED
    BY <2>1, <2>2, <1>0, <1>1, <1>3 DEF JobGood
<1>5. GraphGood(graphs.graph, branch')
  BY <1>0, <1>3, GraphGoodStays
<1>6. SummaryGood'
  BY <1>0, <1>1, <1>3 DEF SummaryGood
<1>7. CallsGood'
  BY <1>0, <1>1 DEF CallsGood
<1>8. QED
  BY <1>1, <1>3, <1>4, <1>5, <1>6, <1>7 DEF GraphInv

LEMMA GraphJob == GraphInv /\ Job => GraphInv'
<1> SUFFICES ASSUME GraphInv, Job PROVE GraphInv'
  OBVIOUS
<1>0. History(branch) /\ JobGood /\ GraphGood(graphs.graph, branch) /\ SummaryGood /\ CallsGood
  BY DEF GraphInv
<1>a. UNCHANGED <<branch, cache>>
  BY DEF Job, reindex_all, Extract, Stamp, PublishAreas, PublishMeta, FrontendFails, ResolveHead,
         ListFiles, FetchFile, BuildGraph, WriteGraph, ReadExisting, TruncateSummary, WriteSummary,
         JobDies, JobAt, OnlyScreens, OnlyJob
<1>b. CallsGood'
  <2>1. CASE Extract \/ PublishAreas
    <3>1. Overtake
      BY <2>1 DEF Extract, PublishAreas
    <3>2. /\ DOMAIN tool' = Threads
          /\ \A t \in Threads : /\ DOMAIN tool'[t] = DOMAIN tool[t]
                                /\ tool'[t].at = tool[t].at /\ tool'[t].graph = tool[t].graph
      BY <3>1, <1>0 DEF Overtake, CallsGood, NoCall
    <3>3. QED
      BY <3>2, <1>0, <1>a DEF CallsGood
  <2>2. CASE ~ (Extract \/ PublishAreas)
    <3>1. UNCHANGED tool
      BY <2>2 DEF Job, reindex_all, Stamp, PublishMeta, FrontendFails, ResolveHead,
             ListFiles, FetchFile, BuildGraph, WriteGraph, ReadExisting, TruncateSummary, WriteSummary,
             JobDies, JobAt, OnlyScreens, OnlyJob
    <3>2. QED
      BY <3>1, <1>0, <1>a DEF CallsGood
  <2>3. QED
    BY <2>1, <2>2
<1>c. /\ Idle.stamp = 0 /\ Idle.at = "idle" /\ Idle.read = <<>> /\ Idle.graph = EmptyGraph
      /\ DOMAIN Idle = {"at", "stamp", "left", "read", "graph", "human"}
  BY DEF Idle
<1>d. Len(branch) \in Nat /\ Len(branch) >= 1 /\ GraphGood(EmptyGraph, branch)
  BY <1>0, EmptyGood, TipIs DEF History
\* The job goes on, or ends, with what it has.
<1>e. ASSUME DOMAIN job' = DOMAIN job, job'.stamp \in 0 .. Len(branch), job'.at # "fetch",
             job'.read = <<>>, job'.graph \in {job.graph, EmptyGraph}
      PROVE  JobGood'
  BY <1>e, <1>0, <1>a, <1>d DEF JobGood
<1>1. CASE reindex_all \/ Extract \/ Stamp \/ PublishAreas \/ PublishMeta \/ FrontendFails
  <2>1. UNCHANGED <<graphs, summary>>
    BY <1>1 DEF reindex_all, Extract, Stamp, PublishAreas, PublishMeta, FrontendFails, OnlyScreens
  <2>2. /\ DOMAIN job' = DOMAIN job /\ job'.stamp = job.stamp /\ job'.read = job.read
        /\ job'.graph = job.graph /\ job'.at # "fetch" /\ job.at # "fetch"
    BY <1>1, <1>0 DEF reindex_all, Extract, Stamp, PublishAreas, PublishMeta, FrontendFails, JobAt, JobGood
  <2>3. JobGood'
    BY <2>2, <1>0, <1>e DEF JobGood
  <2>4. QED
    BY <2>1, <2>3, <1>0, <1>a, <1>b DEF GraphInv, SummaryGood
<1>2. CASE ResolveHead \/ ReadExisting
  <2>1. UNCHANGED <<graphs, summary>> /\ job.at # "fetch"
    BY <1>2 DEF ResolveHead, ReadExisting, OnlyJob
  <2>2. JobGood'
    <3>1. CASE ResolveHead
      <4>1. PICK sha \in {get_commit(branch), 0} : job' = [job EXCEPT !.at = "list", !.stamp = sha]
        BY <3>1 DEF ResolveHead
      <4>2. sha \in 0 .. Len(branch)
        BY <1>d DEF get_commit
      <4>3. /\ DOMAIN job' = DOMAIN job /\ job'.stamp = sha /\ job'.read = job.read
            /\ job'.graph = job.graph /\ job'.at = "list"
        BY <4>1, <1>0 DEF JobGood
      <4>4. QED
        BY <2>1, <4>2, <4>3, <1>0, <1>e DEF JobGood
    <3>2. CASE ReadExisting
      <4>1. /\ DOMAIN job' = DOMAIN job /\ job'.stamp = job.stamp /\ job'.read = job.read
            /\ job'.graph = job.graph /\ job'.at = "write_summary"
        BY <3>2, <1>0 DEF ReadExisting, JobGood
      <4>2. QED
        BY <2>1, <4>1, <1>0, <1>e DEF JobGood
    <3>3. QED
      BY <1>2, <3>1, <3>2
  <2>3. QED
    BY <2>1, <2>2, <1>0, <1>a, <1>b DEF GraphInv, SummaryGood
<1>3. CASE ListFiles
  <2>1. /\ DOMAIN job' = DOMAIN job /\ job'.stamp = job.stamp /\ job'.read = <<>>
        /\ job'.graph = job.graph /\ job'.at = "fetch" /\ job'.left = list_source_files(branch)
    BY <1>3, <1>0 DEF ListFiles, JobGood
  <2>2. Fetched(branch, job.stamp, list_source_files(branch), <<>>)
    BY <1>0, Listed DEF JobGood
  <2>3. JobGood'
    BY <2>1, <2>2, <1>0, <1>a DEF JobGood
  <2>4. UNCHANGED <<graphs, summary>>
    BY <1>3 DEF ListFiles, OnlyJob
  <2>5. QED
    BY <2>3, <2>4, <1>0, <1>a, <1>b DEF GraphInv, SummaryGood
<1>4. CASE FetchFile
  <2>1. UNCHANGED <<graphs, summary>> /\ job.at = "fetch" /\ job.left # <<>>
    BY <1>4 DEF FetchFile, OnlyJob
  <2> DEFINE f == Head(job.left)
  <2>2. CASE Has(branch, f)
    <3>1. /\ DOMAIN job' = DOMAIN job /\ job'.stamp = job.stamp /\ job'.graph = job.graph
          /\ job'.at = "fetch" /\ job'.left = Tail(job.left)
          /\ job'.read = Append(job.read, <<f, get_file(branch, f)>>)
      BY <1>4, <2>2, <1>0 DEF FetchFile, JobGood
    <3>2. Fetched(branch, job.stamp, Tail(job.left), Append(job.read, <<f, get_file(branch, f)>>))
      BY <2>1, <2>2, <1>0, OneFetched DEF JobGood
    <3>3. JobGood'
      BY <3>1, <3>2, <1>0, <1>a DEF JobGood
    <3>4. QED
      BY <2>1, <3>3, <1>0, <1>a, <1>b DEF GraphInv, SummaryGood
  <2>3. CASE ~ Has(branch, f)
    <3>1. job' = Idle
      BY <1>4, <2>3 DEF FetchFile
    <3>2. JobGood'
      BY <3>1, <1>0, <1>c, <1>d, <1>e DEF JobGood
    <3>3. QED
      BY <2>1, <3>2, <1>0, <1>a, <1>b DEF GraphInv, SummaryGood
  <2>4. QED
    BY <2>2, <2>3
<1>5. CASE BuildGraph
  <2>1. job.at = "fetch" /\ job.left = <<>> /\ summary' = summary /\ graphs'.graph = EmptyGraph
    BY <1>5 DEF BuildGraph
  <2> DEFINE g == build_repo_graph(job.read, job.stamp)
  <2>2. /\ DOMAIN job' = DOMAIN job /\ job'.stamp = job.stamp /\ job'.read = <<>>
        /\ job'.graph = g /\ job'.at = "write_graph"
    BY <1>5, <1>0 DEF BuildGraph, JobGood
  <2>3. GraphGood(g, branch)
    BY <2>1, <1>0, BuiltFromFetched DEF JobGood, GraphGood
  <2> HIDE DEF g
  <2>4. JobGood'
    BY <2>2, <2>3, <1>0, <1>a DEF JobGood
  <2>5. QED
    BY <2>1, <2>4, <1>0, <1>a, <1>b, <1>d DEF GraphInv, SummaryGood
<1>6. CASE WriteGraph
  <2>1. job.at = "write_graph" /\ summary' = summary /\ graphs'.graph = job.graph
    BY <1>6 DEF WriteGraph, JobAt
  <2>2. /\ DOMAIN job' = DOMAIN job /\ job'.stamp = job.stamp /\ job'.read = job.read
        /\ job'.graph = job.graph /\ job'.at = "existing"
    BY <1>6, <1>0 DEF WriteGraph, JobAt, JobGood
  <2>3. JobGood'
    BY <2>1, <2>2, <1>0, <1>e DEF JobGood
  <2>4. GraphGood(graphs'.graph, branch)
    BY <2>1, <1>0 DEF JobGood
  <2>5. QED
    BY <2>1, <2>3, <2>4, <1>0, <1>a, <1>b DEF GraphInv, SummaryGood
<1>7. CASE TruncateSummary
  <2>1. job.at = "write_summary" /\ graphs' = graphs /\ summary' = [NoSummary EXCEPT !.state = "torn"]
    BY <1>7 DEF TruncateSummary, JobAt
  <2>2. /\ DOMAIN job' = DOMAIN job /\ job'.stamp = job.stamp /\ job'.read = job.read
        /\ job'.graph = job.graph /\ job'.at = "fill_summary"
    BY <1>7, <1>0 DEF TruncateSummary, JobAt, JobGood
  <2>3. JobGood'
    BY <2>1, <2>2, <1>0, <1>e DEF JobGood
  <2>4. SummaryGood'
    BY <2>1, <1>a, <1>d DEF SummaryGood, NoSummary
  <2>5. QED
    BY <2>1, <2>3, <2>4, <1>0, <1>a, <1>b DEF GraphInv
<1>8. CASE WriteSummary
  <2>1. job' = Idle /\ graphs' = graphs /\ summary' = generate_summary(job.graph, job.stamp, job.human)
    BY <1>8 DEF WriteSummary
  <2>2. JobGood'
    BY <2>1, <1>0, <1>c, <1>d, <1>e DEF JobGood
  <2>3. SummaryGood'
    BY <2>1, <1>0, <1>a DEF SummaryGood, generate_summary, NoSummary, JobGood
  <2>4. QED
    BY <2>1, <2>2, <2>3, <1>0, <1>a, <1>b DEF GraphInv
<1>9. CASE JobDies
  <2>1. job' = Idle /\ UNCHANGED <<graphs, summary>>
    BY <1>9 DEF JobDies
  <2>2. JobGood'
    BY <2>1, <1>0, <1>c, <1>d, <1>e DEF JobGood
  <2>3. QED
    BY <2>1, <2>2, <1>0, <1>a, <1>b DEF GraphInv, SummaryGood
<1>10. QED
  BY <1>1, <1>2, <1>3, <1>4, <1>5, <1>6, <1>7, <1>8, <1>9 DEF Job

LEMMA GraphTools == GraphInv /\ Tools => GraphInv'
<1> SUFFICES ASSUME GraphInv, Tools PROVE GraphInv'
  OBVIOUS
<1>0. History(branch) /\ JobGood /\ GraphGood(graphs.graph, branch) /\ SummaryGood /\ CallsGood
  BY DEF GraphInv
<1>1. UNCHANGED <<branch, graphs, summary, job>>
  BY DEF Tools, LoadGraph, ReadGraph, StoreGraph, FindScreen, ReadStamp, Restart, OnlyTools
<1>2. SUFFICES CallsGood'
  BY <1>0, <1>1 DEF GraphInv, JobGood, SummaryGood
<1>3. ASSUME NEW t \in Threads, NEW call, tool' = [tool EXCEPT ![t] = call],
             DOMAIN call = DOMAIN NoCall, call.at = "store" => Joined(call.graph), cache' = cache
      PROVE  CallsGood'
  BY <1>3, <1>0 DEF CallsGood
<1>4. ASSUME NEW t \in Threads, LoadGraph(t) PROVE CallsGood'
  <2>1. cache' = cache
    BY <1>4 DEF LoadGraph
  <2>2. CASE \E a : tool' = [tool EXCEPT ![t] = [NoCall EXCEPT !.at = "answered", !.answer = a]]
    BY <2>1, <2>2, <1>3 DEF NoCall
  <2>3. CASE \E q, m : tool' = [tool EXCEPT ![t] = [NoCall EXCEPT !.at = "read", !.query = q, !.mtime = m]]
    BY <2>1, <2>3, <1>3 DEF NoCall
  <2>4. QED
    BY <1>4, <2>2, <2>3 DEF LoadGraph, Answered
<1>5. ASSUME NEW t \in Threads, ReadGraph(t) PROVE CallsGood'
  <2>1. cache' = cache
    BY <1>5 DEF ReadGraph
  <2>2. CASE tool' = [tool EXCEPT ![t] = NoCall]
    BY <2>1, <2>2, <1>3 DEF NoCall
  <2>3. CASE tool' = [tool EXCEPT ![t] = [tool[t] EXCEPT !.at = "store", !.graph = OnDisk]]
    <3>1. Joined(OnDisk)
      <4>1. Joined(graphs.graph) /\ Joined(EmptyGraph)
        BY <1>0, EmptyGood DEF GraphGood
      <4>2. QED
        BY <4>1, Imported DEF OnDisk
    <3> DEFINE call == [tool[t] EXCEPT !.at = "store", !.graph = OnDisk]
    <3>2. DOMAIN call = DOMAIN NoCall /\ call.graph = OnDisk
      BY <1>0 DEF CallsGood, NoCall
    <3>3. tool' = [tool EXCEPT ![t] = call]
      BY <2>3
    <3> HIDE DEF call
    <3>4. QED
      BY <2>1, <3>1, <3>2, <3>3, <1>3
  <2>4. QED
    BY <1>5, <2>2, <2>3 DEF ReadGraph
<1>6. ASSUME NEW t \in Threads, StoreGraph(t) PROVE CallsGood'
  <2>1. tool[t].at = "store" /\ cache' = <<[mtime |-> tool[t].mtime, graph |-> tool[t].graph]>>
    BY <1>6 DEF StoreGraph
  <2>2. PICK a : tool' = [tool EXCEPT ![t] = [NoCall EXCEPT !.at = "answered", !.answer = a]]
    BY <1>6 DEF StoreGraph, Answered
  <2>3. DOMAIN cache' = {1} /\ cache'[1].graph = tool[t].graph /\ Joined(tool[t].graph)
    BY <2>1, <1>0 DEF CallsGood
  <2>4. /\ DOMAIN tool' = Threads
        /\ \A s \in Threads : /\ DOMAIN tool'[s] = DOMAIN NoCall
                              /\ tool'[s].at = "store" => Joined(tool'[s].graph)
    BY <2>2, <1>0 DEF CallsGood, NoCall
  <2>5. QED
    BY <2>3, <2>4 DEF CallsGood
<1>7. ASSUME NEW t \in Threads, FindScreen(t) PROVE CallsGood'
  <2>1. cache' = cache
    BY <1>7 DEF FindScreen
  <2>2. CASE tool' = [tool EXCEPT ![t] = NoCall]
    BY <2>1, <2>2, <1>3 DEF NoCall
  <2>3. CASE tool' = [tool EXCEPT ![t] = [NoCall EXCEPT !.at = "screen", !.areas = Published("areas")]]
    BY <2>1, <2>3, <1>3 DEF NoCall
  <2>4. QED
    BY <1>7, <2>2, <2>3 DEF FindScreen
<1>8. ASSUME NEW t \in Threads, ReadStamp(t) PROVE CallsGood'
  <2>1. cache' = cache
    BY <1>8 DEF ReadStamp
  <2>2. PICK answer, overtaken :
            tool' = [tool EXCEPT ![t] = [tool[t] EXCEPT !.at = "answered", !.answer = answer,
                                                        !.overtaken = overtaken]]
    BY <1>8 DEF ReadStamp
  <2>3. QED
    BY <2>1, <2>2, <1>0, <1>3 DEF CallsGood, NoCall
<1>9. CASE Restart
  BY <1>9 DEF Restart, CallsGood, NoCall
<1>10. QED
  BY <1>4, <1>5, <1>6, <1>7, <1>8, <1>9 DEF Tools

LEMMA GraphStep == GraphInv /\ [Next]_vars => GraphInv'
<1> SUFFICES ASSUME GraphInv, [Next]_vars PROVE GraphInv'
  OBVIOUS
<1>1. ASSUME UNCHANGED <<branch, graphs, job, cache, tool>>,
             DOMAIN summary' = DOMAIN summary, summary'.sha = summary.sha
      PROVE  GraphInv'
  BY <1>1 DEF GraphInv, JobGood, SummaryGood, CallsGood
<1>2. CASE investigate
  BY <1>1, <1>2 DEF investigate, Start, FetchElsewhere, _confirm_frame, Blame, FindMergeRequests,
                    GitLabRaises, Synthesize, indexVars
<1>3. CASE PushFrontend
  BY <1>1, <1>3 DEF PushFrontend
<1>4. CASE EditSummary
  <2>1. DOMAIN summary' = DOMAIN summary /\ summary'.sha = summary.sha
    BY <1>4 DEF EditSummary, GraphInv, SummaryGood, NoSummary
  <2>2. QED
    BY <2>1, <1>1, <1>4 DEF EditSummary
<1>5. CASE UNCHANGED vars
  BY <1>1, <1>5 DEF vars, indexVars
<1>6. QED
  BY <1>2, <1>3, <1>4, <1>5, GraphPush, GraphJob, GraphTools DEF Next, IndexNext

\* The stamp on the graph never claims a commit that the sources had not been
\* read at, whatever is pushed while the job fetches them one by one (reindex.py).
THEOREM StampNeverAhead == Spec => []StampNotAhead
<1>1. GraphInv => StampNotAhead
  BY DEF GraphInv, GraphGood, NotAhead, StampNotAhead, Shown, ShownOf
<1>2. QED
  BY <1>1, GraphInit, GraphStep, PTL DEF Spec

(***************************************************************************)
(* The queries of the graph.                                               *)
(***************************************************************************)

Behind(edges, R) == {e.src : e \in {d \in edges : d.dst \in R}}

LEMMA ChainWalk ==
    ASSUME NEW edges, NEW targets, NEW n \in Nat
    PROVE  \E w : /\ w[n] = ChainsTo(edges, targets, n)
                  /\ w[0] = targets
                  /\ \A k \in 1 .. n : w[k] = Behind(edges, w[k - 1])
<1> DEFINE back[j \in 0 .. n] ==
             IF j = 0
             THEN targets
             ELSE LET reached == back[j - 1] IN {e.src : e \in {d \in edges : d.dst \in reached}}
           X == targets \cup {e.src : e \in edges}
           S == SUBSET X
           Step == [R \in S |-> Behind(edges, R)]
<1>1. Step \in [S -> S]
  BY DEF Behind
<1>2. targets \in S
  OBVIOUS
<1> HIDE DEF S, Step
<1>3. PICK w \in [0 .. n -> S] : w = [k \in 0 .. n |-> IF k = 0 THEN targets ELSE Step[w[k - 1]]]
  BY <1>1, <1>2, WalkExists
<1>4. ASSUME NEW k \in 0 .. n, k # 0 PROVE Step[w[k - 1]] = Behind(edges, w[k - 1])
  <2>1. w[k - 1] \in S
    BY <1>4
  <2>2. QED
    BY <2>1 DEF Step
<1>5. w = [j \in 0 .. n |-> IF j = 0 THEN targets
                            ELSE {e.src : e \in {d \in edges : d.dst \in w[j - 1]}}]
  <2>1. ASSUME NEW j \in 0 .. n
        PROVE  w[j] = IF j = 0 THEN targets ELSE {e.src : e \in {d \in edges : d.dst \in w[j - 1]}}
    BY <1>3, <1>4 DEF Behind
  <2>2. QED
    BY <2>1
<1>6. back = [j \in 0 .. n |-> IF j = 0 THEN targets
                               ELSE {e.src : e \in {d \in edges : d.dst \in back[j - 1]}}]
  BY <1>5
<1>7. back[n] = ChainsTo(edges, targets, n)
  BY DEF ChainsTo
<1> HIDE DEF back
<1>8. back[0] = targets
  <2>1. 0 \in 0 .. n
    OBVIOUS
  <2>2. QED
    BY <1>6, <2>1
<1>9. ASSUME NEW k \in 1 .. n PROVE back[k] = Behind(edges, back[k - 1])
  <2>1. k \in 0 .. n /\ k # 0
    OBVIOUS
  <2> DEFINE f(j) == IF j = 0 THEN targets ELSE {e.src : e \in {d \in edges : d.dst \in back[j - 1]}}
  <2>2. back = [j \in 0 .. n |-> f(j)]
    BY <1>6
  <2>3. f(k) = Behind(edges, back[k - 1])
    BY <2>1 DEF Behind
  <2> HIDE DEF f
  <2>4. back[k] = f(k)
    BY <2>1, <2>2
  <2>5. QED
    BY <2>3, <2>4
<1>10. QED
  BY <1>7, <1>8, <1>9

\* One link more.
LEMMA ChainSteps ==
    ASSUME NEW edges, NEW targets
    PROVE  /\ ChainsTo(edges, targets, 0) = targets
           /\ \A n \in Nat : ChainsTo(edges, targets, n + 1) = Behind(edges, ChainsTo(edges, targets, n))
<1>1. ASSUME NEW n \in Nat
      PROVE  ChainsTo(edges, targets, n + 1) = Behind(edges, ChainsTo(edges, targets, n))
  <2>1. PICK v : /\ v[n] = ChainsTo(edges, targets, n)
                 /\ v[0] = targets
                 /\ \A k \in 1 .. n : v[k] = Behind(edges, v[k - 1])
    BY ChainWalk
  <2>2. PICK w : /\ w[n + 1] = ChainsTo(edges, targets, n + 1)
                 /\ w[0] = targets
                 /\ \A k \in 1 .. n + 1 : w[k] = Behind(edges, w[k - 1])
    BY ChainWalk
  <2> DEFINE Same == {k \in Nat : k <= n => v[k] = w[k]}
  <2>3. 0 \in Same
    BY <2>1, <2>2
  <2>4. ASSUME NEW k \in Nat, k \in Same PROVE k + 1 \in Same
    BY <2>1, <2>2, <2>4
  <2> HIDE DEF Same
  <2>5. n \in Same
    BY <2>3, <2>4, Counting
  <2>6. v[n] = w[n]
    BY <2>5 DEF Same
  <2>7. QED
    BY <2>1, <2>2, <2>6
<1>2. ChainsTo(edges, targets, 0) = targets
  BY ChainWalk
<1>3. QED
  BY <1>1, <1>2

\* w goes through the rounds from the targets.
Rounds(edges, targets, X, n, w) ==
    /\ w[0] = [seen |-> {}, frontier |-> targets]
    /\ \A k \in 0 .. n : w[k] \in [seen : SUBSET X, frontier : SUBSET X]
    /\ \A k \in 1 .. n : w[k] = Widen(edges, w[k - 1])

BlastRounds(g, symbol, n, w) ==
    /\ transitive_callers(g, symbol, n, FALSE) = w[n].seen \cap Ids(g)
    /\ Rounds(Usable(g, FALSE), resolve(g, symbol), Ids(g), n, w)

\* The rounds of transitive_callers, by their recurrence.
LEMMA BlastWalk ==
    ASSUME NEW g, Joined(g), NEW symbol, NEW n \in Nat
    PROVE  \E w : BlastRounds(g, symbol, n, w)
<1> DEFINE edges == Usable(g, FALSE)
           base == [seen |-> {}, frontier |-> resolve(g, symbol)]
           walk[depth \in 0 .. n] ==
             IF depth = 0
             THEN [seen |-> {}, frontier |-> resolve(g, symbol)]
             ELSE LET before == walk[depth - 1] IN Widen(edges, before)
           S == [seen : SUBSET Ids(g), frontier : SUBSET Ids(g)]
           Step == [s \in S |-> Widen(edges, s)]
<1>7. transitive_callers(g, symbol, n, FALSE) = walk[n].seen \cap Ids(g)
  BY DEF transitive_callers
<1>1. Step \in [S -> S]
  <2>1. \A e \in edges : e.src \in Ids(g)
    BY DEF Usable, Joined
  <2> HIDE DEF edges
  <2>2. ASSUME NEW s \in S PROVE Widen(edges, s) \in S
    BY <2>1 DEF Widen
  <2> HIDE DEF S
  <2>3. QED
    BY <2>2
<1>2. base \in S
  BY DEF resolve, Ids
<1> HIDE DEF S, Step, base
<1>3. PICK w \in [0 .. n -> S] : w = [k \in 0 .. n |-> IF k = 0 THEN base ELSE Step[w[k - 1]]]
  BY <1>1, <1>2, WalkExists
<1> HIDE DEF edges
<1> DEFINE f(v, k) == IF k = 0 THEN base ELSE Widen(edges, v[k - 1])
<1>4. ASSUME NEW k \in 0 .. n PROVE w[k] = f(w, k)
  <2>1. CASE k = 0
    BY <1>3, <2>1
  <2>2. CASE k # 0
    <3>1. w[k - 1] \in S
      BY <2>2
    <3>2. w[k] = Step[w[k - 1]]
      BY <2>2, <1>3
    <3>3. QED
      BY <2>2, <3>1, <3>2 DEF Step
  <2>3. QED
    BY <2>1, <2>2
<1>5. w = [k \in 0 .. n |-> f(w, k)]
  <2> HIDE DEF f
  <2>1. w = [k \in 0 .. n |-> w[k]]
    OBVIOUS
  <2>2. QED
    BY <2>1, <1>4
<1>6. walk = [k \in 0 .. n |-> f(walk, k)]
  BY <1>5 DEF base
<1>a. \A k \in 0 .. n : walk[k] = f(walk, k)
  <2> HIDE DEF f, walk
  <2>1. QED
    BY <1>6
<1> HIDE DEF walk
<1>b. walk[0] = base
  <2>1. 0 \in 0 .. n
    OBVIOUS
  <2>2. QED
    BY <1>a, <2>1
<1>c. ASSUME NEW k \in 1 .. n PROVE walk[k] = Widen(edges, walk[k - 1])
  <2>1. k \in 0 .. n /\ k # 0
    OBVIOUS
  <2>2. QED
    BY <1>a, <2>1
<1>d. ASSUME NEW k \in 0 .. n PROVE walk[k] \in S
  <2> DEFINE In == {j \in Nat : j <= n => walk[j] \in S}
  <2>1. 0 \in In
    BY <1>b, <1>2
  <2>2. ASSUME NEW j \in Nat, j \in In PROVE j + 1 \in In
    <3>1. SUFFICES ASSUME j + 1 <= n PROVE walk[j + 1] \in S
      OBVIOUS
    <3>2. walk[j] \in S /\ Step[walk[j]] \in S
      BY <2>2, <3>1, <1>1
    <3>3. walk[j + 1] = Widen(edges, walk[j])
      BY <1>c, <3>1
    <3>4. QED
      BY <3>2, <3>3 DEF Step
  <2> HIDE DEF In
  <2>3. k \in In
    BY <2>1, <2>2, Counting
  <2>4. QED
    BY <2>3 DEF In
<1>8. QED
  <2>1. Rounds(edges, resolve(g, symbol), Ids(g), n, walk)
    BY <1>b, <1>c, <1>d DEF S, base, Rounds
  <2>2. QED
    BY <2>1, <1>7, Zenon DEF BlastRounds, edges

\* Whatever has a chain of at most n links to the targets, and they themselves.
Chained(edges, targets, n) == UNION {ChainsTo(edges, targets, k) : k \in 0 .. n}

\* What n rounds have found: every chain of at most n links.
LEMMA RoundsReach ==
    ASSUME NEW edges, NEW targets, NEW X, NEW n \in Nat, NEW w,
           Rounds(edges, targets, X, n, w)
    PROVE  /\ w[n].seen \subseteq X
           /\ w[n].seen \cup targets = Chained(edges, targets, n)
<1>0. /\ w[0] = [seen |-> {}, frontier |-> targets]
      /\ \A k \in 0 .. n : w[k] \in [seen : SUBSET X, frontier : SUBSET X]
      /\ \A k \in 1 .. n : w[k] = Widen(edges, w[k - 1])
  BY DEF Rounds
<1> DEFINE Ch(k) == ChainsTo(edges, targets, k)
           U(k) == UNION {Ch(j) : j \in 0 .. k}
<1>1. Ch(0) = targets /\ \A k \in Nat : Ch(k + 1) = Behind(edges, Ch(k))
  BY ChainSteps
<1> HIDE DEF Ch
<1>3. U(0) = targets /\ \A k \in Nat : U(k + 1) = U(k) \cup Ch(k + 1) /\ Ch(k) \subseteq U(k)
  <2>1. U(0) = targets
    BY <1>1
  <2>2. ASSUME NEW k \in Nat PROVE U(k + 1) = U(k) \cup Ch(k + 1) /\ Ch(k) \subseteq U(k)
    <3>1. \A j : j \in 0 .. k + 1 <=> j \in 0 .. k \/ j = k + 1
      OBVIOUS
    <3>2. k \in 0 .. k
      OBVIOUS
    <3>3. QED
      BY <3>1, <3>2
  <2>3. QED
    BY <2>1, <2>2
<1> HIDE DEF U
<1> DEFINE Inv(k) == /\ w[k].seen \cup targets = U(k)
                     /\ w[k].frontier \subseteq Ch(k)
                     /\ Behind(edges, U(k) \ w[k].frontier) \subseteq U(k)
           In == {k \in Nat : k <= n => Inv(k)}
<1>4. 0 \in In
  <2>1. Behind(edges, {}) = {}
    BY DEF Behind
  <2>2. U(0) \ w[0].frontier = {}
    BY <1>0, <1>3
  <2>3. QED
    <3>1. w[0].seen = {} /\ w[0].frontier = targets
      BY <1>0
    <3>2. Behind(edges, U(0) \ w[0].frontier) = {}
      BY <2>1, <2>2
    <3>3. Inv(0)
      BY <1>1, <1>3, <3>1, <3>2
    <3>4. QED
      BY <3>3
<1>5. ASSUME NEW k \in Nat, k \in In PROVE k + 1 \in In
  <2> HIDE DEF Inv
  <2>1. SUFFICES ASSUME k + 1 <= n PROVE Inv(k + 1)
    OBVIOUS
  <2>2. Inv(k)
    BY <1>5, <2>1
  <2> USE DEF Inv
  <2>3. w[k + 1] = Widen(edges, w[k]) /\ w[k] \in [seen : SUBSET X, frontier : SUBSET X]
    <3>1. k + 1 \in 1 .. n /\ k \in 0 .. n /\ (k + 1) - 1 = k
      BY <2>1
    <3>2. QED
      BY <3>1, <1>0
  <2> DEFINE nxt == {e.src : e \in {d \in edges : /\ d.dst \in w[k].frontier
                                                  /\ d.src \notin w[k].seen \cup w[k].frontier}}
  <2>4. w[k + 1].seen = w[k].seen \cup nxt /\ w[k + 1].frontier = nxt
    BY <2>3 DEF Widen
  <2>5. nxt \subseteq Ch(k + 1)
    BY <2>2, <1>1 DEF Behind
  <2>6. w[k].frontier \subseteq U(k) /\ w[k].seen \subseteq U(k)
    BY <2>2, <1>3
  <2>7. Behind(edges, U(k)) \subseteq U(k) \cup nxt
    <3>1. SUFFICES ASSUME NEW e \in edges, e.dst \in U(k) PROVE e.src \in U(k) \cup nxt
      BY DEF Behind
    <3>2. CASE e.dst \in w[k].frontier
      BY <3>2, <2>6
    <3>3. CASE e.dst \notin w[k].frontier
      BY <3>1, <3>3, <2>2 DEF Behind
    <3>4. QED
      BY <3>2, <3>3
  <2> HIDE DEF nxt
  <2>8. Ch(k + 1) \subseteq U(k) \cup nxt
    <3>1. Ch(k + 1) = Behind(edges, Ch(k)) /\ Ch(k) \subseteq U(k)
      BY <1>1, <1>3
    <3>2. QED
      BY <3>1, <2>7 DEF Behind
  <2>9. U(k + 1) = U(k) \cup nxt
    BY <2>5, <2>8, <1>3
  <2>10. Behind(edges, U(k + 1) \ nxt) \subseteq U(k + 1)
    <3>1. U(k + 1) \ nxt \subseteq U(k)
      BY <2>9
    <3>2. Behind(edges, U(k + 1) \ nxt) \subseteq Behind(edges, U(k))
      BY <3>1 DEF Behind
    <3>3. QED
      BY <3>2, <2>7, <2>9
  <2>11. QED
    BY <2>2, <2>4, <2>5, <2>9, <2>10
<1> HIDE DEF In
<1>6. n \in In
  BY <1>4, <1>5, Counting
<1>7. w[n].seen \cup targets = U(n)
  BY <1>6 DEF In
<1>8. w[n].seen \subseteq X
  <2>1. n \in 0 .. n
    OBVIOUS
  <2>2. QED
    BY <1>0, <2>1
<1>9. QED
  BY <1>7, <1>8 DEF U, Ch, Chained

LEMMA BlastIs ==
    ASSUME NEW g, Joined(g), NEW symbol, NEW n \in Nat
    PROVE  transitive_callers(g, symbol, n, FALSE) \ resolve(g, symbol)
              = (UNION {ChainsTo(Usable(g, FALSE), resolve(g, symbol), k) : k \in 1 .. n})
                  \ resolve(g, symbol)
<1>1. PICK w : BlastRounds(g, symbol, n, w)
  BY BlastWalk
<1> DEFINE targets == resolve(g, symbol)
           edges == Usable(g, FALSE)
           Ch(k) == ChainsTo(edges, targets, k)
<1>2. Ch(0) = targets
  BY ChainSteps
<1>3. /\ w[n].seen \subseteq Ids(g)
      /\ w[n].seen \cup targets = Chained(edges, targets, n)
  <2>1. Rounds(edges, targets, Ids(g), n, w)
    BY <1>1, Zenon DEF BlastRounds
  <2> HIDE DEF targets, edges, Ch
  <2>2. w[n].seen \subseteq Ids(g)
    BY <2>1, RoundsReach
  <2>3. w[n].seen \cup targets = Chained(edges, targets, n)
    BY <2>1, RoundsReach
  <2>4. QED
    BY <2>2, <2>3
<1>a. Chained(edges, targets, n) = UNION {Ch(k) : k \in 0 .. n}
  BY Zenon DEF Chained
<1> HIDE DEF Ch, targets
<1>4. UNION {Ch(k) : k \in 0 .. n} = targets \cup UNION {Ch(k) : k \in 1 .. n}
  <2>1. \A j : j \in 0 .. n <=> j \in 1 .. n \/ j = 0
    OBVIOUS
  <2>2. QED
    BY <2>1, <1>2
<1>6. transitive_callers(g, symbol, n, FALSE) = w[n].seen
  <2>1. transitive_callers(g, symbol, n, FALSE) = w[n].seen \cap Ids(g)
    BY <1>1, Zenon DEF BlastRounds
  <2>2. w[n].seen \cap Ids(g) = w[n].seen
    BY <1>3
  <2>3. QED
    BY <2>1, <2>2, Zenon
<1> DEFINE reached == UNION {Ch(k) : k \in 1 .. n}
<1> HIDE DEF reached
<1>7. w[n].seen \ targets = reached \ targets
  BY <1>3, <1>a, <1>4 DEF reached
<1> DEFINE found == transitive_callers(g, symbol, n, FALSE)
           chained == UNION {ChainsTo(Usable(g, FALSE), resolve(g, symbol), k) : k \in 1 .. n}
<1>8. reached = chained
  BY Zenon DEF reached, Ch, targets
<1>9. found = w[n].seen
  BY <1>6, Zenon
<1> HIDE DEF found, chained
<1>10. found \ targets = chained \ targets
  BY <1>7, <1>8, <1>9
<1>11. QED
  BY <1>10 DEF targets, found, chained

LEMMA ResolveIs ==
    ASSUME NEW g, Apart(g), NEW n \in g.nodes
    PROVE  /\ resolve(g, n.qualname)
                = {m.id : m \in {k \in g.nodes : k.qualname = n.qualname \/ <<k.name>> = n.qualname}}
           /\ resolve(g, n.qualname) \subseteq Ids(g)
<1>1. n.qualname \notin Ids(g)
  BY DEF Apart
<1>2. resolve(g, n.qualname) = {m.id : m \in {k \in g.nodes : n.qualname \in {<<k.name>>, k.qualname}}}
  BY <1>1 DEF resolve
<1>3. \A k : n.qualname \in {<<k.name>>, k.qualname} <=> (k.qualname = n.qualname \/ <<k.name>> = n.qualname)
  OBVIOUS
<1>4. QED
  BY <1>2, <1>3 DEF Ids

LEMMA FirstOf ==
    ASSUME NEW A
    PROVE  /\ {c[1] : c \in {<<e.src, e.provenance>> : e \in A}} = {e.src : e \in A}
           /\ {c[1] : c \in {<<e.dst, e.provenance>> : e \in A}} = {e.dst : e \in A}
<1>1. \A e : <<e.src, e.provenance>>[1] = e.src /\ <<e.dst, e.provenance>>[1] = e.dst
  OBVIOUS
<1> DEFINE P == {<<e.src, e.provenance>> : e \in A}
           Q == {<<e.dst, e.provenance>> : e \in A}
<1>2. ASSUME NEW x PROVE x \in {c[1] : c \in P} <=> x \in {e.src : e \in A}
  <2>1. \A c \in P : \E e \in A : c = <<e.src, e.provenance>>
    OBVIOUS
  <2>2. \A e \in A : <<e.src, e.provenance>> \in P
    OBVIOUS
  <2> HIDE DEF P
  <2>3. ASSUME NEW c \in P PROVE c[1] \in {e.src : e \in A}
    BY <2>1, <1>1
  <2>4. ASSUME NEW e \in A PROVE e.src \in {c[1] : c \in P}
    <3>1. <<e.src, e.provenance>>[1] = e.src /\ <<e.dst, e.provenance>>[1] = e.dst
      OBVIOUS
    <3>2. QED
      BY <2>2, <3>1, Zenon
  <2>5. QED
    BY <2>3, <2>4, Zenon
<1>3. ASSUME NEW x PROVE x \in {c[1] : c \in Q} <=> x \in {e.dst : e \in A}
  <2>1. \A c \in Q : \E e \in A : c = <<e.dst, e.provenance>>
    OBVIOUS
  <2>2. \A e \in A : <<e.dst, e.provenance>> \in Q
    OBVIOUS
  <2> HIDE DEF Q
  <2>3. ASSUME NEW c \in Q PROVE c[1] \in {e.dst : e \in A}
    BY <2>1, <1>1
  <2>4. ASSUME NEW e \in A PROVE e.dst \in {c[1] : c \in Q}
    <3>1. <<e.src, e.provenance>>[1] = e.src /\ <<e.dst, e.provenance>>[1] = e.dst
      OBVIOUS
    <3>2. QED
      BY <2>2, <3>1, Zenon
  <2>5. QED
    BY <2>3, <2>4, Zenon
<1> HIDE DEF P, Q
<1>4. {c[1] : c \in P} = {e.src : e \in A} /\ {c[1] : c \in Q} = {e.dst : e \in A}
  BY <1>2, <1>3
<1>5. QED
  BY <1>4 DEF P, Q

LEMMA NeighboursAre ==
    ASSUME NEW g, Joined(g), NEW symbol, resolve(g, symbol) \subseteq Ids(g)
    PROVE  /\ {c[1] : c \in callers_of(g, symbol)} = {e.src : e \in {d \in g.edges : d.dst \in resolve(g, symbol)}}
           /\ {c[1] : c \in callees_of(g, symbol)} = {e.dst : e \in {d \in g.edges : d.src \in resolve(g, symbol)}}
<1>1. \A e \in g.edges : e.src \in Ids(g) /\ e.dst \in Ids(g)
  BY DEF Joined
<1>2. {d \in g.edges : d.dst \in resolve(g, symbol) /\ d.src \in Ids(g)} = {d \in g.edges : d.dst \in resolve(g, symbol)}
  BY <1>1
<1>3. {d \in g.edges : d.src \in resolve(g, symbol) /\ d.dst \in Ids(g)} = {d \in g.edges : d.src \in resolve(g, symbol)}
  BY <1>1
<1> DEFINE A == {d \in g.edges : d.dst \in resolve(g, symbol)}
           B == {d \in g.edges : d.src \in resolve(g, symbol)}
<1>4. callers_of(g, symbol) = {<<e.src, e.provenance>> : e \in A}
  BY <1>2 DEF callers_of
<1>5. callees_of(g, symbol) = {<<e.dst, e.provenance>> : e \in B}
  BY <1>3 DEF callees_of
<1> HIDE DEF A, B
<1>6. {c[1] : c \in {<<e.src, e.provenance>> : e \in A}} = {e.src : e \in A}
  BY FirstOf
<1>7. {c[1] : c \in {<<e.dst, e.provenance>> : e \in B}} = {e.dst : e \in B}
  BY FirstOf
<1>8. QED
  BY <1>4, <1>5, <1>6, <1>7 DEF A, B

Around(g, R) == {e.dst : e \in {d \in g.edges : d.src \in R}} \cup {e.src : e \in {d \in g.edges : d.dst \in R}}

\* One step around the symbol.
LEMMA SubgraphHolds ==
    ASSUME NEW g, Joined(g), NEW symbol, resolve(g, symbol) \subseteq Ids(g)
    PROVE  Around(g, resolve(g, symbol)) \subseteq get_subgraph(g, symbol, 1).nodes
<1> DEFINE targets == resolve(g, symbol)
           around(R) == {e.dst : e \in {d \in g.edges : d.src \in R}}
                        \cup {e.src : e \in {d \in g.edges : d.dst \in R}}
           walk[k \in 0 .. 1] ==
             IF k = 0
             THEN [keep |-> resolve(g, symbol), frontier |-> resolve(g, symbol)]
             ELSE LET before == walk[k - 1]
                      nxt == around(before.frontier) \ before.keep
                  IN  [keep |-> before.keep \cup nxt, frontier |-> nxt]
<1>1. get_subgraph(g, symbol, 1).nodes = walk[1].keep \cap Ids(g)
  BY DEF get_subgraph
<1> DEFINE first == [keep |-> targets, frontier |-> targets]
           second == [keep |-> targets \cup (around(targets) \ targets), frontier |-> around(targets) \ targets]
           w == [k \in 0 .. 1 |-> IF k = 0 THEN first ELSE second]
           f(v, k) == IF k = 0
                      THEN [keep |-> resolve(g, symbol), frontier |-> resolve(g, symbol)]
                      ELSE [keep |-> v[k - 1].keep \cup (around(v[k - 1].frontier) \ v[k - 1].keep),
                            frontier |-> around(v[k - 1].frontier) \ v[k - 1].keep]
<1>2. \A k \in 0 .. 1 : w[k] = f(w, k)
  <2> HIDE DEF around, targets
  <2>1. w[0] = first /\ w[1] = second
    OBVIOUS
  <2>2. \A k \in 0 .. 1 : k = 0 \/ k = 1
    OBVIOUS
  <2> HIDE DEF w
  <2>3. w[0] = f(w, 0)
    BY <2>1 DEF targets
  <2>4. w[1] = f(w, 1)
    BY <2>1
  <2> HIDE DEF f
  <2>5. QED
    BY <2>2, <2>3, <2>4
<1>3. w = [k \in 0 .. 1 |-> f(w, k)]
  <2> HIDE DEF f
  <2>1. w = [k \in 0 .. 1 |-> w[k]]
    OBVIOUS
  <2> HIDE DEF w
  <2>2. QED
    BY <2>1, <1>2
<1> HIDE DEF w
<1>4. walk = [k \in 0 .. 1 |-> f(walk, k)]
  BY <1>3
<1> HIDE DEF walk
<1>5. walk[0] = f(walk, 0) /\ walk[1] = f(walk, 1)
  <2> HIDE DEF f
  <2>1. QED
    BY <1>4
<1>6. walk[0].keep = targets /\ walk[0].frontier = targets
  BY <1>5
<1>7. walk[1].keep = walk[0].keep \cup (around(walk[0].frontier) \ walk[0].keep)
  BY <1>5
<1>8. around(targets) \subseteq walk[1].keep
  <2> HIDE DEF around, targets
  <2>1. QED
    BY <1>6, <1>7
<1>9. around(targets) \subseteq Ids(g)
  BY DEF Joined
<1>10. QED
  BY <1>1, <1>8, <1>9 DEF Around

LEMMA EdgeSeen ==
    ASSUME NEW g, Joined(g), NEW symbol, NEW e \in g.edges, e.src \in resolve(g, symbol)
    PROVE  has_edge(g, symbol, e.dst)
<1>1. e.dst \in Ids(g)
  BY DEF Joined
<1>2. resolve(g, e.dst) = {e.dst}
  BY <1>1 DEF resolve
<1>3. QED
  BY <1>2 DEF has_edge

\* What the queries of a symbol answer, given the nodes it names and the edges
\* that are certain.
Agree(g, q, targets, certain) ==
    LET chains == [k \in 1 .. 4 |-> ChainsTo(certain, targets, k)]
        callers == {c[1] : c \in callers_of(g, q)}
        callees == {c[1] : c \in callees_of(g, q)}
    IN  /\ \A depth \in 1 .. 4 :
            transitive_callers(g, q, depth, FALSE) \ targets
                = (UNION {chains[k] : k \in 1 .. depth}) \ targets
        /\ callers = ChainsTo(g.edges, targets, 1)
        /\ \A c \in callees : has_edge(g, q, c)
        /\ callees = {e.dst : e \in {d \in g.edges : d.src \in targets}}
        /\ callers \cup callees \subseteq get_subgraph(g, q, 1).nodes

LEMMA AnswersAgree ==
    ASSUME NEW g, Joined(g), NEW q, resolve(g, q) \subseteq Ids(g)
    PROVE  Agree(g, q, resolve(g, q), Usable(g, FALSE))
<1> DEFINE callers == {c[1] : c \in callers_of(g, q)}
           callees == {c[1] : c \in callees_of(g, q)}
           from == {e.src : e \in {d \in g.edges : d.dst \in resolve(g, q)}}
           to == {e.dst : e \in {d \in g.edges : d.src \in resolve(g, q)}}
           ch(k) == ChainsTo(Usable(g, FALSE), resolve(g, q), k)
           chains == [k \in 1 .. 4 |-> ch(k)]
<1>1. callers = from /\ callees = to
  BY NeighboursAre
<1>2. ChainsTo(g.edges, resolve(g, q), 1) = from
  <2>1. ChainsTo(g.edges, resolve(g, q), 0 + 1)
            = Behind(g.edges, ChainsTo(g.edges, resolve(g, q), 0))
    BY ChainSteps
  <2>2. ChainsTo(g.edges, resolve(g, q), 0) = resolve(g, q)
    BY ChainSteps
  <2>3. QED
    BY <2>1, <2>2 DEF Behind
<1>3. from \cup to \subseteq get_subgraph(g, q, 1).nodes
  BY SubgraphHolds DEF Around
<1>4. ASSUME NEW c \in to PROVE has_edge(g, q, c)
  <2>1. PICK e \in g.edges : e.src \in resolve(g, q) /\ e.dst = c
    OBVIOUS
  <2>2. QED
    BY <2>1, EdgeSeen
<1>5. ASSUME NEW depth \in 1 .. 4
      PROVE  transitive_callers(g, q, depth, FALSE) \ resolve(g, q)
                = (UNION {chains[k] : k \in 1 .. depth}) \ resolve(g, q)
  <2> DEFINE found == transitive_callers(g, q, depth, FALSE)
  <2>1. depth \in Nat
    OBVIOUS
  <2>2. found \ resolve(g, q) = (UNION {ch(k) : k \in 1 .. depth}) \ resolve(g, q)
    BY <2>1, BlastIs
  <2> HIDE DEF ch, found
  <2>3. \A k \in 1 .. depth : chains[k] = ch(k)
    OBVIOUS
  <2>4. {chains[k] : k \in 1 .. depth} = {ch(k) : k \in 1 .. depth}
    BY <2>3
  <2> HIDE DEF chains
  <2>5. found \ resolve(g, q) = (UNION {chains[k] : k \in 1 .. depth}) \ resolve(g, q)
    BY <2>2, <2>4
  <2>6. QED
    BY <2>5 DEF found
<1> HIDE DEF callers, callees, from, to, chains
<1>6. /\ callers = ChainsTo(g.edges, resolve(g, q), 1)
      /\ \A c \in callees : has_edge(g, q, c)
      /\ callees = to
      /\ callers \cup callees \subseteq get_subgraph(g, q, 1).nodes
  BY <1>1, <1>2, <1>3, <1>4
<1>7. QED
  BY <1>5, <1>6, Zenon DEF Agree, callers, callees, to, chains, ch

\* The queries of the tools agree with their definitions on every graph the job
\* has published (graph.py).
THEOREM QueriesAlwaysAgree == Spec => []QueriesAgree
<1>1. GraphInv => QueriesAgree
  <2>1. SUFFICES ASSUME GraphInv PROVE QueriesAgree
    OBVIOUS
  <2>2. Joined(graphs.graph) /\ Apart(graphs.graph)
    BY <2>1 DEF GraphInv, GraphGood
  <2> DEFINE g == graphs.graph
             certain == {e \in g.edges : e.provenance # "ambiguous"}
             targets(n) == {m.id : m \in {k \in g.nodes : k.qualname = n.qualname \/ <<k.name>> = n.qualname}}
  <2>3. ASSUME NEW n \in g.nodes PROVE Agree(g, n.qualname, targets(n), certain)
    <3>1. certain = Usable(g, FALSE)
      BY DEF Usable
    <3>2. /\ targets(n) = resolve(g, n.qualname)
          /\ resolve(g, n.qualname) \subseteq Ids(g)
      BY <2>2, ResolveIs
    <3>3. Agree(g, n.qualname, resolve(g, n.qualname), Usable(g, FALSE))
      BY <2>2, <3>2, AnswersAgree
    <3> HIDE DEF targets, certain
    <3>4. QED
      BY <3>1, <3>2, <3>3, Zenon
  <2>4. QED
    BY <2>3, Zenon DEF QueriesAgree, Agree
<1>2. QED
  BY <1>1, GraphInit, GraphStep, PTL DEF Spec

(***************************************************************************)
(* The blame of a line.                                                    *)
(***************************************************************************)

LEMMA TextIs ==
    ASSUME NEW history, History(history), NEW path, Has(history, path)
    PROVE  Len(Text(Tip(history), path)) \in Nat
<1>1. Tip(history) \in Trees
  BY TipIs
<1>2. Tip(history)[path] \in DOMAIN Ast
  BY <1>1, TreeIs DEF Has
<1>3. Ast[Tip(history)[path]].text \in Seq([code : STRING, names : SUBSET STRING])
  BY <1>2, AstAssumption
<1>4. QED
  BY <1>3 DEF Text

\* A line has a commit that wrote it.
LEMMA WroteIs ==
    ASSUME NEW history, History(history), NEW path, NEW n
    PROVE  LET w == Wrote(history, path, n)
           IN  /\ w \in 1 .. Len(history)
               /\ \A j \in w .. Len(history) :
                     LineIn(history[j], path, n) = LineIn(history[Len(history)], path, n)
               /\ w = 1 \/ LineIn(history[w - 1], path, n) # LineIn(history[w], path, n)
<1> DEFINE line(k) == LineIn(history[k], path, n)
           L == Len(history)
           Good(k) == /\ \A j \in k .. L : line(j) = line(L)
                      /\ k = 1 \/ line(k - 1) # line(k)
           S == {k \in 1 .. L : \A j \in k .. L : line(j) = line(L)}
<1>1. L \in Nat /\ L \in 1 .. L /\ DOMAIN history = 1 .. L
  BY TipIs
<1>2. Wrote(history, path, n) = CHOOSE k \in DOMAIN history : Good(k)
  BY DEF Wrote
<1> HIDE DEF line, L
<1>3. L \in S
  BY <1>1
<1>4. PICK k \in S : \A j \in S : k <= j
  <2>1. S \in SUBSET Nat /\ S # {}
    BY <1>3
  <2> HIDE DEF S
  <2>2. QED
    BY <2>1, LeastOf
<1>5. k \in 1 .. L /\ \A j \in k .. L : line(j) = line(L)
  OBVIOUS
<1>6. ASSUME k # 1 PROVE line(k - 1) # line(k)
  <2>1. k - 1 \in 1 .. L /\ ~ (k <= k - 1)
    BY <1>5, <1>6, <1>1
  <2>2. k - 1 \notin S
    BY <2>1, <1>4
  <2>3. PICK j \in k - 1 .. L : line(j) # line(L)
    BY <2>1, <2>2
  <2>4. j = k - 1
    BY <2>3, <1>5, <1>1
  <2>5. line(k) = line(L)
    BY <1>5, <1>1
  <2>6. QED
    BY <2>3, <2>4, <2>5
<1>7. Good(k) /\ k \in DOMAIN history
  BY <1>1, <1>5, <1>6
<1> HIDE DEF Good
<1>8. Wrote(history, path, n) \in 1 .. L /\ Good(Wrote(history, path, n))
  BY <1>1, <1>2, <1>7
<1>9. QED
  BY <1>8 DEF Good, line, L

\* The lines at which the spans begin.
Opens(history, path) ==
    {n \in 1 .. Len(Text(Tip(history), path)) :
        n = 1 \/ Wrote(history, path, n) # Wrote(history, path, n - 1)}

\* Where the i-th span ends.
NextOpen(history, path, i) ==
    IF i = Cardinality(Opens(history, path))
    THEN Len(Text(Tip(history), path)) + 1
    ELSE Ascending(Opens(history, path))[i + 1]

LEMMA OpensAre ==
    ASSUME NEW history, History(history), NEW path, Has(history, path)
    PROVE  LET size == Len(Text(Tip(history), path))
               opens == Opens(history, path)
               c == Cardinality(opens)
               order == Ascending(opens)
           IN  /\ size \in Nat /\ c \in Nat
               /\ order \in [1 .. c -> 1 .. size]
               /\ Range(order) = opens
               /\ \A i, j \in 1 .. c : i < j => order[i] < order[j]
               /\ c >= 1 => order[1] = 1
               /\ \A i \in 1 .. c : NextOpen(history, path, i) \in 1 .. size + 1
<1> DEFINE size == Len(Text(Tip(history), path))
           opens == Opens(history, path)
           c == Cardinality(opens)
           order == Ascending(opens)
<1>1. size \in Nat
  BY TextIs
<1>2. opens \in SUBSET (1 .. size)
  BY DEF Opens
<1>n. \A i : NextOpen(history, path, i) = IF i = c THEN size + 1 ELSE order[i + 1]
  BY DEF NextOpen
<1>o. 1 \in 1 .. size => 1 \in opens
  BY DEF Opens
<1> HIDE DEF size, opens
<1>3. /\ c \in Nat
      /\ order \in [1 .. c -> opens]
      /\ Range(order) = opens
      /\ \A i, j \in 1 .. c : i < j => order[i] < order[j]
  BY <1>1, <1>2, AscendingIs
<1> HIDE DEF c, order
<1>4. order \in [1 .. c -> 1 .. size]
  BY <1>2, <1>3
<1>5. ASSUME c >= 1 PROVE order[1] = 1
  <2>1. 1 \in 1 .. c /\ order[1] \in 1 .. size
    BY <1>3, <1>4, <1>5
  <2>2. 1 \in opens
    BY <2>1, <1>1, <1>o
  <2>3. PICK i \in 1 .. c : order[i] = 1
    BY <2>2, <1>3 DEF Range
  <2>4. QED
    BY <2>1, <2>3, <1>1, <1>3, <1>4
<1>6. ASSUME NEW i \in 1 .. c PROVE NextOpen(history, path, i) \in 1 .. size + 1
  <2>1. CASE i = c
    BY <2>1, <1>n, <1>1
  <2>2. CASE i # c
    <3>1. i + 1 \in 1 .. c
      BY <2>2, <1>3
    <3>2. order[i + 1] \in 1 .. size
      BY <3>1, <1>4
    <3>3. QED
      BY <3>2, <2>2, <1>n, <1>1
  <2>3. QED
    BY <2>1, <2>2
<1>7. QED
  BY <1>1, <1>3, <1>4, <1>5, <1>6 DEF size, opens, c, order

\* All lines of a span have one writer.
LEMMA OneWriter ==
    ASSUME NEW history, History(history), NEW path, Has(history, path),
           NEW i \in 1 .. Cardinality(Opens(history, path)),
           NEW n \in Nat, Ascending(Opens(history, path))[i] <= n, n < NextOpen(history, path, i)
    PROVE  Wrote(history, path, n) = Wrote(history, path, Ascending(Opens(history, path))[i])
<1> DEFINE size == Len(Text(Tip(history), path))
           opens == Opens(history, path)
           c == Cardinality(opens)
           order == Ascending(opens)
           next == NextOpen(history, path, i)
           W(m) == Wrote(history, path, m)
<1>1. /\ size \in Nat /\ c \in Nat
      /\ order \in [1 .. c -> 1 .. size]
      /\ Range(order) = opens
      /\ \A j, k \in 1 .. c : j < k => order[j] < order[k]
      /\ next \in 1 .. size + 1
  BY OpensAre
<1>2. next = IF i = c THEN size + 1 ELSE order[i + 1]
  BY DEF NextOpen
<1>3. \A m \in 1 .. size : m \notin opens => W(m) = W(m - 1)
  BY DEF Opens
<1>i. i \in 1 .. c /\ order[i] <= n /\ n < next
  OBVIOUS
<1> HIDE DEF size, opens, c, order, next, W
<1>4. ASSUME NEW m \in opens, order[i] < m, m < next PROVE FALSE
  <2>1. PICK k \in 1 .. c : order[k] = m
    BY <1>1, <1>4 DEF Range
  <2>2. order[i] \in 1 .. size /\ order[k] \in 1 .. size
    BY <1>1, <1>i
  <2>3. CASE k <= i
    <3>1. k < i \/ k = i
      BY <2>3, <1>1, <1>i
    <3>2. QED
      BY <3>1, <2>1, <2>2, <1>1, <1>4, <1>i
  <2>4. CASE k > i
    <3>1. i # c /\ i + 1 \in 1 .. c /\ (i + 1 < k \/ i + 1 = k)
      BY <2>4, <1>1, <1>i
    <3>2. next = order[i + 1] /\ order[i + 1] \in 1 .. size
      BY <3>1, <1>1, <1>2
    <3>3. order[i + 1] <= order[k]
      BY <3>1, <3>2, <2>2, <1>1
    <3>4. QED
      BY <3>2, <3>3, <2>1, <2>2, <1>4
  <2>5. QED
    BY <2>3, <2>4, <1>1, <1>i
<1> DEFINE Same == {m \in Nat : (order[i] <= m /\ m <= n) => W(m) = W(order[i])}
<1>5. 0 \in Same
  BY <1>1, <1>i
<1>6. ASSUME NEW m \in Nat, m \in Same PROVE m + 1 \in Same
  <2>1. SUFFICES ASSUME order[i] <= m + 1, m + 1 <= n PROVE W(m + 1) = W(order[i])
    OBVIOUS
  <2>2. order[i] \in 1 .. size
    BY <1>1, <1>i
  <2>3. CASE order[i] = m + 1
    BY <2>3
  <2>4. CASE order[i] # m + 1
    <3>1. order[i] <= m /\ order[i] < m + 1 /\ m + 1 < next /\ m + 1 \in 1 .. size
      BY <2>1, <2>2, <2>4, <1>1, <1>i
    <3>2. m + 1 \notin opens
      BY <3>1, <1>4
    <3>3. W(m + 1) = W((m + 1) - 1)
      BY <3>1, <3>2, <1>3
    <3>4. (m + 1) - 1 = m /\ m <= n
      BY <2>1
    <3>5. W(m) = W(order[i])
      BY <3>1, <3>4, <1>6
    <3>6. QED
      BY <3>3, <3>4, <3>5
  <2>5. QED
    BY <2>3, <2>4
<1> HIDE DEF Same
<1>7. n \in Same
  BY <1>5, <1>6, Counting
<1>8. W(n) = W(order[i])
  BY <1>7, <1>i DEF Same
<1>9. QED
  BY <1>8 DEF W, order, opens

\* The cursor stands where the span begins.
LEMMA HoldingIs ==
    ASSUME NEW spans, NEW c \in Nat, DOMAIN spans = 1 .. c, NEW start \in [1 .. c -> Int],
           c >= 1 => start[1] = 1,
           \A i \in 1 .. c : i # c => start[i + 1] = start[i] + spans[i].lines,
           NEW n, NEW i \in Holding(spans, n)
    PROVE  i \in 1 .. c /\ start[i] <= n /\ n < start[i] + spans[i].lines
<1> DEFINE cursor[j \in DOMAIN spans] == IF j = 1 THEN 1 ELSE cursor[j - 1] + spans[j - 1].lines
           f(v, j) == IF j = 1 THEN 1 ELSE v[j - 1] + spans[j - 1].lines
<1>1. i \in DOMAIN spans /\ cursor[i] <= n /\ n < cursor[i] + spans[i].lines
  BY DEF Holding
<1>2. ASSUME NEW j \in 1 .. c PROVE start[j] = f(start, j)
  <2>1. CASE j = 1
    BY <2>1
  <2>2. CASE j # 1
    <3>1. j - 1 \in 1 .. c /\ j - 1 # c /\ (j - 1) + 1 = j
      BY <2>2
    <3>2. QED
      BY <2>2, <3>1
  <2>3. QED
    BY <2>1, <2>2
<1>3. start = [j \in DOMAIN spans |-> f(start, j)]
  <2> HIDE DEF f
  <2>1. start = [j \in 1 .. c |-> start[j]]
    OBVIOUS
  <2>2. QED
    BY <2>1, <1>2
<1>4. cursor = [j \in DOMAIN spans |-> f(cursor, j)]
  BY <1>3
<1> HIDE DEF cursor
<1>5. \A j \in 1 .. c : cursor[j] = f(cursor, j)
  <2> HIDE DEF f
  <2>1. QED
    BY <1>4
<1> DEFINE Same == {j \in Nat : j \in 1 .. c => cursor[j] = start[j]}
<1>6. 0 \in Same
  OBVIOUS
<1>7. ASSUME NEW j \in Nat, j \in Same PROVE j + 1 \in Same
  <2>1. SUFFICES ASSUME j + 1 \in 1 .. c PROVE cursor[j + 1] = start[j + 1]
    OBVIOUS
  <2>2. cursor[j + 1] = f(cursor, j + 1) /\ start[j + 1] = f(start, j + 1)
    BY <2>1, <1>2, <1>5
  <2>3. CASE j = 0
    BY <2>2, <2>3
  <2>4. CASE j # 0
    <3>1. j \in 1 .. c /\ cursor[j] = start[j] /\ (j + 1) - 1 = j /\ j + 1 # 1
      BY <2>1, <2>4, <1>7
    <3>2. f(cursor, j + 1) = f(start, j + 1)
      BY <3>1
    <3>3. QED
      BY <2>2, <3>2
  <2>5. QED
    BY <2>3, <2>4
<1> HIDE DEF Same
<1>8. i \in Same /\ i \in 1 .. c
  <2>1. \A j \in Nat : j \in Same
    BY <1>6, <1>7, Counting
  <2>2. i \in 1 .. c /\ i \in Nat
    BY <1>1
  <2>3. QED
    BY <2>1, <2>2
<1>9. cursor[i] = start[i]
  BY <1>8 DEF Same
<1>10. QED
  BY <1>1, <1>8, <1>9

\* The blame of a line is the commit that wrote it.
LEMMA BlameIs ==
    ASSUME NEW history, History(history), NEW path, NEW n \in Nat,
           blame_line(history, path, n) # NoCommit
    PROVE  blame_line(history, path, n) = Wrote(history, path, n)
<1> DEFINE size == Len(Text(Tip(history), path))
           opens == Opens(history, path)
           c == Cardinality(opens)
           order == Ascending(opens)
           next(i) == NextOpen(history, path, i)
           spans == BlameSpans(history, path)
           held == Holding(spans, n)
<1>0. Has(history, path)
  BY DEF blame_line
<1>1. held # {} /\ blame_line(history, path, n) = spans[CHOOSE i \in held : TRUE].commit
  BY <1>0 DEF blame_line
<1>2. spans = [i \in DOMAIN order |-> [commit |-> Wrote(history, path, order[i]),
                                       lines |-> next(i) - order[i]]]
  BY DEF BlameSpans, Opens, NextOpen
<1>3. /\ size \in Nat /\ c \in Nat
      /\ order \in [1 .. c -> 1 .. size]
      /\ c >= 1 => order[1] = 1
      /\ \A i \in 1 .. c : next(i) \in 1 .. size + 1
  BY <1>0, OpensAre
<1>4. \A i \in 1 .. c : i # c => next(i) = order[i + 1]
  BY DEF NextOpen
<1>5. ASSUME NEW i \in 1 .. c, order[i] <= n, n < next(i)
      PROVE  Wrote(history, path, n) = Wrote(history, path, order[i])
  BY <1>0, <1>5, OneWriter
<1> DEFINE i == CHOOSE i \in held : TRUE
<1>6. i \in held
  BY <1>1
<1>7. blame_line(history, path, n) = spans[i].commit
  BY <1>1
<1> HIDE DEF size, opens, c, order, next, spans, i
<1>8. /\ DOMAIN spans = 1 .. c
      /\ \A j \in 1 .. c : /\ spans[j].commit = Wrote(history, path, order[j])
                           /\ spans[j].lines = next(j) - order[j]
  BY <1>2, <1>3
<1>9. /\ order \in [1 .. c -> Int]
      /\ \A j \in 1 .. c : order[j] + spans[j].lines = next(j)
  <2>1. \A j \in 1 .. c : order[j] \in 1 .. size /\ next(j) \in 1 .. size + 1
    BY <1>3
  <2>2. order \in [1 .. c -> Int]
    BY <2>1, <1>3
  <2>3. ASSUME NEW j \in 1 .. c PROVE order[j] + spans[j].lines = next(j)
    <3>1. order[j] \in Int /\ next(j) \in Int /\ spans[j].lines = next(j) - order[j]
      BY <2>1, <1>8
    <3> HIDE DEF next
    <3>2. QED
      BY <3>1
  <2>4. QED
    BY <2>2, <2>3
<1>10. \A j \in 1 .. c : j # c => order[j + 1] = order[j] + spans[j].lines
  BY <1>4, <1>9
<1>11. i \in 1 .. c /\ order[i] <= n /\ n < order[i] + spans[i].lines
  BY <1>3, <1>6, <1>8, <1>9, <1>10, HoldingIs
<1>12. QED
  BY <1>5, <1>7, <1>8, <1>9, <1>11

(***************************************************************************)
(* The investigation without a model.                                      *)
(***************************************************************************)

\* The last of the frames that _dedupe keeps.
LEMMA DedupeIs ==
    ASSUME NEW frames \in Seq(Frames), frames # <<>>
    PROVE  /\ _dedupe(frames) # <<>>
           /\ Last(_dedupe(frames)) \in Frames
           /\ \/ Place(Last(_dedupe(frames))) = Place(Last(frames))
              \/ \E i \in 1 .. Len(frames) - 1 : Place(frames[i]) = Place(Last(frames))
<1> DEFINE L == Len(frames)
           firsts == {i \in DOMAIN frames : \A j \in 1 .. i - 1 : Place(frames[j]) # Place(frames[i])}
           c == Cardinality(firsts)
           order == Ascending(firsts)
<1>1. L \in Nat /\ L >= 1 /\ DOMAIN frames = 1 .. L /\ \A i \in 1 .. L : frames[i] \in Frames
  OBVIOUS
<1>2. firsts \in SUBSET (1 .. L)
  BY <1>1
<1>3. _dedupe(frames) = [k \in 1 .. c |-> frames[order[k]]]
  BY DEF _dedupe, Picked
<1>4. 1 \in firsts
  BY <1>1
<1>5. L \notin firsts => \E j \in 1 .. L - 1 : Place(frames[j]) = Place(frames[L])
  BY <1>1
<1>6. Last(frames) = frames[L]
  BY DEF Last
<1> HIDE DEF firsts, L
<1>7. /\ c \in Nat
      /\ order \in [1 .. c -> firsts]
      /\ Range(order) = firsts
      /\ \A i, j \in 1 .. c : i < j => order[i] < order[j]
  BY <1>1, <1>2, AscendingIs
<1> HIDE DEF c, order
<1>8. DOMAIN order = 1 .. c
  BY <1>7
<1>9. c >= 1
  <2>1. \E i \in 1 .. c : order[i] = 1
    BY <1>4, <1>7, <1>8 DEF Range
  <2>2. QED
    BY <2>1, <1>7
<1>11. \A k \in 1 .. c : order[k] \in 1 .. L
  BY <1>2, <1>7
<1>12. _dedupe(frames) \in Seq(Frames) /\ Len(_dedupe(frames)) = c
  <2>1. \A k \in 1 .. c : frames[order[k]] \in Frames
    BY <1>1, <1>11
  <2> DEFINE kept == [k \in 1 .. c |-> frames[order[k]]]
  <2>2. kept \in [1 .. c -> Frames]
    BY <2>1
  <2> HIDE DEF kept
  <2>3. kept \in Seq(Frames) /\ Len(kept) = c
    BY <2>2, <1>7
  <2>4. QED
    BY <2>3, <1>3 DEF kept
<1>13. Last(_dedupe(frames)) = frames[order[c]]
  BY <1>3, <1>7, <1>9, <1>12 DEF Last
<1>14. frames[order[c]] \in Frames
  BY <1>1, <1>7, <1>9, <1>11
<1>15. L \in firsts => order[c] = L
  <2>1. SUFFICES ASSUME L \in firsts PROVE order[c] = L
    OBVIOUS
  <2>2. PICK i \in 1 .. c : order[i] = L
    BY <2>1, <1>7, <1>8 DEF Range
  <2>3. c \in 1 .. c /\ order[c] \in 1 .. L /\ order[i] \in 1 .. L
    BY <1>7, <1>9, <1>11
  <2>4. CASE i < c
    BY <2>2, <2>3, <2>4, <1>1, <1>7
  <2>5. QED
    BY <2>2, <2>4, <1>7
<1>16. _dedupe(frames) # <<>>
  BY <1>9, <1>12, <1>7
<1>17. QED
  BY <1>5, <1>6, <1>13, <1>14, <1>15, <1>16 DEF L

LEMMA TracesAre ==
    ASSUME NEW ticket \in Tickets
    PROVE  /\ LanguageFrames(ticket) \in Seq(Frames)
           /\ ticket.generic \in Seq(Frames)
<1>1. /\ ticket.python \in Seq(Frames) /\ ticket.java \in Seq(Frames)
      /\ ticket.js \in Seq(Frames) /\ ticket.generic \in Seq(Frames)
  BY TraceAssumption
<1>2. ASSUME NEW s \in Seq(Frames) PROVE Reverse(s) \in Seq(Frames)
  <2>1. Len(s) \in Nat /\ \A i \in 1 .. Len(s) : s[i] \in Frames
    OBVIOUS
  <2>2. \A i \in 1 .. Len(s) : (Len(s) - i) + 1 \in 1 .. Len(s)
    BY <2>1
  <2> DEFINE r == [i \in 1 .. Len(s) |-> s[(Len(s) - i) + 1]]
  <2>3. r \in [1 .. Len(s) -> Frames]
    BY <2>1, <2>2
  <2> HIDE DEF r
  <2>4. r \in Seq(Frames)
    BY <2>1, <2>3
  <2>5. QED
    BY <2>4 DEF r, Reverse
<1>3. QED
  BY <1>1, <1>2 DEF LanguageFrames

CrashGood(trace, crash) ==
    crash # <<>> =>
        /\ crash[1].line \in Nat
        /\ trace # <<>> =>
            \/ Place(crash[1]) = Place(Last(trace))
            \/ \E i \in 1 .. Len(trace) - 1 : Place(trace[i]) = Place(Last(trace))

LEMMA CrashIs ==
    ASSUME NEW ticket \in Tickets
    PROVE  CrashGood(LanguageFrames(ticket), crash_site(parse_stack_trace(ticket)))
<1>1. LanguageFrames(ticket) \in Seq(Frames) /\ ticket.generic \in Seq(Frames)
  BY TracesAre
<1>2. ASSUME NEW f \in Frames PROVE f.line \in Nat
  BY DEF Frames
<1>3. CASE LanguageFrames(ticket) # <<>>
  <2> DEFINE frames == LanguageFrames(ticket)
  <2>1. parse_stack_trace(ticket) = _dedupe(frames)
    BY <1>3 DEF parse_stack_trace
  <2> HIDE DEF frames
  <2>2. frames \in Seq(Frames) /\ frames # <<>>
    BY <1>1, <1>3 DEF frames
  <2>3. /\ _dedupe(frames) # <<>>
        /\ Last(_dedupe(frames)) \in Frames
        /\ \/ Place(Last(_dedupe(frames))) = Place(Last(frames))
           \/ \E i \in 1 .. Len(frames) - 1 : Place(frames[i]) = Place(Last(frames))
    BY <2>2, DedupeIs
  <2>4. crash_site(_dedupe(frames)) = <<Last(_dedupe(frames))>>
    BY <2>3 DEF crash_site
  <2>5. CrashGood(frames, crash_site(_dedupe(frames)))
    BY <2>3, <2>4, <1>2 DEF CrashGood
  <2>6. QED
    BY <2>1, <2>5 DEF frames
<1>4. CASE LanguageFrames(ticket) = <<>>
  <2>1. CASE ~ticket.looks_like_a_trace
    BY <2>1, <1>4 DEF parse_stack_trace, crash_site, CrashGood
  <2>2. CASE ticket.looks_like_a_trace
    <3> DEFINE frames == [i \in DOMAIN ticket.generic |-> [ticket.generic[i] EXCEPT !.symbol = <<>>]]
    <3>1. parse_stack_trace(ticket) = _dedupe(frames)
      BY <2>2, <1>4 DEF parse_stack_trace
    <3>2. frames \in Seq(Frames)
      <4>1. \A i \in 1 .. Len(ticket.generic) : ticket.generic[i] \in Frames
        BY <1>1
      <4>2. \A f \in Frames : [f EXCEPT !.symbol = <<>>] \in Frames
        <5>1. <<>> \in Seq(STRING)
          OBVIOUS
        <5>2. ASSUME NEW f \in [path : STRING, line : Nat, symbol : Seq(STRING)]
              PROVE  [f EXCEPT !.symbol = <<>>] \in [path : STRING, line : Nat, symbol : Seq(STRING)]
          BY <5>1
        <5>3. QED
          BY <5>2 DEF Frames
      <4>3. DOMAIN ticket.generic = 1 .. Len(ticket.generic) /\ Len(ticket.generic) \in Nat
        BY <1>1
      <4>4. frames \in [1 .. Len(ticket.generic) -> Frames]
        BY <4>1, <4>2, <4>3
      <4> HIDE DEF frames
      <4>5. QED
        BY <4>3, <4>4
    <3> HIDE DEF frames
    <3>3. CASE frames = <<>>
      <4>1. _dedupe(<<>>) = <<>>
        <5> DEFINE firsts == {i \in DOMAIN <<>> : \A j \in 1 .. i - 1 : Place(<<>>[j]) # Place(<<>>[i])}
        <5>1. firsts = {}
          OBVIOUS
        <5>2. Cardinality(firsts) = 0
          BY <5>1, FS_EmptySet
        <5>3. _dedupe(<<>>) = [k \in 1 .. Cardinality(firsts) |-> <<>>[Ascending(firsts)[k]]]
          BY DEF _dedupe, Picked
        <5> HIDE DEF firsts
        <5>4. QED
          BY <5>2, <5>3
      <4>2. QED
        BY <4>1, <3>1, <3>3 DEF crash_site, CrashGood
    <3>4. CASE frames # <<>>
      <4>1. _dedupe(frames) # <<>> /\ Last(_dedupe(frames)) \in Frames
        BY <3>2, <3>4, DedupeIs
      <4>2. crash_site(_dedupe(frames)) = <<Last(_dedupe(frames))>>
        BY <4>1 DEF crash_site
      <4>3. QED
        BY <4>1, <4>2, <3>1, <1>2, <1>4 DEF CrashGood
    <3>5. QED
      BY <3>3, <3>4
  <2>3. QED
    BY <2>1, <2>2
<1>5. QED
  BY <1>3, <1>4

CrashLine(history, k) == LineIn(history[k], run.crash[1].path, run.crash[1].line)

\* The confirmed text is the line of the branch as it was then.
SeenGood(history) ==
    run.seen # 0 =>
        /\ run.seen \in 1 .. Len(history)
        /\ run.text = CrashLine(history, run.seen)

\* The blamed commit wrote the line as it was when blame was asked for.
WrittenGood(history) ==
    run.commit # NoCommit =>
        /\ run.crash # <<>> /\ run.seen # 0
        /\ run.blamed \in run.seen .. Len(history)
        /\ run.commit \in 1 .. run.blamed
        /\ \A j \in run.commit .. run.blamed : CrashLine(history, j) = CrashLine(history, run.blamed)
        /\ run.commit = 1 \/ CrashLine(history, run.commit - 1) # CrashLine(history, run.commit)

RunInv ==
    /\ DOMAIN run = DOMAIN NoRun
    /\ CrashGood(run.trace, run.crash)
    /\ run.at \in {"fetch", "blame", "mrs", "graph"} => run.crash # <<>>
    /\ run.at \in {"idle", "elsewhere", "fetch", "blame"} => run.commit = NoCommit
    /\ run.at = "blame" => run.seen # 0
    /\ SeenGood(branch)
    /\ WrittenGood(branch)
    /\ run.verdict.confidence = "high" => run.commit # NoCommit

LEMMA NoRunGood == run' = NoRun => RunInv'
BY DEF RunInv, NoRun, NoVerdict, NoCommit, CrashGood, SeenGood, WrittenGood

LEMMA RunInit == Init => RunInv
BY DEF Init, RunInv, NoRun, NoVerdict, NoCommit, CrashGood, SeenGood, WrittenGood

LEMMA RunStays ==
    ASSUME RunInv, NEW later, GrownTo(branch, later), History(branch), History(later)
    PROVE  SeenGood(later) /\ WrittenGood(later)
<1>1. Len(branch) \in Nat /\ Len(later) \in Nat /\ Len(later) >= Len(branch)
  BY TipIs DEF GrownTo
<1>2. \A k \in 1 .. Len(branch) : k \in 1 .. Len(later) /\ CrashLine(later, k) = CrashLine(branch, k)
  BY <1>1 DEF GrownTo, CrashLine
<1>3. SeenGood(later)
  BY <1>2 DEF RunInv, SeenGood
<1>4. ASSUME run.commit # NoCommit
      PROVE  /\ run.crash # <<>> /\ run.seen # 0
             /\ run.blamed \in run.seen .. Len(later)
             /\ run.commit \in 1 .. run.blamed
             /\ \A j \in run.commit .. run.blamed : CrashLine(later, j) = CrashLine(later, run.blamed)
             /\ run.commit = 1 \/ CrashLine(later, run.commit - 1) # CrashLine(later, run.commit)
  <2>1. /\ run.crash # <<>> /\ run.seen # 0
        /\ run.blamed \in run.seen .. Len(branch)
        /\ run.commit \in 1 .. run.blamed
        /\ \A j \in run.commit .. run.blamed : CrashLine(branch, j) = CrashLine(branch, run.blamed)
        /\ run.commit = 1 \/ CrashLine(branch, run.commit - 1) # CrashLine(branch, run.commit)
        /\ run.seen \in 1 .. Len(branch)
    BY <1>4 DEF RunInv, WrittenGood, SeenGood
  <2>2. run.blamed \in 1 .. Len(branch) /\ run.blamed \in run.seen .. Len(later)
    BY <2>1, <1>1
  <2>3. run.commit = 1 \/ CrashLine(later, run.commit - 1) # CrashLine(later, run.commit)
    <3>1. CASE run.commit # 1
      <4>1. run.commit - 1 \in 1 .. Len(branch) /\ run.commit \in 1 .. Len(branch)
        BY <2>1, <2>2, <3>1
      <4>2. QED
        BY <4>1, <2>1, <1>2, <3>1
    <3>2. QED
      BY <3>1
  <2>4. ASSUME NEW j \in run.commit .. run.blamed PROVE CrashLine(later, j) = CrashLine(later, run.blamed)
    <3>1. j \in 1 .. Len(branch)
      BY <2>1, <2>2
    <3>2. QED
      BY <3>1, <2>1, <2>2, <1>2
  <2>5. QED
    BY <2>1, <2>2, <2>3, <2>4
<1>5. QED
  BY <1>3, <1>4 DEF WrittenGood

\* The window of lines that is fetched holds the line if the file has it.
LEMMA WindowIs ==
    ASSUME NEW history, History(history), NEW path, Has(history, path), NEW n \in Nat,
           NEW start, start = IF n > ContextLines THEN n - ContextLines ELSE 1,
           NEW window, window = get_file_lines(history, path, start, n + ContextLines)
    PROVE  (IF n \in DOMAIN window THEN <<window[n]>> ELSE <<>>) = LineIn(history[Len(history)], path, n)
<1> DEFINE lines == Text(Tip(history), path)
           last == IF n + ContextLines < Len(lines) THEN n + ContextLines ELSE Len(lines)
<1>1. Len(lines) \in Nat /\ ContextLines \in Nat
  BY TextIs, TraceAssumption
<1>2. DOMAIN lines = 1 .. Len(lines)
  <2>1. Tip(history) \in Trees
    BY TipIs
  <2>2. Tip(history)[path] \in DOMAIN Ast
    BY <2>1, TreeIs DEF Has
  <2>3. Ast[Tip(history)[path]].text \in Seq([code : STRING, names : SUBSET STRING])
    BY <2>2, AstAssumption
  <2>4. QED
    BY <2>3 DEF Text
<1>3. LineIn(history[Len(history)], path, n) = IF n \in DOMAIN lines THEN <<lines[n]>> ELSE <<>>
  BY DEF LineIn, Has, Tip
<1>4. start \in Nat /\ start >= 1 /\ (start <= n \/ n = 0)
  BY <1>1
<1>5. window = [m \in start .. last |-> lines[m]]
  BY <1>4 DEF get_file_lines
<1> HIDE DEF lines
<1>6. n \in start .. last <=> n \in 1 .. Len(lines)
  BY <1>1, <1>4
<1> HIDE DEF last
<1>7. n \in DOMAIN window <=> n \in DOMAIN lines
  BY <1>2, <1>5, <1>6
<1>8. n \in DOMAIN window => window[n] = lines[n]
  BY <1>5
<1>9. QED
  BY <1>3, <1>7, <1>8 DEF lines

\* The run goes on and the branch does not: only what a step sets matters.
LEMMA RunConcludes ==
    ASSUME RunInv, branch' = branch, NEW v, Conclude(v),
           v.confidence = "high" => run.commit # NoCommit
    PROVE  RunInv'
<1>1. run' = [run EXCEPT !.at = "done", !.verdict = v]
  BY DEF Conclude
<1>2. /\ DOMAIN run' = DOMAIN NoRun /\ run'.at = "done" /\ run'.verdict = v
      /\ run'.trace = run.trace /\ run'.crash = run.crash /\ run'.seen = run.seen
      /\ run'.text = run.text /\ run'.commit = run.commit /\ run'.blamed = run.blamed
  BY <1>1 DEF RunInv, NoRun
<1>3. SeenGood(branch)' /\ WrittenGood(branch)'
  BY <1>2 DEF RunInv, SeenGood, WrittenGood, CrashLine
<1>4. QED
  BY <1>2, <1>3 DEF RunInv

LEMMA RunStart == RunInv /\ Start => RunInv'
<1> SUFFICES ASSUME RunInv, Start PROVE RunInv'
  OBVIOUS
<1>1. PICK ticket \in Tickets, at \in {"done", "fetch", "elsewhere"}, v \in {Low, NoVerdict} :
        /\ run' = [NoRun EXCEPT !.trace = LanguageFrames(ticket),
                                !.crash = crash_site(parse_stack_trace(ticket)),
                                !.at = at, !.verdict = v]
        /\ crash_site(parse_stack_trace(ticket)) = <<>> => at = "done"
  <2>1. PICK ticket \in Tickets : \E to :
        LET crash == crash_site(parse_stack_trace(ticket))
        IN  run' = [NoRun EXCEPT
                !.trace = LanguageFrames(ticket),
                !.crash = crash,
                !.at = IF crash = <<>> \/ to = <<>> THEN "done"
                       ELSE IF to[1] = Project THEN "fetch" ELSE "elsewhere",
                !.verdict = IF crash = <<>> \/ to = <<>> THEN Low ELSE NoVerdict]
    BY DEF Start
  <2>2. PICK to :
        LET crash == crash_site(parse_stack_trace(ticket))
        IN  run' = [NoRun EXCEPT
                !.trace = LanguageFrames(ticket),
                !.crash = crash,
                !.at = IF crash = <<>> \/ to = <<>> THEN "done"
                       ELSE IF to[1] = Project THEN "fetch" ELSE "elsewhere",
                !.verdict = IF crash = <<>> \/ to = <<>> THEN Low ELSE NoVerdict]
    BY <2>1
  <2> DEFINE crash == crash_site(parse_stack_trace(ticket))
             at == IF crash = <<>> \/ to = <<>> THEN "done"
                   ELSE IF to[1] = Project THEN "fetch" ELSE "elsewhere"
             v == IF crash = <<>> \/ to = <<>> THEN Low ELSE NoVerdict
  <2>3. run' = [NoRun EXCEPT !.trace = LanguageFrames(ticket), !.crash = crash, !.at = at, !.verdict = v]
    BY <2>2
  <2>4. at \in {"done", "fetch", "elsewhere"} /\ (crash = <<>> => at = "done")
    OBVIOUS
  <2>5. v \in {Low, NoVerdict}
    OBVIOUS
  <2> HIDE DEF at, v, crash
  <2>6. QED
    BY <2>3, <2>4, <2>5 DEF crash
<1>2. /\ DOMAIN run' = DOMAIN NoRun /\ run'.at = at /\ run'.verdict = v
      /\ run'.trace = LanguageFrames(ticket) /\ run'.crash = crash_site(parse_stack_trace(ticket))
      /\ run'.seen = 0 /\ run'.commit = NoCommit
  BY <1>1 DEF NoRun
<1>3. CrashGood(run'.trace, run'.crash)
  BY <1>2, CrashIs
<1>4. v.confidence # "high"
  BY DEF Low, NoVerdict
<1>5. QED
  BY <1>1, <1>2, <1>3, <1>4 DEF RunInv, SeenGood, WrittenGood

LEMMA RunConfirms == GraphInv /\ RunInv /\ _confirm_frame => RunInv'
<1> SUFFICES ASSUME GraphInv, RunInv, _confirm_frame PROVE RunInv'
  OBVIOUS
<1>1. History(branch) /\ branch' = branch /\ run.at = "fetch"
  BY DEF GraphInv, _confirm_frame, indexVars
<1>2. run.crash # <<>> /\ run.commit = NoCommit /\ run.crash[1].line \in Nat
  BY <1>1 DEF RunInv, CrashGood
<1>3. CASE Conclude(Low)
  BY <1>1, <1>3, RunConcludes DEF Low
<1>4. CASE ~Conclude(Low)
  <2> DEFINE frame == run.crash[1]
             start == IF frame.line > ContextLines THEN frame.line - ContextLines ELSE 1
             window == get_file_lines(branch, frame.path, start, frame.line + ContextLines)
             text == IF frame.line \in DOMAIN window THEN <<window[frame.line]>> ELSE <<>>
  <2>1. Has(branch, frame.path)
    BY <1>4 DEF _confirm_frame
  <2>2. \E confirmed : run' = [run EXCEPT !.at = "blame", !.text = text, !.seen = Len(branch),
                                          !.confirmed = confirmed]
    BY <2>1 DEF _confirm_frame
  <2>3. text = CrashLine(branch, Len(branch))
    BY <1>1, <1>2, <2>1, WindowIs DEF CrashLine
  <2> HIDE DEF text
  <2>4. /\ DOMAIN run' = DOMAIN NoRun /\ run'.at = "blame" /\ run'.text = text /\ run'.seen = Len(branch)
        /\ run'.trace = run.trace /\ run'.crash = run.crash
        /\ run'.commit = run.commit /\ run'.verdict = run.verdict
    BY <2>2 DEF RunInv, NoRun
  <2>5. Len(branch) \in 1 .. Len(branch)
    BY <1>1, TipIs
  <2>6. CrashLine(branch, Len(branch))' = CrashLine(branch, Len(branch))
    BY <1>1, <2>4 DEF CrashLine
  <2>7. SeenGood(branch)'
    BY <1>1, <2>3, <2>4, <2>5, <2>6 DEF SeenGood
  <2>8. WrittenGood(branch)'
    BY <1>2, <2>4 DEF WrittenGood
  <2>9. QED
    BY <1>2, <2>4, <2>5, <2>7, <2>8 DEF RunInv
<1>5. QED
  BY <1>3, <1>4

LEMMA RunBlames == GraphInv /\ RunInv /\ Blame => RunInv'
<1> SUFFICES ASSUME GraphInv, RunInv, Blame PROVE RunInv'
  OBVIOUS
<1>1. History(branch) /\ branch' = branch /\ run.at = "blame"
  BY DEF GraphInv, Blame, indexVars
<1>2. /\ run.crash # <<>> /\ run.commit = NoCommit /\ run.crash[1].line \in Nat
      /\ run.seen # 0 /\ run.seen \in 1 .. Len(branch)
  BY <1>1 DEF RunInv, CrashGood, SeenGood
<1> DEFINE path == run.crash[1].path
           n == run.crash[1].line
           commit == blame_line(branch, path, n)
<1>3. run' = [run EXCEPT !.commit = commit, !.blamed = Len(branch),
                         !.at = IF commit = NoCommit THEN "graph" ELSE "mrs"]
  BY DEF Blame
<1>4. commit # NoCommit => commit = Wrote(branch, path, n)
  BY <1>1, <1>2, BlameIs
<1> HIDE DEF commit
<1>5. /\ DOMAIN run' = DOMAIN NoRun /\ run'.commit = commit /\ run'.blamed = Len(branch)
      /\ run'.at \in {"graph", "mrs"}
      /\ run'.trace = run.trace /\ run'.crash = run.crash /\ run'.seen = run.seen
      /\ run'.text = run.text /\ run'.verdict = run.verdict
  BY <1>3 DEF RunInv, NoRun
<1>6. \A k : CrashLine(branch, k)' = LineIn(branch[k], path, n)
  BY <1>1, <1>5 DEF CrashLine
<1>7. SeenGood(branch)'
  BY <1>1, <1>5 DEF RunInv, SeenGood, CrashLine
<1>8. WrittenGood(branch)'
  <2>1. SUFFICES ASSUME commit # NoCommit PROVE WrittenGood(branch)'
    BY <1>5 DEF WrittenGood
  <2>2. /\ commit \in 1 .. Len(branch)
        /\ \A j \in commit .. Len(branch) : LineIn(branch[j], path, n) = LineIn(branch[Len(branch)], path, n)
        /\ commit = 1 \/ LineIn(branch[commit - 1], path, n) # LineIn(branch[commit], path, n)
    BY <1>1, <1>4, <2>1, WroteIs
  <2>3. Len(branch) \in run.seen .. Len(branch)
    BY <1>1, <1>2, TipIs
  <2> HIDE DEF path, n
  <2>4. QED
    BY <2>2, <2>3, <1>1, <1>2, <1>5, <1>6 DEF WrittenGood
<1>9. run.verdict.confidence # "high"
  BY <1>2 DEF RunInv
<1>10. QED
  BY <1>2, <1>5, <1>7, <1>8, <1>9 DEF RunInv

LEMMA RunStep == GraphInv /\ RunInv /\ [Next]_vars => RunInv'
<1> SUFFICES ASSUME GraphInv, RunInv, [Next]_vars PROVE RunInv'
  OBVIOUS
<1>1. CASE run' = run /\ branch' = branch
  BY <1>1 DEF RunInv, SeenGood, WrittenGood, CrashLine
<1>2. CASE Push /\ run' = run
  <2>1. GraphInv' /\ History(branch) /\ History(branch')
    BY <1>2, GraphPush DEF GraphInv
  <2>2. GrownTo(branch, branch')
    <3>1. PICK tree : branch' = Append(branch, tree)
      BY <1>2 DEF Push
    <3>2. QED
      BY <3>1, <2>1 DEF GrownTo, History
  <2>3. SeenGood(branch') /\ WrittenGood(branch')
    BY <2>1, <2>2, RunStays
  <2>4. SeenGood(branch)' /\ WrittenGood(branch)'
    BY <1>2, <2>3 DEF SeenGood, WrittenGood, CrashLine
  <2>5. QED
    BY <1>2, <2>4 DEF RunInv
<1>3. CASE Start
  BY <1>3, RunStart
<1>4. CASE FetchElsewhere
  BY <1>4, RunConcludes DEF FetchElsewhere, indexVars, Low
<1>5. CASE _confirm_frame
  BY <1>5, RunConfirms
<1>6. CASE Blame
  BY <1>6, RunBlames
<1>7. CASE FindMergeRequests
  <2>1. PICK mr : run' = [run EXCEPT !.at = "graph", !.mr = mr]
    BY <1>7 DEF FindMergeRequests
  <2>2. branch' = branch /\ run.at = "mrs"
    BY <1>7 DEF FindMergeRequests, indexVars
  <2>3. /\ DOMAIN run' = DOMAIN NoRun /\ run'.at = "graph" /\ run'.verdict = run.verdict
        /\ run'.trace = run.trace /\ run'.crash = run.crash /\ run'.seen = run.seen
        /\ run'.text = run.text /\ run'.commit = run.commit /\ run'.blamed = run.blamed
    BY <2>1 DEF RunInv, NoRun
  <2>4. SeenGood(branch)' /\ WrittenGood(branch)'
    BY <2>2, <2>3 DEF RunInv, SeenGood, WrittenGood, CrashLine
  <2>5. QED
    BY <2>2, <2>3, <2>4 DEF RunInv
<1>8. CASE GitLabRaises
  BY <1>8, NoRunGood DEF GitLabRaises
<1>9. CASE Synthesize
  <2> DEFINE good == run.confirmed /\ run.commit # NoCommit
             confidence == CASE good /\ run.mr # <<>> -> "high"
                             [] good /\ run.mr = <<>> -> "medium"
                             [] OTHER -> "low"
  <2>1. PICK v : Conclude(v) /\ v.confidence = CASE run.confirmed /\ run.commit # NoCommit /\ run.mr # <<>> -> "high"
                                  [] run.confirmed /\ run.commit # NoCommit /\ run.mr = <<>> -> "medium"
                                  [] OTHER -> "low"
    BY <1>9 DEF Synthesize
  <2>2. v.confidence = "high" => run.commit # NoCommit
    BY <2>1
  <2>3. branch' = branch
    BY <1>9 DEF Synthesize, indexVars
  <2>4. QED
    BY <2>1, <2>2, <2>3, RunConcludes
<1>10. CASE UNCHANGED vars
  BY <1>1, <1>10 DEF vars, indexVars
<1>11. CASE IndexNext /\ run' = run
  <2>1. CASE Push
    BY <1>2, <1>11, <2>1
  <2>2. CASE ~Push
    <3>1. branch' = branch
      BY <1>11, <2>2 DEF IndexNext, PushFrontend, EditSummary, Job, reindex_all, Extract, Stamp, PublishAreas,
             PublishMeta, FrontendFails, ResolveHead, ListFiles, FetchFile, BuildGraph, WriteGraph,
             ReadExisting, TruncateSummary, WriteSummary, JobDies, OnlyScreens, OnlyJob,
             Tools, LoadGraph, ReadGraph, StoreGraph, FindScreen, ReadStamp, Restart, OnlyTools
    <3>2. QED
      BY <3>1, <1>1, <1>11
  <2>3. QED
    BY <2>1, <2>2
<1>12. QED
  BY <1>3, <1>4, <1>5, <1>6, <1>7, <1>8, <1>9, <1>10, <1>11 DEF Next, investigate

\* A high verdict names the commit that wrote the line of the deepest frame
\* (investigation.py, gitlab_client.py).
THEOREM HighAlwaysNamesTheWriter == Spec => []HighNamesTheWriter
<1>1. RunInv /\ GraphInv => HighNamesTheWriter
  <2>1. SUFFICES ASSUME RunInv, GraphInv, run.verdict.confidence = "high" PROVE HighNamesTheWriter
    BY DEF HighNamesTheWriter
  <2> DEFINE L(k) == CrashLine(branch, k)
             ch(k) == k = 1 \/ L(k - 1) # L(k)
  <2>2. /\ run.crash # <<>> /\ run.commit # NoCommit
        /\ run.seen \in 1 .. Len(branch)
        /\ run.text = L(run.seen)
        /\ run.blamed \in run.seen .. Len(branch)
        /\ run.commit \in 1 .. run.blamed
        /\ \A j \in run.commit .. run.blamed : L(j) = L(run.blamed)
        /\ ch(run.commit)
    BY <2>1 DEF RunInv, SeenGood, WrittenGood
  <2>3. Len(branch) \in Nat
    BY <2>1, TipIs DEF GraphInv
  <2>4. CrashGood(run.trace, run.crash)
    BY <2>1 DEF RunInv
  <2>5. \A k : LineAt(k, run.crash[1]) = L(k)
    BY DEF LineAt, CrashLine
  <2> HIDE DEF L
  <2>6. ASSUME NEW k \in run.commit + 1 .. run.blamed PROVE ~ch(k)
    <3>1. k \in run.commit .. run.blamed /\ k - 1 \in run.commit .. run.blamed /\ k # 1
      BY <2>2
    <3>2. L(k) = L(run.blamed) /\ L(k - 1) = L(run.blamed)
      BY <3>1, <2>2
    <3>3. QED
      BY <3>1, <3>2
  <2>7. L(run.commit) = run.text \/ \E k \in run.seen + 1 .. run.blamed : ch(k)
    <3>1. SUFFICES ASSUME \A k \in run.seen + 1 .. run.blamed : ~ch(k) PROVE L(run.commit) = run.text
      OBVIOUS
    <3>2. run.seen \in Nat /\ run.blamed \in Nat /\ run.seen >= 1 /\ run.blamed >= run.seen
      BY <2>2, <2>3
    <3> DEFINE Same == {k \in Nat : (run.seen <= k /\ k <= run.blamed) => L(k) = L(run.seen)}
    <3>3. 0 \in Same
      BY <3>2
    <3>4. ASSUME NEW k \in Nat, k \in Same PROVE k + 1 \in Same
      <4>1. SUFFICES ASSUME run.seen <= k + 1, k + 1 <= run.blamed PROVE L(k + 1) = L(run.seen)
        OBVIOUS
      <4>2. CASE run.seen = k + 1
        BY <4>2
      <4>3. CASE run.seen # k + 1
        <5>1. k + 1 \in run.seen + 1 .. run.blamed /\ run.seen <= k /\ k <= run.blamed /\ (k + 1) - 1 = k
          BY <4>1, <4>3, <3>2
        <5>2. L(k) = L(run.seen)
          BY <5>1, <3>4
        <5>3. L((k + 1) - 1) = L(k + 1)
          BY <5>1, <3>1
        <5>4. QED
          BY <5>1, <5>2, <5>3
      <4>4. QED
        BY <4>2, <4>3
    <3> HIDE DEF Same
    <3>5. run.blamed \in Same
      BY <3>2, <3>3, <3>4, Counting
    <3>6. L(run.blamed) = L(run.seen)
      BY <3>2, <3>5 DEF Same
    <3>7. run.commit \in run.commit .. run.blamed
      BY <2>2, <3>2
    <3>8. QED
      BY <2>2, <3>6, <3>7
  <2>8. QED
    BY <2>2, <2>4, <2>5, <2>6, <2>7 DEF HighNamesTheWriter, CrashGood
<1>2. GraphInv /\ RunInv /\ [Next]_vars => GraphInv' /\ RunInv'
  BY GraphStep, RunStep
<1>3. QED
  BY <1>1, <1>2, GraphInit, RunInit, PTL DEF Spec

(***************************************************************************)
(* The types.                                                              *)
(***************************************************************************)

\* The files, the processes and the graphs have the shapes the code gives them,
\* torn and missing ones included (index.py, graph_store.py, investigation.py).
THEOREM IndexTypes == Spec => []TypeOK
<1> DEFINE Inv == GraphInv /\ RunInv /\ CacheInv /\ HumanInv /\ ScreensInv
<1>1. Init => Inv
  BY GraphInit, RunInit, CacheInit, HumanInit, ScreensInit
<1>2. Inv /\ [Next]_vars => Inv'
  BY GraphStep, RunStep, CacheStep, HumanStep, ScreensStep
<1>3. Inv => TypeOK
  <2>1. SUFFICES ASSUME GraphInv, RunInv, CacheInv, HumanInv, ScreensInv PROVE TypeOK
    OBVIOUS
  <2>2. History(branch) /\ Len(branch) \in Nat
    BY <2>1, TipIs DEF GraphInv
  <2>3. branch # <<>> /\ \A k \in DOMAIN branch : DOMAIN branch[k] \subseteq Files
    <3>1. \A k \in DOMAIN branch : branch[k] \in Trees
      BY <2>2, TipIs
    <3>2. \A k \in DOMAIN branch : DOMAIN branch[k] \subseteq Files
      BY <3>1, TreeIs
    <3>3. QED
      BY <3>2, <2>2 DEF History
  <2>4. graphs.state \in {"none", "torn", "whole"} /\ graphs.mtime \in Nat
    BY <2>1 DEF CacheInv, GraphsShape
  <2>5. summary.state \in {"none", "torn", "whole"} /\ summary.sha \in 0 .. Len(branch)
    BY <2>1 DEF HumanInv, SummaryShape, GraphInv, SummaryGood
  <2>6. {screens.head, screens.areas, screens.meta} \subseteq 0 .. frontend
    BY <2>1 DEF ScreensInv, ScreensShape, StampsBehind
  <2>7. job.stamp \in 0 .. Len(branch)
    BY <2>1 DEF GraphInv, JobGood
  <2>8. cache = <<>> \/ cache[1].mtime \in 0 .. graphs.mtime + ExportTime
    BY <2>1, <2>4 DEF CacheInv, GraphsShape, ReadUnder, _artifact_mtime, ExportTime, NoTime
  <2>9. run.commit \in 0 .. Len(branch)
    <3>1. CASE run.commit = NoCommit
      BY <3>1, <2>2 DEF NoCommit
    <3>2. CASE run.commit # NoCommit
      <4>1. /\ run.blamed \in run.seen .. Len(branch)
            /\ run.commit \in 1 .. run.blamed
            /\ run.seen \in 1 .. Len(branch)
        BY <2>1, <3>2 DEF RunInv, WrittenGood, SeenGood
      <4>2. QED
        BY <4>1, <2>2
    <3>3. QED
      BY <3>1, <3>2
  <2>10. ASSUME NEW g \in {graphs.graph, job.graph} \cup {cache[i].graph : i \in DOMAIN cache},
                NEW e \in g.edges
         PROVE  {e.src, e.dst} \subseteq Ids(g)
    <3>1. Joined(graphs.graph) /\ Joined(job.graph) /\ \A i \in DOMAIN cache : Joined(cache[i].graph)
      BY <2>1 DEF GraphInv, GraphGood, JobGood, CallsGood
    <3>2. Joined(g)
      BY <3>1
    <3>3. QED
      BY <3>2 DEF Joined
  <2>11. QED
    BY <2>3, <2>4, <2>5, <2>6, <2>7, <2>8, <2>9, <2>10 DEF TypeOK
<1>4. QED
  BY <1>1, <1>2, <1>3, PTL DEF Spec
=============================================================================
