-------------------------------- MODULE FixMr --------------------------------
(***************************************************************************)
(* From a verdict to merge requests: _suggest_fix_background and           *)
(* raise_mr_endpoint of webapp/app.py with suggest_fix (fix_agent.py) and  *)
(* raise_mr (fix_mr.py) inside them, call by call; with reviewers who      *)
(* reject the suggestion or reset the ticket meanwhile, developers who     *)
(* push to the branches a merge request goes to and close it, calls to     *)
(* GitLab that fail or whose answer is lost, and restarts of the process.  *)
(*                                                                         *)
(* Suggestions run one at a time in the row's job slot; nothing keeps two  *)
(* requests from raising merge requests together.  The row of the cost     *)
(* ledger a suggestion ends with is Ledger's, the agent's messages are     *)
(* Investigation's.  External: GitLab, and what the agent proposes.        *)
(***************************************************************************)
EXTENDS ReviewStore, FixPatch

CONSTANTS
    Projects, Files, Targets,   \* repositories, their files, the branches they come with
    DefaultRef,                 \* client.default_ref
    FirstTrees,                 \* branch contents at the start: project, branch, file
    Contents,                   \* what developers push to each file
    Evidence,                   \* the evidence chain of each verdict, in order
    Proposals,                  \* what the agent may answer
    Bodies,                    \* the request bodies: project -> branch, or NoTarget
    MaxEditFiles,               \* _MAX_EDIT_FILES
    MaxSuggestions, MaxRaises,  \* bounds: threads, requests
    MaxStarts,                  \* bound: threads and requests together
    MaxEvents                   \* bound: resets, rejections, pushes, closed requests, faults

NoTarget == "no target"         \* a project the request names no branch for
Absent == <<>>                  \* a branch that is not there
FixBranch == "fix"              \* feature/ai-fix-<key>

ASSUME FixAssumption ==
    /\ DefaultRef \in [Projects -> Targets]
    /\ FixBranch \notin Targets
    /\ \A p \in Projects, b \in Targets : DOMAIN FirstTrees[p][b] \subseteq Files
    /\ Bodies \subseteq [Projects -> Targets \cup {FixBranch, NoTarget}]
    /\ Evidence \in Seq(Range(Evidence))
    /\ \A v \in DOMAIN Evidence : Evidence[v] \in Seq(Range(Evidence[v]))
    /\ \A p \in Proposals : p.edits \in Seq(Range(p.edits))
    /\ {MaxEditFiles, MaxSuggestions, MaxRaises, MaxStarts, MaxEvents} \subseteq Nat

VARIABLES
    row,        \* the ticket's row; bot_fix numbers a document of `fixes`
    verdicts,   \* verdicts stored so far
    fixes,      \* the documents bot_fix_json has held
    sug,        \* the threads of _suggest_fix_background
    req,        \* the requests in raise_mr_endpoint
    gitlab,     \* [tree: project -> branch -> file -> text, mrs: merge requests]
    offered,    \* history: the suggestion on offer, and whether a verdict came after it
    events      \* counts what MaxEvents bounds

vars == <<row, verdicts, fixes, sug, req, gitlab, offered, events>>

Suggestions == 1 .. MaxSuggestions
Requests == 1 .. MaxRaises

(* `crossed` is history: the ticket was reset, a verdict stored over the one *)
(* before, or the suggestion rejected or replaced, after this thread or      *)
(* request had read it.                                                      *)
NoThread == [pc |-> "unstarted", verdict |-> 0, edits |-> <<>>, keys |-> <<>>, raw |-> <<>>,
             fixable |-> FALSE, crossed |-> FALSE]

(* `steady` is history: since the request came to this repository nobody     *)
(* else has changed the branch it merges into, until its own was cut from    *)
(* it, or, from then on, its own.                                            *)
NoRequest == [pc |-> "unstarted", doc |-> 0, targets |-> <<>>, todo |-> <<>>, files |-> <<>>,
              actions |-> <<>>, skipped |-> {}, results |-> <<>>,
              base |-> Absent, steady |-> TRUE, crossed |-> FALSE]

Init ==
    /\ row = FreshRow
    /\ verdicts = 0
    /\ fixes = <<>>
    /\ sug = [s \in Suggestions |-> NoThread]
    /\ req = [r \in Requests |-> NoRequest]
    /\ gitlab = [tree |-> [p \in Projects |-> [b \in Targets \cup {FixBranch} |->
                              IF b = FixBranch THEN Absent ELSE FirstTrees[p][b]]],
                 mrs |-> <<>>]
    /\ offered = [fix |-> 0, overtaken |-> FALSE]
    /\ events = 0

Over == {"unstarted", "done", "killed"}

Started(slots) == {k \in DOMAIN slots : slots[k].pc # "unstarted"}

FirstFree(slots, n) ==
    /\ Started(slots) = 1 .. (n - 1)
    /\ Cardinality(Started(sug)) + Cardinality(Started(req)) < MaxStarts

Event == events < MaxEvents /\ events' = events + 1

-----------------------------------------------------------------------------
(* The row: an investigation stores a verdict, reviewers reset and reject   *)

\* Threads that have read their verdict, requests that have read the fix.
CrossAll ==
    /\ sug' = [s \in Suggestions |->
                  IF sug[s].pc \in {"explore", "fetch", "save"} THEN [sug[s] EXCEPT !.crossed = TRUE]
                  ELSE sug[s]]
    /\ req' = [r \in Requests |->
                  IF req[r].pc \notin Over THEN [req[r] EXCEPT !.crossed = TRUE] ELSE req[r]]

\* A re-run of a decided ticket stores its verdict over the one before, and the
\* late thread of a run that was reset stores one too: neither clears the fix.
VerdictSaved ==
    /\ verdicts < Len(Evidence)
    /\ verdicts' = verdicts + 1
    /\ row' = save_rca(row, verdicts + 1)
    /\ offered' = [offered EXCEPT !.overtaken = @ \/ row.bot_fix # 0]
    /\ CrossAll
    /\ UNCHANGED <<fixes, gitlab, events>>

reset_rca ==
    /\ Event
    /\ row' = reset_row(row)
    /\ offered' = [fix |-> 0, overtaken |-> FALSE]
    /\ CrossAll
    /\ UNCHANGED <<verdicts, fixes, gitlab>>

reject_fix ==
    /\ row.bot_fix # 0
    /\ Event
    /\ row' = clear_fix(row)
    /\ offered' = [fix |-> 0, overtaken |-> FALSE]
    /\ req' = [r \in Requests |->
                  IF req[r].pc \notin Over THEN [req[r] EXCEPT !.crossed = TRUE] ELSE req[r]]
    /\ UNCHANGED <<verdicts, fixes, sug, gitlab>>

-----------------------------------------------------------------------------
(* Suggestions *)

suggest_fix_endpoint(s) ==
    /\ FirstFree(sug, s)
    /\ row.bot_rca # 0
    /\ sug' = [sug EXCEPT ![s].pc = "start_job"]
    /\ UNCHANGED <<row, verdicts, fixes, req, gitlab, offered, events>>

StartsJob(s) ==
    /\ sug[s].pc = "start_job"
    /\ IF start_job_selects(row)
       THEN row' = start_job(row, "fix") /\ sug' = [sug EXCEPT ![s].pc = "read"]
       ELSE UNCHANGED row /\ sug' = [sug EXCEPT ![s].pc = "done"]
    /\ UNCHANGED <<verdicts, fixes, req, gitlab, offered, events>>

\* A verdict that is gone is an error; one that pins no code needs no agent.
ReadsVerdict(s) ==
    /\ sug[s].pc = "read"
    /\ sug' = [sug EXCEPT ![s].verdict = row.bot_rca,
                          ![s].pc = IF row.bot_rca = 0 THEN "fail"
                                    ELSE IF _candidate_projects(Evidence[row.bot_rca]) = <<>>
                                    THEN "save" ELSE "explore"]
    /\ UNCHANGED <<row, verdicts, fixes, req, gitlab, offered, events>>

\* The agent answers: something that is no fix, or edits to fetch the files of.
Explores(s) ==
    /\ sug[s].pc = "explore"
    /\ \E p \in Proposals :
          LET edits == WithProjects(p.edits, _candidate_projects(Evidence[sug[s].verdict]))
              keys == FetchedKeys(edits, MaxEditFiles)
          IN  sug' = IF ~ p.fixable \/ edits = <<>> THEN [sug EXCEPT ![s].pc = "save"]
                     ELSE [sug EXCEPT ![s].pc = IF keys = <<>> THEN "save" ELSE "fetch",
                                      ![s].fixable = TRUE, ![s].edits = edits, ![s].keys = keys]
    /\ UNCHANGED <<row, verdicts, fixes, req, gitlab, offered, events>>

\* The agent's run fails, or the 420 s are over.
ExploringFails(s) ==
    /\ sug[s].pc = "explore"
    /\ sug' = [sug EXCEPT ![s].pc = "fail"]
    /\ UNCHANGED <<row, verdicts, fixes, req, gitlab, offered, events>>

\* A file that cannot be fetched is left out.
Fetches(s) ==
    /\ sug[s].pc = "fetch"
    /\ LET key == Head(sug[s].keys)
           rest == Tail(sug[s].keys)
           next == [sug[s] EXCEPT !.keys = rest, !.pc = IF rest = <<>> THEN "save" ELSE "fetch"]
           there == key[1] \in Projects /\ key[2] \in DOMAIN gitlab.tree[key[1]][DefaultRef[key[1]]]
       IN  \/ /\ there
              /\ sug' = [sug EXCEPT ![s] = [next EXCEPT !.raw =
                            Put(@, key, gitlab.tree[key[1]][DefaultRef[key[1]]][key[2]])]]
              /\ UNCHANGED events
           \/ /\ sug' = [sug EXCEPT ![s] = next]
              /\ IF there THEN Event ELSE UNCHANGED events
    /\ UNCHANGED <<row, verdicts, fixes, req, gitlab, offered>>

\* The document as stored; `suggestion`, `verdict` and `crossed` are history.
SavesFix(s) ==
    LET x == sug[s]
        n == Len(fixes) + 1
    IN  /\ x.pc = "save"
        /\ fixes' = Append(fixes, [fixable |-> x.fixable, files |-> _build_files(x.edits, x.raw),
                                   request |-> 0, results |-> <<>>,
                                   suggestion |-> n, verdict |-> x.verdict, crossed |-> x.crossed])
        /\ row' = save_fix(row, n)
        /\ offered' = [fix |-> n, overtaken |-> FALSE]
        /\ sug' = [sug EXCEPT ![s] = [NoThread EXCEPT !.pc = "finish"]]
        /\ req' = [r \in Requests |->
                      IF req[r].pc \notin Over THEN [req[r] EXCEPT !.crossed = TRUE] ELSE req[r]]
        /\ UNCHANGED <<verdicts, gitlab, events>>

JobEnds(s) ==
    /\ \/ sug[s].pc = "finish" /\ row' = finish_job(row)
       \/ sug[s].pc = "fail" /\ row' = fail_job(row)
    /\ sug' = [sug EXCEPT ![s] = [NoThread EXCEPT !.pc = "done"]]
    /\ UNCHANGED <<verdicts, fixes, req, gitlab, offered, events>>

-----------------------------------------------------------------------------
(* Merge requests.  `todo` are the repositories left, the first in hand.    *)

\* The picker offers every branch there is (app.py:444), the fix branch too.
target(x) ==
    LET project == Head(x.todo)
    IN  IF x.targets[project] = NoTarget THEN DefaultRef[project] ELSE x.targets[project]

InProject(x, todo, fix) ==
    [x EXCEPT !.pc = IF todo = <<>> THEN "save" ELSE "file", !.todo = todo,
              !.files = IF todo = <<>> THEN <<>> ELSE FilesIn(fix, Head(todo)),
              !.actions = <<>>, !.skipped = {}, !.base = Absent, !.steady = TRUE]

\* A result, 0 for an error, and on to the next repository.
With(x, mr) ==
    InProject([x EXCEPT !.results = Append(@, [project |-> Head(x.todo), mr |-> mr])],
              Tail(x.todo), fixes[x.doc])

\* The request is over: an exception out of httpx ends it, results and all.
Ended == [NoRequest EXCEPT !.pc = "done"]

\* The branch a request reads, then its own.
Uses(x, p, b) ==
    \/ x.pc \in {"file", "branch"} /\ Head(x.todo) = p /\ target(x) = b
    \/ x.pc \in {"commit", "open"} /\ Head(x.todo) = p /\ FixBranch = b

\* The requests after a change of branch b in p.
Unsettled(p, b) ==
    [k \in Requests |-> IF Uses(req[k], p, b) THEN [req[k] EXCEPT !.steady = FALSE] ELSE req[k]]

raise_mr(r) ==
    /\ FirstFree(req, r)
    /\ row.bot_fix # 0
    /\ LET fix == fixes[row.bot_fix]
       IN  /\ fix.fixable
           /\ by_project(fix) # <<>>
           /\ \E targets \in Bodies :
                 req' = [req EXCEPT ![r] = InProject([NoRequest EXCEPT !.doc = row.bot_fix,
                                                                      !.targets = targets],
                                                     by_project(fix), fix)]
    /\ UNCHANGED <<row, verdicts, fixes, sug, gitlab, offered, events>>

\* Mutant: read where the suggestion was made, not where it is to be merged.
CurrentText_default(x) == gitlab.tree[Head(x.todo)][DefaultRef[Head(x.todo)]][Head(x.files).file]

CurrentText(x) == gitlab.tree[Head(x.todo)][target(x)][Head(x.files).file]

\* The files of one repository are read and edited anew, one by one.
ReadsFile(r) ==
    LET x == req[r]
        f == Head(x.files)
        there == f.file \in DOMAIN gitlab.tree[Head(x.todo)][target(x)]
        raw == CurrentText(x)
        new == _reapply(raw, Applied(f))
        Goes(y) == IF Len(x.files) > 1 THEN [y EXCEPT !.files = Tail(x.files)]
                   ELSE IF y.actions = <<>> THEN With(y, 0)
                   ELSE [y EXCEPT !.files = <<>>, !.pc = "branch"]
        skipping == Goes([x EXCEPT !.skipped = @ \cup {f.file}])
    IN  /\ x.pc = "file"
        /\ \/ /\ there
              /\ req' = [req EXCEPT ![r] = IF new = raw THEN skipping
                                           ELSE Goes([x EXCEPT !.actions = Put(@, f.file, new)])]
              /\ UNCHANGED events
           \/ /\ req' = [req EXCEPT ![r] = skipping]
              /\ IF there THEN Event ELSE UNCHANGED events
        /\ UNCHANGED <<row, verdicts, fixes, sug, gitlab, offered>>

\* GitLab did what was asked and its answer came, or was lost.
Answers(r, others, y) ==
    \/ req' = [others EXCEPT ![r] = y] /\ UNCHANGED events
    \/ req' = [others EXCEPT ![r] = Ended] /\ Event

CutsBranch(r) ==
    LET x == req[r]
        project == Head(x.todo)
        there == gitlab.tree[project][FixBranch] # Absent
        base == gitlab.tree[project][target(x)]
    IN  /\ x.pc = "branch"
        /\ IF there
           THEN UNCHANGED gitlab /\ Answers(r, req, [x EXCEPT !.pc = "commit", !.steady = FALSE])
           ELSE /\ base # Absent
                /\ gitlab' = [gitlab EXCEPT !.tree[project][FixBranch] = base]
                /\ Answers(r, Unsettled(project, FixBranch), [x EXCEPT !.pc = "commit", !.base = base])
        /\ UNCHANGED <<row, verdicts, fixes, sug, offered>>

\* Whole files, whatever the branch holds by now.
Updated(tree, actions) == [f \in DOMAIN tree |-> IF f \in DOMAIN actions THEN actions[f] ELSE tree[f]]

Commits(r) ==
    LET x == req[r]
        project == Head(x.todo)
    IN  /\ x.pc = "commit"
        /\ DOMAIN x.actions \subseteq DOMAIN gitlab.tree[project][FixBranch]
        /\ gitlab' = [gitlab EXCEPT !.tree[project][FixBranch] = Updated(@, x.actions)]
        /\ Answers(r, Unsettled(project, FixBranch), [x EXCEPT !.pc = "open"])
        /\ UNCHANGED <<row, verdicts, fixes, sug, offered>>

OpenAlready(project, branch) ==
    \E i \in DOMAIN gitlab.mrs : /\ gitlab.mrs[i].open
                                 /\ gitlab.mrs[i].project = project
                                 /\ gitlab.mrs[i].target = branch

OpensMr(r) ==
    LET x == req[r]
        project == Head(x.todo)
        n == Len(gitlab.mrs) + 1
    IN  /\ x.pc = "open"
        /\ target(x) # FixBranch
        /\ gitlab.tree[project][FixBranch] # Absent
        /\ ~ OpenAlready(project, target(x))
        /\ gitlab' = [gitlab EXCEPT !.mrs =
                         Append(@, [project |-> project, target |-> target(x), open |-> TRUE,
                                    request |-> r, doc |-> x.doc, skipped |-> x.skipped,
                                    base |-> x.base, head |-> gitlab.tree[project][FixBranch],
                                    steady |-> x.steady])]
        /\ Answers(r, req, With(x, n))
        /\ UNCHANGED <<row, verdicts, fixes, sug, offered>>

\* GitLab refuses a call: by its state (a branch or a file that is not there, a
\* request that is open already or goes to its own branch), or for a reason of its
\* own.  A call refused has done nothing: that is assumed of GitLab.
Refused(r) ==
    LET x == req[r]
        project == Head(x.todo)
        branch == gitlab.tree[project][FixBranch]
    IN  /\ x.pc \in {"branch", "commit", "open"}
        /\ \/ /\ \/ x.pc = "branch" /\ branch = Absent /\ gitlab.tree[project][target(x)] = Absent
                 \/ x.pc = "commit" /\ ~ DOMAIN x.actions \subseteq DOMAIN branch
                 \/ /\ x.pc = "open"
                    /\ branch = Absent \/ target(x) = FixBranch \/ OpenAlready(project, target(x))
              /\ UNCHANGED events
           \/ Event
        /\ req' = [req EXCEPT ![r] = With(x, 0)]
        /\ UNCHANGED <<row, verdicts, fixes, sug, gitlab, offered>>

\* A call that does not reach GitLab; default_ref raises too.
Breaks(r) ==
    /\ req[r].pc \in {"file", "branch", "commit", "open"}
    /\ req' = [req EXCEPT ![r] = Ended]
    /\ Event
    /\ UNCHANGED <<row, verdicts, fixes, sug, gitlab, offered>>

\* Mutant: adds the results to whatever fix the row holds by now.
SavesMr_anew(r) ==
    LET x == req[r]
    IN  /\ x.pc = "save"
        /\ row.bot_fix # 0
        /\ fixes' = Append(fixes, [fixes[row.bot_fix] EXCEPT !.request = r, !.results = x.results,
                                                            !.crossed = @ \/ x.crossed])
        /\ row' = save_fix(row, Len(fixes) + 1)
        /\ req' = [req EXCEPT ![r] = Ended]
        /\ UNCHANGED <<verdicts, sug, gitlab, offered, events>>

SavesMr(r) ==
    LET x == req[r]
    IN  /\ x.pc = "save"
        /\ fixes' = Append(fixes, [fixes[x.doc] EXCEPT !.request = r, !.results = x.results,
                                                       !.crossed = @ \/ x.crossed])
        /\ row' = save_fix(row, Len(fixes) + 1)
        /\ req' = [req EXCEPT ![r] = Ended]
        /\ UNCHANGED <<verdicts, sug, gitlab, offered, events>>

-----------------------------------------------------------------------------
(* Developers, and restarts *)

Pushes(p, b, f, text) ==
    /\ Event
    /\ gitlab.tree[p][b] # Absent
    /\ gitlab.tree[p][b] # Put(gitlab.tree[p][b], f, text)
    /\ gitlab' = [gitlab EXCEPT !.tree[p][b] = Put(@, f, text)]
    /\ req' = Unsettled(p, b)
    /\ UNCHANGED <<row, verdicts, fixes, sug, offered>>

\* A merge request is closed, its branch kept or removed.
Closes(i) ==
    /\ Event
    /\ gitlab.mrs[i].open
    /\ LET p == gitlab.mrs[i].project
           shut == [gitlab EXCEPT !.mrs[i].open = FALSE]
       IN  \/ gitlab' = shut /\ UNCHANGED req
           \/ /\ gitlab' = [shut EXCEPT !.tree[p][FixBranch] = Absent]
              /\ req' = Unsettled(p, FixBranch)
    /\ UNCHANGED <<row, verdicts, fixes, sug, offered>>

Restart ==
    /\ Event
    /\ row' = init_db(row)
    /\ sug' = [s \in Suggestions |-> IF sug[s].pc \in Over THEN sug[s]
                                     ELSE [NoThread EXCEPT !.pc = "killed"]]
    /\ req' = [r \in Requests |-> IF req[r].pc \in Over THEN req[r]
                                  ELSE [NoRequest EXCEPT !.pc = "killed"]]
    /\ UNCHANGED <<verdicts, fixes, gitlab, offered>>

Suggesting(s) ==
    \/ suggest_fix_endpoint(s) \/ StartsJob(s) \/ ReadsVerdict(s) \/ Explores(s)
    \/ ExploringFails(s) \/ Fetches(s) \/ SavesFix(s) \/ JobEnds(s)

Raising(r) ==
    \/ raise_mr(r) \/ ReadsFile(r) \/ CutsBranch(r) \/ Commits(r) \/ OpensMr(r)
    \/ Refused(r) \/ Breaks(r) \/ SavesMr(r)

Next ==
    \/ VerdictSaved \/ reset_rca \/ reject_fix \/ Restart
    \/ \E s \in Suggestions : Suggesting(s)
    \/ \E r \in Requests : Raising(r)
    \/ \E p \in Projects, b \in Targets \cup {FixBranch}, f \in Files :
           \E text \in Contents[f] : Pushes(p, b, f, text)
    \/ \E i \in DOMAIN gitlab.mrs : Closes(i)

Spec == Init /\ [][Next]_vars

-----------------------------------------------------------------------------
(* Types *)

\* The variables have the values the code can give them; at most
\* _MAX_EDIT_FILES files are fetched for a suggestion, and a stored document
\* carries results only of a request that came to its end.
TypeOK ==
    /\ row \in Row /\ row.bot_fix \in 0 .. Len(fixes) /\ row.bot_rca \in 0 .. verdicts
    /\ verdicts \in 0 .. Len(Evidence)
    /\ \A s \in Suggestions :
          /\ sug[s].pc \in {"start_job", "read", "explore", "fetch", "save", "finish", "fail"} \cup Over
          /\ Cardinality(DOMAIN sug[s].raw) + Len(sug[s].keys) <= MaxEditFiles
    /\ \A r \in Requests :
          /\ req[r].pc \in {"file", "branch", "commit", "open", "save"} \cup Over
          /\ req[r].pc \notin Over => req[r].doc \in DOMAIN fixes
          /\ req[r].pc \in {"branch", "commit", "open"} => req[r].actions # <<>>
    /\ \A n \in DOMAIN fixes : fixes[n].results # <<>> => req[fixes[n].request].pc = "done"
    /\ \A p \in Projects, b \in Targets \cup {FixBranch} : DOMAIN gitlab.tree[p][b] \subseteq Files

-----------------------------------------------------------------------------
(* Safety *)

\* What a reviewer approved is what the merge request changes (fix_mr.py 10-12
\* and 101-106): the branch differs from the target branch it was cut from by
\* the applied edits of the reviewed document, found once more in each file,
\* and by nothing else; a file that has not changed since the suggestion read
\* it comes out as the diff showed it.  The branch must be the request's own,
\* and nobody may have pushed to the target while the files were being read.
MrIsTheReviewedDiff ==
    \A i \in DOMAIN gitlab.mrs :
        LET mr == gitlab.mrs[i]
        IN  mr.steady =>
            /\ DOMAIN mr.head = DOMAIN mr.base
            /\ \A f \in DOMAIN mr.base :
                  LET own == {x \in Range(FilesIn(fixes[mr.doc], mr.project)) : x.file = f}
                  IN  IF own = {} \/ f \in mr.skipped THEN mr.head[f] = mr.base[f]
                      ELSE \A x \in own :
                              /\ mr.head[f] = _reapply(mr.base[f], Applied(x))
                              /\ mr.base[f] = x.old => mr.head[f] = x.new

\* A stored suggestion is the last one stored, not rejected since, and built on
\* the verdict beside it.  The exceptions are those the code has.  save_fix says
\* that reset_rca clears it "so a fix generated for an old verdict never lingers
\* against a new one" (db.py 257-260), but a verdict may be stored without a
\* reset (POST /rca on a decided ticket, app.py 328-341; the late thread of a run
\* that was reset): the fix then stays, `overtaken`, until the next reset,
\* rejection or suggestion.  And a thread or a request that had read the row
\* before one of these writes what it has, `crossed`, and later requests carry
\* it on.
FixIsCurrent ==
    row.bot_fix # 0 =>
        LET fix == fixes[row.bot_fix]
        IN  \/ fix.crossed
            \/ /\ fix.suggestion = offered.fix
               /\ offered.overtaken \/ fix.verdict = row.bot_rca

\* The results stored with a fix are the whole truth about the request they are
\* of (fix_mr.py 90-167, app.py 474-476): one for each repository the fix has
\* applied edits in, in that order; a success is a merge request GitLab has, of
\* that request and that suggestion, and where there is an error the request has
\* opened none, since a call GitLab answers with an error has done nothing.
StoredMrTrue ==
    row.bot_fix # 0 /\ fixes[row.bot_fix].results # <<>> =>
        LET fix == fixes[row.bot_fix]
            OpenedIn(p) == {i \in DOMAIN gitlab.mrs : /\ gitlab.mrs[i].request = fix.request
                                                     /\ gitlab.mrs[i].project = p}
        IN  /\ [i \in DOMAIN fix.results |-> fix.results[i].project] = by_project(fix)
            /\ \A i \in DOMAIN fix.results :
                  LET res == fix.results[i]
                  IN  /\ OpenedIn(res.project) = {res.mr} \ {0}
                      /\ res.mr # 0 => fixes[gitlab.mrs[res.mr].doc].suggestion = fix.suggestion
=============================================================================
