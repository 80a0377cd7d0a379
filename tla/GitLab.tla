------------------------------- MODULE GitLab -------------------------------
(***************************************************************************)
(* The GitLab reads of the program (gitlab_client.py), as functions of the *)
(* history of the branch they name.  A history is a sequence of commits,   *)
(* each the tree it leaves: a function from the paths of its files to      *)
(* their contents.  Every read answers from the branch as it is when it is *)
(* made, and no read names a commit of it.                                 *)
(***************************************************************************)
EXTENDS CodeGraph, Order

CONSTANTS
    MergeRequests,  \* a commit -> the merge requests GitLab links to it
    Listing         \* a set of paths -> the sequence of them, sorted

ASSUME ListingAssumption ==
    /\ Listing \in [SUBSET Files -> Seq(Files)]
    /\ \A paths \in SUBSET Files : Range(Listing[paths]) = paths /\ IsInjective(Listing[paths])

NoCommit == 0

Tip(history) == history[Len(history)]

Text(tree, path) == Ast[tree[path]].text

Has(history, path) == path \in DOMAIN Tip(history)

(* The lines start .. end of a file, by number; what is not there is left    *)
(* out.  Of a file that is not there the read fails: see Has.               *)
get_file_lines(history, path, start, end) ==
    LET lines == Text(Tip(history), path)
        first == IF start > 1 THEN start ELSE 1
        last == IF end < Len(lines) THEN end ELSE Len(lines)
    IN  [n \in first .. last |-> lines[n]]

list_source_files(history) == Listing[DOMAIN Tip(history)]

get_file(history, path) == Tip(history)[path]

(* A line as a commit has it.                                               *)
LineIn(tree, path, n) ==
    IF path \in DOMAIN tree /\ n \in DOMAIN Text(tree, path) THEN <<Text(tree, path)[n]>> ELSE <<>>

(* The commit that wrote a line as the branch has it: git's own answer.      *)
Wrote(history, path, n) ==
    LET line(k) == LineIn(history[k], path, n)
    IN  CHOOSE k \in DOMAIN history :
            /\ \A j \in k .. Len(history) : line(j) = line(Len(history))
            /\ k = 1 \/ line(k - 1) # line(k)

(* GitLab's blame of a file: one span per run of lines of the same commit.   *)
BlameSpans(history, path) ==
    LET size == Len(Text(Tip(history), path))
        opens == {n \in 1 .. size : n = 1 \/ Wrote(history, path, n) # Wrote(history, path, n - 1)}
        order == Ascending(opens)
        next(i) == IF i = Cardinality(opens) THEN size + 1 ELSE order[i + 1]
    IN  [i \in DOMAIN order |-> [commit |-> Wrote(history, path, order[i]),
                                 lines |-> next(i) - order[i]]]

(* A bug: a span is taken to end a line later.                               *)
Holding_inclusive(spans, n) ==
    LET cursor[i \in DOMAIN spans] == IF i = 1 THEN 1 ELSE cursor[i - 1] + spans[i - 1].lines
    IN  {i \in DOMAIN spans : cursor[i] <= n /\ n <= cursor[i] + spans[i].lines}

(* The spans that hold the line, found by counting lines from the first.     *)
Holding(spans, n) ==
    LET cursor[i \in DOMAIN spans] == IF i = 1 THEN 1 ELSE cursor[i - 1] + spans[i - 1].lines
    IN  {i \in DOMAIN spans : cursor[i] <= n /\ n < cursor[i] + spans[i].lines}

blame_line(history, path, n) ==
    IF ~Has(history, path)
    THEN NoCommit
    ELSE LET spans == BlameSpans(history, path)
             held == Holding(spans, n)
         IN  IF held = {} THEN NoCommit ELSE spans[CHOOSE i \in held : TRUE].commit

(* The head of the branch, which names the commit the branch is at.          *)
get_commit(history) == Len(history)

merge_requests_for_commit(commit) == MergeRequests[commit]
=============================================================================
