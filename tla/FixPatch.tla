------------------------------ MODULE FixPatch ------------------------------
(***************************************************************************)
(* A suggested fix as text: applying the fix agent's edits to the files of *)
(* several repositories (fix_agent.py), and applying the edits that passed *)
(* once more when the merge requests are raised (fix_mr.py).               *)
(*                                                                         *)
(* A file is the sequence of its snippets; an edit replaces one snippet by *)
(* a sequence of them.  What an edit finds is then the number of places    *)
(* its snippet is at, which is all the code asks of it.                    *)
(***************************************************************************)
EXTENDS Sequences, Order

NoSnippet == "no snippet"       \* '' and a missing key
NoProject == "no project"
NoFile == "no file"

Places(text, snippet) == {i \in DOMAIN text : text[i] = snippet}

Once(text, snippet) == snippet # NoSnippet /\ Cardinality(Places(text, snippet)) = 1

\* str.replace(before, after, 1)
Replaced(text, e) ==
    LET i == CHOOSE k \in Places(text, e.before) : TRUE
    IN  SubSeq(text, 1, i - 1) \o e.after \o SubSeq(text, i + 1, Len(text))

\* d[key] = value
Put(d, key, value) == [k \in DOMAIN d \cup {key} |-> IF k = key THEN value ELSE d[k]]

-----------------------------------------------------------------------------
(* fix_agent.py *)

_apply_one(raw, e) ==
    IF Once(raw, e.before) THEN [text |-> Replaced(raw, e), applied |-> TRUE]
    ELSE [text |-> raw, applied |-> FALSE]

_CODE_EVIDENCE_KINDS == {"file_content", "stack_frame", "blame"}

\* The repositories of the verdict's code evidence, in order.
_candidate_projects(evidence) ==
    LET code == Picked(evidence, {i \in DOMAIN evidence : /\ evidence[i].kind \in _CODE_EVIDENCE_KINDS
                                                          /\ evidence[i].project # NoProject})
    IN  Distinct([i \in DOMAIN code |-> code[i].project])

\* An edit that names no repository is one of the first candidate.
WithProjects(edits, candidates) ==
    [i \in DOMAIN edits |->
        IF edits[i].project = NoProject THEN [edits[i] EXCEPT !.project = candidates[1]]
        ELSE edits[i]]

KeysOf(edits) == Distinct([i \in DOMAIN edits |-> <<edits[i].project, edits[i].file>>])

\* Those that name a file.
NamedKeys(edits) == Picked(KeysOf(edits), {i \in DOMAIN KeysOf(edits) : KeysOf(edits)[i][2] # NoFile})

\* Mutant: every file is fetched, however many.
FetchedKeys_all(edits, max) == NamedKeys(edits)

FetchedKeys(edits, max) ==
    [i \in {k \in DOMAIN NamedKeys(edits) : k <= max} |-> NamedKeys(edits)[i]]

Answered(e, applied) == [before |-> e.before, after |-> e.after, applied |-> applied]

\* One file of the suggestion; old and new are the two sides of its diff.
FileFix(key, edits, raw) ==
    LET cur[n \in 0 .. Len(edits)] ==
            IF n = 0 THEN raw ELSE _apply_one(cur[n - 1], edits[n]).text
    IN  [project |-> key[1], file |-> key[2], old |-> raw, new |-> cur[Len(edits)],
         edits |-> [n \in DOMAIN edits |->
                       Answered(edits[n], _apply_one(cur[n - 1], edits[n]).applied)]]

Unfetched(key, edits) ==
    [project |-> key[1], file |-> key[2], old |-> <<>>, new |-> <<>>,
     edits |-> [i \in DOMAIN edits |-> Answered(edits[i], FALSE)]]

_build_files(edits, files_raw) ==
    LET Own(key) == Picked(edits, {i \in DOMAIN edits : <<edits[i].project, edits[i].file>> = key})
        keys == KeysOf(edits)
    IN  [i \in DOMAIN keys |->
            IF keys[i] \in DOMAIN files_raw THEN FileFix(keys[i], Own(keys[i]), files_raw[keys[i]])
            ELSE Unfetched(keys[i], Own(keys[i]))]

-----------------------------------------------------------------------------
(* fix_mr.py *)

_reapply(raw, edits) ==
    LET cur[n \in 0 .. Len(edits)] ==
            IF n = 0 THEN raw
            ELSE IF Once(cur[n - 1], edits[n].before) THEN Replaced(cur[n - 1], edits[n])
            ELSE cur[n - 1]
    IN  cur[Len(edits)]

Applied(f) == Picked(f.edits, {i \in DOMAIN f.edits : f.edits[i].applied})

\* The files with an edit that passed the review, and their repositories in order.
Raisable(fix) ==
    Picked(fix.files, {i \in DOMAIN fix.files : LET f == fix.files[i]
                                                IN  /\ Applied(f) # <<>> /\ f.file # NoFile
                                                    /\ f.project # NoProject})

by_project(fix) == Distinct([i \in DOMAIN Raisable(fix) |-> Raisable(fix)[i].project])

FilesIn(fix, project) ==
    Picked(Raisable(fix), {i \in DOMAIN Raisable(fix) : Raisable(fix)[i].project = project})
=============================================================================
