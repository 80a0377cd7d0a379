------------------------------ MODULE Verdict ------------------------------
(***************************************************************************)
(* From the agent's last text to the verdict that is stored: the test that *)
(* lets a text through and the parser (agent.py), the check of its claims  *)
(* against GitLab and the downgrade (verify.py), the label (schema.py).    *)
(*                                                                         *)
(* A text is a record of what these functions tell apart.  Its form is     *)
(*   "prose"        no JSON object with a verdict field in it              *)
(*   "verdict"      such an object, plain or in one code fence             *)
(*   "inner_fence"  such an object after an opening fence, with a fence    *)
(*                  inside one of its strings                              *)
(*   "bad_shape"    such an object with a list where none can be read      *)
(* and its other fields are those of the object, as the agent wrote them.  *)
(***************************************************************************)
EXTENDS Naturals, Sequences, FiniteSets

CONSTANTS
    ReposDir,       \* REPOS_DIR names a directory of clones
    ClonedFiles     \* the paths that exist in a clone

ASSUME VerdictAssumption == ReposDir \in BOOLEAN

Forms == {"prose", "verdict", "inner_fence", "bad_shape"}

Confidence == {"high", "medium", "low"}

Triage == {"real_bug", "config", "environment", "likely_duplicate",
           "insufficient_evidence"}

OurCauses == {"code", "data", "infrastructure"}

TheirCauses == {"user_side", "third_party", "ux"}

CauseCategory == OurCauses \cup TheirCauses \cup {"unknown"}

FileKinds == {"file_content", "stack_frame"}

CommitKinds == {"commit", "blame"}

(* An evidence link.  `url` says whether the link's GitLab URL parses, and   *)
(* `exists` whether GitLab has the artifact the URL names.  The kind is      *)
(* whatever the agent wrote: one of no kind above is never looked up.        *)
Link == [kind: STRING, ref: STRING, url: BOOLEAN, exists: BOOLEAN]

NoLink == [kind |-> "none", ref |-> "", url |-> FALSE, exists |-> FALSE]

-----------------------------------------------------------------------------
(* agent.py: _looks_like_verdict, parse_verdict *)

looks_like_verdict(text) == text.form # "prose"

\* parse_verdict raises where a list is null or of something unhashable.
parse_raises(text) == text.form = "bad_shape"

cause_categories(text) ==
    LET valid == text.categories \cap CauseCategory
    IN  IF valid = {} THEN {"unknown"} ELSE valid

OneOf(value, values, default) == IF value \in values THEN value ELSE default

\* Splitting at the fences cuts the object at an inner one: the text that
\* passed _looks_like_verdict becomes the verdict "not valid JSON".
parse_verdict(text) ==
    IF text.form = "inner_fence"
    THEN [parsed |-> FALSE, confidence |-> "low", triage |-> "insufficient_evidence",
          categories |-> {"unknown"}, evidence |-> <<>>, introducing_mr |-> NoLink,
          is_regression |-> "unset"]
    ELSE [parsed |-> TRUE,
          confidence |-> OneOf(text.confidence, Confidence, "low"),
          triage |-> OneOf(text.triage, Triage, "insufficient_evidence"),
          categories |-> cause_categories(text),
          evidence |-> text.evidence,
          introducing_mr |-> text.introducing_mr,
          is_regression |-> text.is_regression]

-----------------------------------------------------------------------------
(* verify.py.  A check is stored under a key of its claim: the path without  *)
(* its line, eight digits of the SHA, or the number of the MR (of whatever   *)
(* project), so claims with one key leave one result, the last one's.        *)

Checkable(link) ==
    \/ link.url /\ link.kind \in FileKinds \cup CommitKinds \cup {"merge_request"}
    \/ link.kind \in FileKinds /\ ReposDir

CheckKey(link) ==
    CASE link.kind \in FileKinds       -> <<"path", link.ref>>
      [] link.kind \in CommitKinds     -> <<"sha", link.ref>>
      [] link.kind = "merge_request"   -> <<"mr", link.ref>>

\* Mutant: a call that raises is not held against the claim.
Passes_when_down(link, down) ==
    \/ link.kind \in FileKinds /\ ReposDir /\ link.ref \in ClonedFiles
    \/ link.url /\ (link.exists \/ down)

\* `down`: the GitLab call of this claim raises.
Passes(link, down) ==
    \/ link.kind \in FileKinds /\ ReposDir /\ link.ref \in ClonedFiles
    \/ link.url /\ link.exists /\ ~ down

\* The introducing MR is one more claim unless an MR of that number was seen.
IntroducingCounts(v) ==
    /\ v.introducing_mr.url
    /\ \A i \in DOMAIN v.evidence :
            Checkable(v.evidence[i]) => CheckKey(v.evidence[i]) # <<"mr", v.introducing_mr.ref>>

\* The checks of verdict v, key by key, the calls for the claims in `down`
\* (0 for the introducing MR) raising.
verify_verdict(v, down) ==
    LET claims == {i \in DOMAIN v.evidence : Checkable(v.evidence[i])}
        IsLast(i, k) == /\ CheckKey(v.evidence[i]) = k
                        /\ \A j \in claims : CheckKey(v.evidence[j]) = k => j <= i
        keys == {CheckKey(v.evidence[i]) : i \in claims}
        introducing == IF IntroducingCounts(v) THEN {<<"introducing", v.introducing_mr.ref>>}
                                               ELSE {}
    IN  [k \in keys \cup introducing |->
            IF k \in introducing THEN Passes(v.introducing_mr, 0 \in down)
                                 ELSE \E i \in claims :
                                        IsLast(i, k) /\ Passes(v.evidence[i], i \in down)]

Passed(checks) == Cardinality({k \in DOMAIN checks : checks[k]})

Total(checks) == Cardinality(DOMAIN checks)

\* One step down when more than half of the checks failed.
downgraded_confidence(confidence, checks) ==
    IF 2 * Passed(checks) >= Total(checks) THEN confidence
    ELSE IF confidence = "high" THEN "medium" ELSE "low"

-----------------------------------------------------------------------------
(* schema.py: the line a QA engineer reads *)

verdict_label(v) ==
    IF v.triage = "insufficient_evidence" \/ v.confidence = "low" THEN "Needs review"
    ELSE IF v.categories \cap OurCauses # {} THEN "Issue Accepted"
    ELSE IF v.categories \cap TheirCauses # {} THEN "Not a BUG"
    ELSE "Needs review"
=============================================================================
