-------------------------- MODULE MCInvestigation --------------------------
(***************************************************************************)
(* Values for the constants of Investigation, for TLC: the texts an agent  *)
(* may write, one per way the code treats them, and the price table.       *)
(***************************************************************************)
EXTENDS Investigation

File(path, exists) == [kind |-> "file_content", ref |-> path, url |-> TRUE, exists |-> exists]

Commit(exists) == [kind |-> "commit", ref |-> "sha", url |-> TRUE, exists |-> exists]

Verdict(form, evidence, mr) ==
    [form |-> form, empty |-> FALSE, confidence |-> "high", triage |-> "real_bug",
     categories |-> {"code", "gremlins"}, evidence |-> evidence, introducing_mr |-> mr,
     is_regression |-> "unset"]

Prose == [form |-> "prose", empty |-> FALSE]

Invented == Verdict("verdict", <<File("a.py", FALSE), File("a.py", FALSE), Commit(FALSE)>>, NoLink)

Half == Verdict("verdict", <<File("a.py", TRUE), Commit(FALSE)>>,
                [kind |-> "merge_request", ref |-> "7", url |-> TRUE, exists |-> FALSE])

AllTexts == {Prose, Invented, Half, Verdict("bad_shape", <<>>, NoLink)}

\* A first run in full, and a second one that only meets it.
TwoThenNone == [r \in 1 .. 2 |-> IF r = 1 THEN 2 ELSE 0]

Past(id, eval, fix_prompt, key) ==
    [id |-> id, eval |-> eval, fix_prompt |-> fix_prompt, key |-> key, error |-> FALSE,
     tokens |-> 1, cost |-> 1, model_cost |-> NoCost]

\* A query of the evaluation whose prompt looks like a fix's, a fix, and a query
\* that names no ticket; the runs' own spans name theirs.
ThePast ==
    {Past(3, TRUE, TRUE, FALSE), Past(4, FALSE, TRUE, FALSE), Past(5, FALSE, FALSE, FALSE)}

TheModels == {"opus"}

ThePrices == [m \in {"opus"} |-> 2]
=============================================================================
