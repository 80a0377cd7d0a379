------------------------------- MODULE MCFixMr -------------------------------
(***************************************************************************)
(* Values for the constants of FixMr, for TLC: two repositories whose      *)
(* production branch is not their default branch.                          *)
(***************************************************************************)
EXTENDS FixMr

TheDefault == [p \in {"shop", "mail"} |-> "dev"]

Two(f, g) == [f |-> f, g |-> g]

TheTrees ==
    [shop |-> [dev |-> Two(<<"a", "b">>, <<"c">>), prod |-> [f |-> <<"a", "b", "y">>]],
     mail |-> [dev |-> Two(<<"a">>, <<"c">>), prod |-> Two(<<"a">>, <<"c">>)]]

ThePush == [f |-> {<<"b", "a", "d">>}, g |-> {}]

Cite(kind, project) == [kind |-> kind, project |-> project]

TheEvidence ==
    <<<<Cite("commit", "mail"), Cite("file_content", "shop"), Cite("blame", "mail")>>,
      <<Cite("merge_request", "mail"), Cite("file_content", NoProject)>>>>

Edit(project, file, before, after) ==
    [project |-> project, file |-> file, before |-> before, after |-> after]

Fix(edits) == [fixable |-> TRUE, edits |-> edits]

\* Two edits in a row, the second on what the first wrote; an edit of a file
\* that has the snippet nowhere; a second repository, a third file; a file that
\* is on no branch.
TheProposals ==
    {Fix(<<Edit(NoProject, "f", "a", <<"x", "y">>), Edit("shop", "f", "y", <<"b", "z">>),
           Edit("shop", "f", "b", <<"q">>), Edit("mail", "f", "a", <<"x">>),
           Edit("mail", "g", "c", <<>>)>>),
     Fix(<<Edit("shop", "g", "c", <<"e">>), Edit("shop", NoFile, "c", <<"e">>),
           Edit("shop", "f", "b", <<"e">>), Edit("shop", "f", NoSnippet, <<"e">>)>>),
     Fix(<<Edit("mail", "h", "a", <<"x">>)>>),
     Fix(<<>>),
     [fixable |-> FALSE, edits |-> <<>>]}

TheBodies ==
    {[shop |-> "prod", mail |-> NoTarget], [shop |-> NoTarget, mail |-> FixBranch]}
=============================================================================
