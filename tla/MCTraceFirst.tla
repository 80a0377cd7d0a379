---------------------------- MODULE MCTraceFirst ----------------------------
(***************************************************************************)
(* Values for the constants of TraceFirst, for TLC: a repository of two    *)
(* files, the versions of each that are pushed, and the tickets.           *)
(***************************************************************************)
EXTENDS TraceFirst

TheModule == [f \in {"invoice", "api"} |-> <<"billing", f>>]

Class(name) == [class |-> TRUE, outer |-> <<>>, name |-> name]

Function(outer, name) == [class |-> FALSE, outer |-> outer, name |-> name]

Call(caller, name, self) == [caller |-> caller, name |-> name, self |-> self]

Line(code, names) == [code |-> code, names |-> names]

\* total calls round of its own class and tax; tax is called by its name alone.
Invoice1 ==
    [parses |-> TRUE,
     defs |-> {Class("Invoice"), Function(<<"Invoice">>, "total"),
               Function(<<"Invoice">>, "round"), Function(<<>>, "tax")},
     calls |-> <<Call(<<"Invoice", "total">>, "round", TRUE),
                 Call(<<"Invoice", "total">>, "tax", FALSE),
                 Call(<<>>, "tax", FALSE)>>,
     imports |-> {},
     text |-> <<Line("def total", {"total"}), Line("rate = x", {}), Line("return", {})>>]

\* tax now calls create, which makes a cycle; the crash line is another.
Invoice2 ==
    [Invoice1 EXCEPT !.calls = Append(@, Call(<<"tax">>, "create", FALSE)),
                     !.text[2] = Line("rate = y", {})]

Api1 ==
    [parses |-> TRUE,
     defs |-> {Function(<<>>, "create"), Function(<<>>, "post")},
     calls |-> <<Call(<<"create">>, "total", FALSE), Call(<<"post">>, "create", FALSE)>>,
     imports |-> {<<"billing", "invoice">>},
     text |-> <<Line("def create", {"create"})>>]

\* A second tax, so that a call of tax by name is ambiguous.
Api2 == [Api1 EXCEPT !.defs = @ \cup {Function(<<>>, "tax")}]

TheAst == [invoice1 |-> Invoice1, invoice2 |-> Invoice2, api1 |-> Api1, api2 |-> Api2]

TheContents == [invoice |-> {"invoice1", "invoice2"}, api |-> {"api2"}]

OneTree == {[invoice |-> "invoice1", api |-> "api1"]}

TheExport ==
    {[sha |-> 0, directed |-> FALSE,
      nodes |-> {[id |-> <<"a">>, name |-> "create", kind |-> "function", file |-> "api",
                  code |-> TRUE, symbol |-> TRUE],
                 [id |-> <<"b">>, name |-> "total", kind |-> "method", file |-> "invoice",
                  code |-> TRUE, symbol |-> TRUE],
                 [id |-> <<"c">>, name |-> "", kind |-> "class", file |-> "api",
                  code |-> FALSE, symbol |-> TRUE]},
      links |-> {[source |-> <<"a">>, target |-> <<"b">>, relation |-> "calls",
                  confidence |-> "extracted"],
                 [source |-> <<"c">>, target |-> <<"a">>, relation |-> "references",
                  confidence |-> "guessed"],
                 [source |-> <<"a">>, target |-> <<"b">>, relation |-> "imports_from",
                  confidence |-> "extracted"]}]}

TheQueries == {[tool |-> "find_callers", symbol |-> <<"tax">>]}

Frame(path, line, symbol) == [path |-> path, line |-> line, symbol |-> symbol]

Untraced ==
    [python |-> <<>>, java |-> <<>>, js |-> <<>>, generic |-> <<>>, looks_like_a_trace |-> FALSE,
     words |-> {"invoice"}, paths |-> {}, pinned |-> FALSE]

TheTickets ==
    {[Untraced EXCEPT !.python = <<Frame("api", 1, <<"create">>), Frame("invoice", 2, <<"total">>)>>,
                      !.paths = {"invoice", "api"}],
     [Untraced EXCEPT !.java = <<Frame("invoice", 2, <<"tax">>), Frame("api", 1, <<>>)>>,
                      !.pinned = TRUE]}

TheListing == [paths \in SUBSET {"api", "invoice"} |->
                  SelectSeq(<<"api", "invoice">>, LAMBDA p : p \in paths)]

OneOther == <<[project |-> "notifications", words |-> {"invoice", "mail"}]>>

Symmetry == Permutations(Threads)

TheMergeRequests == [k \in 0 .. 8 |-> IF k = 2 THEN <<>> ELSE <<[iid |-> k, state |-> "merged"]>>]
=============================================================================
