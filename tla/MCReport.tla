------------------------------ MODULE MCReport ------------------------------
(* The request, the DAG table and the terms of Report for TLC. *)
EXTENDS Report, MCTextMatch

MCChars ==
  {"a", "b", "c", "s", "A", "B", "C", "S", "m", "M", "n", "j", ".", "/", "_", ":"}
  \cup {ToString(i) : i \in 1 .. 13}

MCLower ==
  [c \in MCChars |-> CASE c = "A" -> "a" [] c = "B" -> "b" [] c = "C" -> "c" [] c = "S" -> "s" [] c = "M" -> "m"
                       [] OTHER -> c]

\* The order of strings; the numbers of titles are characters of their own here.
MCCode ==
  [c \in MCChars |->
     CASE c = "." -> 1 [] c = "/" -> 2 [] c = "a" -> 30 [] c = "b" -> 31 [] c = "c" -> 32
       [] c = "j" -> 33 [] c = "m" -> 34 [] c = "n" -> 35 [] c = "s" -> 36
       [] c = "A" -> 21 [] c = "B" -> 22 [] c = "C" -> 23 [] c = "M" -> 24 [] c = "S" -> 25
       [] c = ":" -> 20 [] c = "_" -> 26
       [] OTHER -> 2 + CHOOSE i \in 1 .. 13 : ToString(i) = c]

\* Scopes: one with two roots and a copy target, one whose root is a whole bucket.
Root(bucket, prefix) == [bucket |-> bucket, prefix |-> prefix]

MCPolicies ==
  {[buckets |-> <<Root("m", <<"/", "a", "/">>), Root("n", <<>>)>>,
    targets |-> {Root("m", <<"A">>)}],
   [buckets |-> <<Root("M", <<"a", "/", "b">>)>>, targets |-> {}]}

AskedRows ==
  {Root("m", <<"a">>), Root("m", <<"A", "/">>), Root("m", <<"a", "b">>), Root("M", <<"a", "/", "b">>),
   Root("m", <<>>), Root("n", <<"b">>)}

AskedCopies == {{}, {Root("m", <<"a", "/", "b">>)}, {Root("m", <<"a", "b">>)}, {Root("m", <<>>)}}

MCRequests == [rows : SeqOf(AskedRows, 2), copy : AskedCopies]

MCObjects ==
  [bucket : {"m", "n"},
   name : {<<"a", "/", "b">>, <<"a", "b">>, <<"A", "/", "b">>, <<"b">>}]

\* Rows that name the same script in several ways, and scripts beside and below.
Row(scheme, path, dag) == [scheme |-> scheme, path |-> path, dag |-> dag]

MCRows ==
  {Row("none", <<"a">>, dag) : dag \in {"x", "y"}}
  \cup {Row("none", <<"B", "/", "a">>, dag) : dag \in {"x", "y"}}
  \cup {Row("gs", <<"n", "/", "b", "/", "A">>, dag) : dag \in {"x", "y"}}
  \cup {Row("none", <<"c", "/", "b", "/", "a">>, dag) : dag \in {"x", "y"}}
  \cup {Row("none", <<"b", "a">>, "x"), Row("none", <<".", "a">>, "y"), Row("gs", <<"n">>, "x")}

MCScripts == {<<"a">>, <<"b", "/", "a">>, <<"b", "a">>, <<"c", "/", "b", "/", "a">>}

\* Terms that become one title, that fill it, and that are titles of fixed sheets.
MCTerms ==
  {<<"a", ":">>, <<"A", "/">>, <<"a", "_">>, <<"a", "_", "2">>, <<"a", "b", "b", "a">>,
   <<"a", "b", "b", "c">>, <<"s">>, <<"c">>}

MCTermLists == SeqOf(MCTerms, 3)

MCTitle ==
  [Summary |-> <<"S">>, All_Matches |-> <<"A">>, All_Files |-> <<"A", "b">>, No_Matches |-> <<"n">>,
   Job_Inventory |-> <<"j">>, Copied_Files |-> <<"C">>]
=============================================================================
