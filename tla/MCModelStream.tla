----------------------------- MODULE MCModelStream -----------------------------
(* Tags and texts over which TLC checks ModelStream: a fence that ends as it begins, *)
(* a tag whose end begins as its start does, and a keyword.                          *)
EXTENDS ModelStream

MCCharacters == {"q", "<", "t", "/", "l", "s", "n", "a"}
MCMarkers == <<[start |-> <<"q", "q">>, end |-> <<"q", "q">>],
               [start |-> <<"<", "t">>, end |-> <<"<", "/">>]>>
MCKeywords == {<<"l", "s">>}
MCContents == {<<"q">>, <<"q", "a">>, <<"<">>, <<"t", "n", "l">>, <<"s", "<", "/">>}
MCThoughts == <<"t1", "t2", "t3", "t4", "t5">>
=============================================================================
