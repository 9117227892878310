----------------------------- MODULE MCPathNames ----------------------------
(* Paths of up to five characters, and pieces with separators and dots in  *)
(* every place that the code looks at.                                     *)
EXTENDS PathNames

MCPieces ==
    {<<>>, <<"a">>, <<"/">>, <<".">>, <<"/", "a">>, <<"a", "/">>, <<".", "/">>, <<".", ".">>,
     <<".", "a">>, <<"/", "/">>, <<".", "/", "a">>, <<"a", ".", "a">>, <<"a", "/", "a">>}

MCPlaces == {<<"/">>, <<"/", "a">>}
=============================================================================
