------------------------------ MODULE MCRouter ------------------------------
(* Router for TLC: "c" is the beginning of "cs" as "coin" is of "coins". *)
EXTENDS Router

MCPaths == {<<"/">>, <<"/", "c">>, <<"/", "/", "c">>, <<"/", "c", "s">>,
            <<"/", "c", "/", "s">>, <<"/", "s", "/", "c", "/", "s">>, <<"c", "/">>}

MCUrls == MCPaths \cup {<<>>, <<"/", "c", "/">>, <<"/", "c", "/", "/", "s", "/", "c">>,
            <<"/", "c", "s", "/", "c">>, <<"/", "s", "/", "c", "/", "s", "/", "c", "/", "s">>,
            <<"/", "s", "/", "c">>, <<"s">>}
=============================================================================
