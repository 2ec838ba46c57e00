--------------------------- MODULE MCHTTPExchange ---------------------------
(* Chunks of twelve bytes; a small file, one that with its header fills a chunk, and none. *)
EXTENDS HTTPExchange

MCLength == ("Content-Length: 1" :> 1) @@ ("Content-Length: 2" :> 2) @@ ("Content-Length: 4" :> 4)
MCFile == (<<"index.html">> :> <<"i">>) @@ (<<"f">> :> <<"f1", "f2", "f3", "f4">>)
MCBadRequest == <<"b1", "b2">>
MCAddress == {<<>>, <<"f">>, <<"x">>}
=============================================================================
