------------------------------- MODULE MCGee --------------------------------
(* Registrations of up to MaxCalls calls over the parts a, b, :x, *f and the *)
(* empty segment (as in "//b"), and requests for paths over a, b and ab.     *)
EXTENDS Gee

MCSegments == {"", "a", "b", "ab", ":x", "*f"}
MCComps    == {<<":x">>, <<"a", "b">>, <<":x", "a">>, <<"", "b">>}
MCPrefixes == {<<"a">>, <<":x">>}
MCPaths    == {<<"">>, <<"a", "b">>, <<"b", "a">>, <<"", "b">>, <<"ab", "b">>, <<"a", "a", "b">>}
MCLonger   == {<<"ab", "a">>}
=============================================================================
