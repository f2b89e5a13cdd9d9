---------------------------- MODULE MCDirectories ----------------------------
(* An instance of Directories for TLC: names of one letter.                 *)
EXTENDS Directories

SomeParts == {<<"a">>, <<"/", "b">>, <<"b", "/">>, <<"a", "/", "a">>, <<".", "/", "a">>,
              <<".", ".", "/", "b">>, <<"a", "/", ".", ".">>}

A == <<"a">>
B == <<"b">>
SomePlaces == {<<A>>, <<B>>, <<A, A>>, <<A, B>>, <<A, A, B>>}
SomeSockets == {<<A, B>>}
=============================================================================
