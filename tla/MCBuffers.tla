------------------------------ MODULE MCBuffers ------------------------------
(* Instances of Buffers for TLC.                                            *)
EXTENDS Buffers

CONSTANTS a, b

TwoBytes == {a, b}
Fresh == {<< <<>>, Alloc >>}

\* Nothing, one byte, two bytes, and more than the buffer holds.
SomeSources == {<<>>, <<a>>, <<b, a>>, <<a, b, a, b, a>>}

\* The narrow vectors, and both; before InitBuffersArch there are none.
SomeFeatures == {{"SSE2", "SSE3"}, {"SSE2", "SSE3", "AVX2"}}

SomeReplacements == {<<a, b>>, <<b, a>>, <<a, a>>}
=============================================================================
