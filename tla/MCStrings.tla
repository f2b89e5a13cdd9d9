------------------------------ MODULE MCStrings ------------------------------
(* An instance of Strings for TLC.                                          *)
EXTENDS Strings

\* Odd rooms, so that a character or a number is cut in the middle.
SomeShapes == {<<"ASCII", 8>>, <<"UTF8", 9>>, <<"UTF16LE", 9>>, <<"UTF16BE", 16>>,
               <<"UTF32LE", 13>>, <<"UTF32BE", 17>>}

\* A digit, a letter, DEL, and both sides of where the encodings change length.
SomeChars == {49, 65, 127, 128, 2047, 2048, 65533, 1114111}

SomeTexts == {<<49, 65>>, <<2047, 127, 1114111>>}

SomeFloats == {<<-125, 3, FALSE>>, <<2500, 0, FALSE>>, <<12500, 2, FALSE>>, <<-1500, 1, FALSE>>,
               <<12500, 2, TRUE>>, <<125, 2, TRUE>>, <<-2500, 1, TRUE>>,
               <<500, 0, TRUE>>}

SomePairs == {<<49, 65>>, <<128, 2047>>, <<65, 2048>>, <<2048, 65533>>}
SomeInts == {-127, -9, 0, 10, 126}
=============================================================================
