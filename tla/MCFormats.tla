------------------------------ MODULE MCFormats -----------------------------
(* Numbers of 8 bits and floats of 12; formats of up to three directives.  *)
EXTENDS Formats, TLC

MCLongMinRepr == <<"-", "1", "2", "8">>
MCLongs == {-128, -5, 127}
MCUlongs == {0, 10, 255}
MCWords == {<<>>, <<"a">>, <<"a", " ">>, <<"a", "1", "a">>, <<"a", "b", "1", "a">>}
MCFloats == Floats

Specimen == {"i", "u", "x", "c", "t", "s"}

MCFormatSet ==
    {<<"%", d>> : d \in UnsignedDirectives \cup WordDirectives \cup ParsedDirectives \cup {"q", "%"}}
        \cup {<<"%", d1, " ", "%", d2>> : d1 \in Specimen, d2 \in Specimen}
        \cup {<<"%", d1, "%", d2>> : d1 \in {"i", "c", "s"}, d2 \in {"i", "c", "s", "%"}}
        \cup {<<>>, <<"a">>, <<"%">>, <<"a", "%">>, <<"%", "%", "%">>, <<"%", "u", "%">>,
              <<"a", "%", "x">>, <<"%", "i", " ", " ", "%", "i">>,
              <<"%", "i", " ", "%", "t", " ", "%", "s">>}
=============================================================================
