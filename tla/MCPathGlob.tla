----------------------------- MODULE MCPathGlob -----------------------------
EXTENDS PathGlob

\* A character of one byte and one of two.
MCChars == {"a", "é", "*", "?", "/"}
MCUtf8  == [c \in MCChars |-> IF c = "é" THEN <<"Ã", "©">> ELSE <<c>>]

\* Paths of up to five characters, three directories deep, and two with what
\* the bytes of a pattern are taken for.
MCNames ==
  {n \in UNION {[1 .. k -> {"a", "é", "/"}] : k \in 1 .. 5} :
     /\ n[1] # "/" /\ n[Len(n)] # "/"
     /\ \A i \in 1 .. Len(n) - 1 : n[i] # "/" \/ n[i + 1] # "/"}
  \cup {<<"Ã", "©">>, <<"a", "/", "Ã", "©">>}
=============================================================================
