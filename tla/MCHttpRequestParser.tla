------------------------- MODULE MCHttpRequestParser --------------------------
(* Instances of HttpRequest for TLC: four requests, a text that only looks     *)
(* like one, and every text one character away from these: replaced, inserted  *)
(* or deleted.                                                                 *)
EXTENDS HttpRequest

Version == <<"H", "T", "T", "P", "/", "1", ".", "1", "cr", "lf">>
Bare == <<"a", "sp", "/", "sp">> \o Version \o <<"cr", "lf">>
\* Two headers, the first of them folded.
Folded == <<"a", "sp", "/", "sp">> \o Version
            \o <<"a", ":", "sp", "a", "cr", "lf", "sp", "tab", "a", "cr", "lf",
                 "H", ":", "sp", "cr", "lf", "cr", "lf">>

\* A byte above 127 where it is allowed, a long version, a folded empty value.
High == <<"H", "P", "sp", "high", ":", "sp", "H", "T", "T", "P", "/", "1", "0", ".",
          "0", "1", "cr", "lf", "T", "a", ":", "sp", "cr", "lf", "tab", "high",
          "sp", "(", "cr", "lf", "cr", "lf">>

\* A name without a value, one given twice, an empty one and an empty pair.
Query == <<"a", "sp", "/", "?", "a", "=", "H", "&", "P", "&", "a", "=", "&", "&",
           "=", "T", "sp">> \o Version \o <<"cr", "lf">>

\* A name, not a value, that the next line seems to continue.
Misfolded == <<"a", "sp", "/", "sp">> \o Version
               \o <<"a", ":", "sp", "a", "cr", "lf", "T", "cr", "lf", "sp", "a", ":", "sp",
                    "a", "cr", "lf", "cr", "lf">>

Edits(t) ==
  LET before(i) == SubSeq(t, 1, i - 1)
      from(i) == SubSeq(t, i, Len(t))
  IN  {t} \cup {[t EXCEPT ![i] = c] : i \in DOMAIN t, c \in Chars}
          \cup {before(i) \o <<c>> \o from(i) : i \in 1 .. Len(t) + 1, c \in Chars}
          \cup {before(i) \o from(i + 1) : i \in DOMAIN t}

MCTexts == Edits(Bare) \cup Edits(Folded) \cup Edits(High) \cup Edits(Query)
             \cup Edits(Misfolded)
===============================================================================
