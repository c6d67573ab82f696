----------------------------- MODULE MCNewsType -----------------------------
(* Pasted URLs for NewsType: every combination of a days part, a header    *)
(* part and a title, plus URLs whose '}' comes before the '{' and URLs     *)
(* without braces.  The parts cover what GetShareURL writes and what       *)
(* SetURL accepts or rejects besides: a sign, white space, trailing junk,  *)
(* zero, no days, upper-case hex, a "0x" prefix, too few and too many hex  *)
(* digits, an empty title, a URL shorter than twelve characters.           *)
EXTENDS NewsType

DayParts == { <<"1">>, <<"-","1","2">>, <<" ","+","2">>, <<"2","x">>,
              <<"0">>, <<"x">>, <<>> }
HexParts == { <<"d","e","a","d","b","e","e","f">>,
              <<"D","E","A","D","B","E","E","F">>,
              <<"0","x","d","e","a","d","b","e">>,
              <<"d","e","a","d","b","e","e","f","0","1">>,
              <<"d","e","a","d","b","e","e">> }
TitleParts == { <<"t">>, <<"}">>, <<>> }

MCURLs ==
    { d \o <<"{">> \o h \o <<"}">> \o t : d \in DayParts, h \in HexParts,
                                          t \in TitleParts }
    \cup { <<"1","}","{">> \o h \o <<"t">> : h \in HexParts }
    \cup { <<"1">> \o h \o <<"t","t","t">> : h \in HexParts }
====
