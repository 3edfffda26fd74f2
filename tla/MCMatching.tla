----------------------------- MODULE MCMatching -----------------------------
(* Small instances of Matching for TLC. *)
EXTENDS Matching

\* Spellings with the confusable pairs and triples, lower case, punctuation, a shorter plate,
\* one with no letter left and one that grows in upper case.
SomeReadings ==
    {<<"O", "1">>, <<"o", "-", "1">>, <<"0", "1">>, <<"0", "I">>, <<"O", "I">>, <<"O", "L">>,
     <<"O">>, <<"-">>, <<"sharp s">>, <<"S", "5">>}
=============================================================================
