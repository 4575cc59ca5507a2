----------------------------- MODULE MCReporter -----------------------------
EXTENDS Reporter

MCOrder == <<"email", "r1">>
=============================================================================
