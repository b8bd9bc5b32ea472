---------------------------- MODULE MCMissedData ----------------------------
EXTENDS MissedData

\* Three gaps in a row, and a reload that covers the first two.
Gaps == {<<0, 1>>, <<1, 2>>, <<2, 3>>, <<0, 2>>}
=============================================================================
