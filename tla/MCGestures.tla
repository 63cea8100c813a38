------------------------------ MODULE MCGestures ------------------------------
EXTENDS Gestures

\* A variable may feed a query.
MCCanConnect == {<<"var", "query">>}
=============================================================================
