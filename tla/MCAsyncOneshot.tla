--------------------------- MODULE MCAsyncOneshot ---------------------------
\* Two values, so that what is received is told apart.
EXTENDS AsyncOneshot

CONSTANTS v1, v2

MCValues == {v1, v2}
=============================================================================
