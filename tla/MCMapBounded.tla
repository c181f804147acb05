---------------------------- MODULE MCMapBounded ----------------------------
\* An instance of MapBounded in which any panic may end a thread or the
\* process: the behaviours of both builds, and the cuts between them.
EXTENDS MapBounded

MCBothBuilds == BOOLEAN
=============================================================================
