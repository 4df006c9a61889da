----------------------------- MODULE MCWatching -----------------------------
EXTENDS Watching

CONSTANTS h1

\* A command of the turn's own, a server the conversations share, a runtime in this
\* interpreter, and a transport nothing here may put down.
MCProfiles == {[restarts |-> TRUE, shares |-> FALSE, rides |-> TRUE],
               [restarts |-> TRUE, shares |-> TRUE, rides |-> TRUE],
               [restarts |-> TRUE, shares |-> FALSE, rides |-> FALSE],
               [restarts |-> FALSE, shares |-> FALSE, rides |-> TRUE]}
=============================================================================
