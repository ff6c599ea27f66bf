----------------------------- MODULE MCSettings -----------------------------
EXTENDS Settings
MCDefaults == [wifi |-> NoWifi, id |-> NoId, timing |-> CHOOSE t \in Timings: TRUE,
               brightness |-> CHOOSE l \in Levels: TRUE]
=============================================================================
