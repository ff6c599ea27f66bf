------------------------------ MODULE MCImprov ------------------------------
EXTENDS Improv
MCDefaults == [wifi |-> NoWifi, id |-> NoId, timing |-> CHOOSE t \in Timings: TRUE,
               brightness |-> CHOOSE l \in Levels: TRUE]
=============================================================================
