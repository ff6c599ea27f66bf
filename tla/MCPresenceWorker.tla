-------------------------- MODULE MCPresenceWorker --------------------------
EXTENDS PresenceWorker
=============================================================================
