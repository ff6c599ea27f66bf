------------------------------ MODULE MCStorage ------------------------------
EXTENDS Storage
=============================================================================
