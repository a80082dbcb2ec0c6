------------------------------- MODULE MCStorage -------------------------------
EXTENDS Storage
=============================================================================
