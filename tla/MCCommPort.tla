------------------------------- MODULE MCCommPort -------------------------------
EXTENDS CommPort
=============================================================================
