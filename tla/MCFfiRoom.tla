------------------------------ MODULE MCFfiRoom ------------------------------
\* FfiRoom for TLC; the configurations name the instances.
EXTENDS FfiRoom
=============================================================================
