------------------------------ MODULE MCMachine ------------------------------
\* The main loop with two instruction addresses.
EXTENDS Machine

MCAddrs == {0, 1}

=============================================================================
