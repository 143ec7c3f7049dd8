------------------------------- MODULE MCWalk -------------------------------
EXTENDS Walk

\* The model values of the threads.
CONSTANTS walker
=============================================================================
