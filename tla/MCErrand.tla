------------------------------ MODULE MCErrand ------------------------------
EXTENDS Errand
=============================================================================
