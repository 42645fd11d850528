---------------------------- MODULE MCIfController -----------------------------
EXTENDS IfController

AllFaults == FaultKinds
================================================================================
