---------------------------- MODULE MCRequests ----------------------------
EXTENDS Requests, TLC

CONSTANTS r1, r2, r3, k1, july, august
=============================================================================
