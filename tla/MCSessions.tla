----------------------------- MODULE MCSessions -----------------------------
\* One user at two tabs, two requests in flight.
EXTENDS Sessions, TLC

=============================================================================
