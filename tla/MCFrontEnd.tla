----------------------------- MODULE MCFrontEnd -----------------------------
\* Every view, page, form and removal in turn.
EXTENDS FrontEnd
=============================================================================
