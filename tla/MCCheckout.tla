----------------------------- MODULE MCCheckout -----------------------------
\* One product, one service, two submissions.
EXTENDS Checkout, TLC

=============================================================================
