----------------------------- MODULE MCMailQueue -----------------------------
EXTENDS MailQueue

CONSTANTS j1, j2, w1, w2
=============================================================================
