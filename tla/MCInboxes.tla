----------------------------- MODULE MCInboxes ------------------------------
\* An instance of Inboxes for TLC.
EXTENDS Inboxes
=============================================================================
