----------------------------- MODULE MCInboxLog -----------------------------
EXTENDS InboxLog
=============================================================================
