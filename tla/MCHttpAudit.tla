---------------------------- MODULE MCHttpAudit -----------------------------
EXTENDS HttpAudit
=============================================================================
