---------------------------- MODULE MCJsonlAudit ----------------------------
EXTENDS JsonlAudit
=============================================================================
