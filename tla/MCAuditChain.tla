----------------------------- MODULE MCAuditChain -----------------------------
\* Instances of AuditVerify.
EXTENDS AuditVerify
===============================================================================
