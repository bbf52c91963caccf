--------------------------- MODULE MCEvidenceUpload ---------------------------
(* Small sets of calls and images.                                         *)
EXTENDS EvidenceUpload

CONSTANTS u1, u2, i1, i2
===============================================================================
