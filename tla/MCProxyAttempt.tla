--------------------------- MODULE MCProxyAttempt ---------------------------
(* A single attempt over every mode, four chunks at most. *)
EXTENDS ProxyAttempt
=============================================================================
