------------------------------ MODULE MCRelay ------------------------------
(* Instances of Relay for TLC. *)
EXTENDS Relay

Load(app, target, endless, pauses, parts) ==
  [pieces  |-> [e \in Endpoints |-> IF e = "app" THEN app ELSE target],
   endless |-> endless, pauses |-> pauses, parts |-> parts]

\* A dialogue with timeouts, whole blocks and in parts; a response without; and
\* endpoints that never stop: both, or the target whose blocks come in parts.
MCLoads ==
  {Load(2, 2, FALSE, TRUE, FALSE), Load(1, 1, FALSE, TRUE, TRUE),
   Load(0, 3, FALSE, FALSE, TRUE),
   Load(1, 1, TRUE, FALSE, FALSE), Load(0, 1, TRUE, TRUE, TRUE)}
=============================================================================
