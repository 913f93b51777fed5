--------------------------- MODULE MCDiagnostics ---------------------------
(* Instances of Diagnostics for TLC: MCDiagnostics.cfg and                   *)
(* DiagnosticsStatus.cfg.                                                    *)
EXTENDS Diagnostics
=============================================================================
