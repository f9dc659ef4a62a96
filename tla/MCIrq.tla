-------------------------------- MODULE MCIrq --------------------------------
(* Irq for TLC. *)
EXTENDS Irq, TLC

CONSTANTS h1, h2, h3

\* Two devices share the line of the master that may be spurious, one has the
\* slave's.
MCLineOf == (h1 :> SpuriousMaster) @@ (h2 :> SpuriousMaster) @@ (h3 :> SpuriousSlave)
=============================================================================
