----------------------------- MODULE MCRunicast -----------------------------
(* Small instances of Runicast for TLC. *)
EXTENDS Runicast

=============================================================================
