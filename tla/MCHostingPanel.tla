--------------------------- MODULE MCHostingPanel ---------------------------
(* An instance of HostingPanel for TLC. *)
EXTENDS HostingPanel

\* An address with high and low bytes.
Address203 == <<203, 0, 113, 255>>
=============================================================================
