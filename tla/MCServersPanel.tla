--------------------------- MODULE MCServersPanel ---------------------------
(* Instances of ServersPanel for TLC. *)
EXTENDS ServersPanel

\* Two servers of one host.
TwoServers == {<<1, 7>>, <<1, 8>>}
=============================================================================
