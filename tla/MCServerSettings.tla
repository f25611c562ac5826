-------------------------- MODULE MCServerSettings --------------------------
(* Instances of ServerSettings for TLC. *)
EXTENDS ServerSettings

CONSTANTS n1, n2

User(s, n, type) == [server_id |-> s, username |-> n, user_type |-> type]

\* One server, so that calls return several rows.
OneServer == <<User(1, n1, "Member"), User(1, n2, "Member")>>

\* Two servers; a name that a user of each has.
ThreeUsers == <<User(1, n1, "Member"), User(1, n2, "Admin"), User(2, n1, "Member")>>
=============================================================================
