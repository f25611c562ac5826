--------------------------- MODULE MCHostedServer ---------------------------
(* Instances of HostedServer for TLC. *)
EXTENDS HostedServer

CONSTANTS a, b, c, p, q

Member(ip) == NewUser(ServerId, ip)
Admin(ip) == [Member(ip) EXCEPT !.user_type = "Admin"]

\* a and b are members of this server.
TwoMembers == <<Member(a), Admin(b)>>

\* b is a member of another server of the same process.
OneMember == <<Member(a), NewUser(OtherServerId, b)>>
=============================================================================
