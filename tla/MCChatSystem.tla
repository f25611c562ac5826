---------------------------- MODULE MCChatSystem ----------------------------
(* Instances of ChatSystem for TLC. *)
EXTENDS ChatSystem

CONSTANTS a, p, q

\* The client host is the only member, and posts itself.
OneClient == <<NewUser(ServerId, a)>>
=============================================================================
