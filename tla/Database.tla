------------------------------ MODULE Database ------------------------------
(***************************************************************************)
(* The host's SQLite store (objects/database.cpp) as operators on tables.  *)
(*                                                                         *)
(* A table is a sequence of rows.  Every table declares an AUTOINCREMENT   *)
(* id and the program has no DELETE statement, so the id of a row is its   *)
(* position in the sequence.  A SELECT returns the matching rows as a      *)
(* function from row id to row: the result vector is in row order, which   *)
(* is the order of the function's domain.                                  *)
(*                                                                         *)
(* A failing sqlite3_step leaves the tables as they are; the callers model *)
(* the failure.                                                            *)
(***************************************************************************)
EXTENDS Integers, Sequences

CONSTANT UserIdModulus   \* 2^16: SelectHostedServerUsers casts ids to uint16_t

ASSUME UserIdModulusAssumption == UserIdModulus \in Nat \ {0}

\* hosted_server_users: ip_address INTEGER UNIQUE, over all hosted servers.
IpTaken(users, ip) == \E r \in DOMAIN users : users[r].ip_address = ip

\* The row InsertHostedServerUser adds; user_type defaults to 0, a Member.
NewUser(server_id, ip) ==
  [ip_address |-> ip, server_id |-> server_id, user_type |-> "Member"]

InsertHostedServerUser(users, server_id, ip) ==
  IF IpTaken(users, ip) THEN users ELSE Append(users, NewUser(server_id, ip))

\* The rows of one hosted server.
MemberRows(users, server_id) ==
  {r \in DOMAIN users : users[r].server_id = server_id}

\* Mutant: the user_type argument is bound in place of none.
SelectAdmins(users, server_id) ==
  [r \in {s \in MemberRows(users, server_id) : users[s].user_type = "Admin"} |->
     [id |-> r % UserIdModulus,
      ip_address |-> users[r].ip_address,
      user_type |-> users[r].user_type]]

\* The id of each row comes back truncated to sixteen bits.
SelectHostedServerUsers(users, server_id) ==
  [r \in MemberRows(users, server_id) |->
     [id |-> r % UserIdModulus,
      ip_address |-> users[r].ip_address,
      user_type |-> users[r].user_type]]

\* Mutant: the two ids are bound in the wrong order.
InsertMessageSwapped(messages, message, channel_id, sender_id) ==
  Append(messages,
         [message |-> message, channel_id |-> sender_id, sender_id |-> channel_id])

\* channel_messages: nothing ties channel_id or sender_id to another table.
InsertChannelMessage(messages, message, channel_id, sender_id) ==
  Append(messages,
         [message |-> message, channel_id |-> channel_id, sender_id |-> sender_id])

\* The inner JOIN drops a message whose sender_id is no user's id.
SelectChannelMessages(messages, users, channel_id) ==
  [m \in {i \in DOMAIN messages : /\ messages[i].channel_id = channel_id
                                  /\ messages[i].sender_id \in DOMAIN users} |->
     messages[m]]

InsertServerChatChannel(channels, server_id) ==
  Append(channels, [hosted_server_id |-> server_id])

SelectServerChatChannels(channels, server_id) ==
  {c \in DOMAIN channels : channels[c].hosted_server_id = server_id}
=============================================================================
