---------------------------- MODULE HostedServer ----------------------------
(***************************************************************************)
(* One hosted chat server (objects/hosted_server.cpp) in its host process. *)
(*                                                                         *)
(* Three threads of the process share the HostedServer object without a    *)
(* lock:                                                                   *)
(*   gui  the wxWidgets main thread, running StartServer and StopServer;   *)
(*   cb   the SwiftNet callback thread, running PacketCallback and its     *)
(*        handlers, one packet at a time;                                  *)
(*   bg   the thread of BackgroundProcesses, which groups new_messages by  *)
(*        channel and sends each online user the rows of its channel.      *)
(* A step of the model is the code between two accesses to shared state.   *)
(* Two writes of MarkUserOnline, and the address written before them (155),*)
(* are one step: the thread that looks between them sees a state that      *)
(* TimePasses, or the step not yet taken, shows it as well.                *)
(*                                                                         *)
(* The process can end at any step (Crash); the tables survive and Launch  *)
(* starts the application again.  Crash also stands for the outcomes of    *)
(* the data races that AddressSanitizer, which the build enables, turns    *)
(* into an abort, and for the exit() calls.                                *)
(*                                                                         *)
(* SwiftNet is external.  Requests are taken from any endpoint at any      *)
(* time, so they may be delayed, repeated or lost; net is every chat       *)
(* update handed to SwiftNet, delivered or not, in the order of the calls. *)
(* Responses are read from the state of the step that sends them, by the   *)
(* modules that compose the host with its clients; a request that is only  *)
(* answered, or dropped, is no step here.                                  *)
(***************************************************************************)
EXTENDS Database, FiniteSets

CONSTANTS
  IPs,           \* client hosts
  Ports,         \* ports of a client's connections
  Channels,      \* channel ids that clients name in a request
  ServerId,      \* the id, and port, of this hosted server
  OtherServerId, \* another server hosted by the same process
  InitialUsers,  \* hosted_server_users when the application first starts
  MaxUsers,      \* bound on the rows of hosted_server_users
  MaxMessages,   \* bound on the rows of channel_messages
  MaxChannels,   \* bound on the rows of server_chat_channels
  NoAddr         \* the all-zero addr_data

Endpoints == IPs \X Ports
IpOf(e) == e[1]

UserRows == [ip_address : IPs, server_id : {ServerId, OtherServerId},
             user_type : {"Member", "Admin"}]

ASSUME ServerAssumption ==
  /\ NoAddr \notin Endpoints
  /\ Channels \subseteq Nat \ {0}
  /\ ServerId # OtherServerId
  /\ MaxUsers \in Nat /\ MaxMessages \in Nat /\ MaxChannels \in Nat

\* ip_address is UNIQUE in the stored table.
ASSUME InitialUsersAssumption ==
  /\ InitialUsers \in Seq(UserRows) /\ Len(InitialUsers) <= MaxUsers
  /\ \A r, s \in DOMAIN InitialUsers :
       InitialUsers[r].ip_address = InitialUsers[s].ip_address => r = s

VARIABLES
  up,            \* the host process is running
  users,         \* table hosted_server_users
  messages,      \* table channel_messages
  channels,      \* table server_chat_channels
  status,        \* HostedServer::status
  listening,     \* the SwiftNet server exists and has its message handler
  server,        \* HostedServer::server is not nullptr
  stop,          \* HostedServer::stop_background_processes
  server_users,  \* HostedServer::server_users, keyed by the row loaded
  new_messages,  \* HostedServer::new_messages
  loading,       \* StartServer's users: the selected rows still to be pushed
  gui, cb, bg,   \* the three threads
  net            \* PERIODIC_CHAT_UPDATE packets sent, in order

db == <<users, messages, channels>>
control == <<status, listening, server, stop, loading, gui>>
vars == <<up, db, control, server_users, new_messages, cb, bg, net>>

-----------------------------------------------------------------------------
(* Helpers *)

NoUsers == [r \in {} |-> NoAddr]

\* user is the row of the handler's ServerUser*, moved says that the vector has
\* since moved its elements, so that the pointer dangles.
IdleCallback ==
  [pc |-> "idle", from |-> NoAddr, channel_id |-> 0, user |-> 0, moved |-> FALSE, id |-> 0]
NoThread == [pc |-> "none", todo |-> {}, batch |-> <<>>]

\* StartServer's ServerUser for a row: aggregate initialisation zeroes the rest.
LoadedUser(row) ==
  [status |-> "OFFLINE", data |-> row, addr_data |-> NoAddr,
   active_channel_id |-> 0, fresh |-> FALSE]

\* fresh: the last request is at most 60 seconds old (time_since_last_request).
MarkUserOnline(r) ==
  server_users' = [server_users EXCEPT ![r] = [@ EXCEPT !.status = "ONLINE", !.fresh = TRUE]]

\* Mutant: the address is not compared.
AnyUser(e) == DOMAIN server_users

\* GetUserByAddrData compares the address only, not the port.
GetUserByAddrData(e) ==
  {r \in DOMAIN server_users : server_users[r].data.ip_address = IpOf(e)}

\* PacketCallback runs on the callback thread while the handler is installed.
CanReceive == up /\ listening /\ cb.pc = "idle"

\* Mutant: the rows are not grouped by their channel.
AllRows(batch, c) == batch

\* The rows of one channel, by their place in the queue (lines 53-67).
ChannelRows(batch, c) ==
  [i \in {j \in DOMAIN batch : batch[j].channel_id = c} |-> batch[i]]

\* What the object, its threads and the SwiftNet server are in a new process.
ResetProcess ==
  /\ status' = "STOPPED" /\ listening' = FALSE /\ server' = FALSE /\ stop' = FALSE
  /\ server_users' = NoUsers /\ new_messages' = <<>>
  /\ loading' = NoUsers /\ gui' = "idle" /\ cb' = IdleCallback /\ bg' = NoThread

HostDown == up' = FALSE /\ ResetProcess

-----------------------------------------------------------------------------
(* The main thread: StartServer and StopServer *)

\* Lines 440-450.  From here on packets reach PacketCallback, although server
\* is still nullptr and server_users still empty.
StartCreate ==
  /\ up /\ gui = "idle" /\ status = "STOPPED"
  /\ status' = "RUNNING" /\ listening' = TRUE /\ gui' = "created"
  /\ UNCHANGED <<up, db, server, stop, loading, server_users, new_messages, cb, bg, net>>

\* Line 452.
StartAssign ==
  /\ gui = "created"
  /\ server' = TRUE /\ gui' = "select"
  /\ UNCHANGED <<up, db, status, listening, stop, loading, server_users, new_messages, cb,
                 bg, net>>

\* Line 454: the rows as they are now, not as the handlers leave them.
StartSelect ==
  /\ gui = "select"
  /\ loading' = SelectHostedServerUsers(users, ServerId) /\ gui' = "push"
  /\ UNCHANGED <<up, db, status, listening, server, stop, server_users, new_messages, cb,
                 bg, net>>

NextToLoad(r) == r \in DOMAIN loading /\ \A s \in DOMAIN loading : r <= s

\* Lines 455-460, one user: handlers find it from now on.  A push_back that has no room
\* left moves the users, and a handler's pointer stays behind.  The capacity is left
\* out: StopServer's clear keeps what earlier starts have allocated.
StartPush ==
  /\ gui = "push"
  /\ \E r \in DOMAIN loading :
       /\ NextToLoad(r)
       /\ server_users' = [s \in DOMAIN server_users \cup {r} |->
                             IF s = r THEN LoadedUser(loading[r]) ELSE server_users[s]]
       /\ loading' = [s \in DOMAIN loading \ {r} |-> loading[s]]
  /\ \/ UNCHANGED cb
     \/ /\ cb.pc \in {"active", "insert", "push", "online"}
        /\ cb' = [cb EXCEPT !.moved = TRUE]
  /\ UNCHANGED <<up, db, status, listening, server, stop, gui, new_messages, bg, net>>

\* Mutant: the thread is started before all users are loaded.
StartFlagEarly ==
  /\ gui = "push"
  /\ stop' = FALSE /\ gui' = "thread"
  /\ UNCHANGED <<up, db, status, listening, server, loading, server_users, new_messages, cb,
                 bg, net>>

\* Line 462, once every row is pushed.
StartFlag ==
  /\ gui = "push" /\ DOMAIN loading = {}
  /\ stop' = FALSE /\ gui' = "thread"
  /\ UNCHANGED <<up, db, status, listening, server, loading, server_users, new_messages, cb,
                 bg, net>>

\* Lines 464-468.
StartThread ==
  /\ gui = "thread"
  /\ bg' = [NoThread EXCEPT !.pc = "loop"] /\ gui' = "idle"
  /\ UNCHANGED <<up, db, status, listening, server, stop, loading, server_users,
                 new_messages, cb, net>>

\* Line 472; the call of swiftnet_server_cleanup begins.
StopBegin ==
  /\ up /\ gui = "idle" /\ status = "RUNNING"
  /\ status' = "STOPPED" /\ gui' = "cleanup"
  /\ UNCHANGED <<up, db, listening, server, stop, loading, server_users, new_messages, cb, bg,
                 net>>

\* Mutant: swiftnet_server_cleanup does not wait for the handler.
StopCleanupAtOnce ==
  /\ gui = "cleanup"
  /\ listening' = FALSE /\ gui' = "forget"
  /\ UNCHANGED <<up, db, status, server, stop, loading, server_users, new_messages, cb, bg,
                 net>>

\* Line 474: SwiftNet joins its callback thread, so a running handler finishes.
\* The server member dangles until the next step.
StopCleanup ==
  /\ gui = "cleanup" /\ cb.pc = "idle"
  /\ listening' = FALSE /\ gui' = "forget"
  /\ UNCHANGED <<up, db, status, server, stop, loading, server_users, new_messages, cb, bg,
                 net>>

\* Mutant: the server member is not reset.
StopForgetsNothing ==
  /\ gui = "forget" /\ gui' = "clear"
  /\ UNCHANGED <<up, db, status, listening, server, stop, loading, server_users, new_messages,
                 cb, bg, net>>

\* Line 476.
StopForget ==
  /\ gui = "forget"
  /\ server' = FALSE /\ gui' = "clear"
  /\ UNCHANGED <<up, db, status, listening, stop, loading, server_users, new_messages, cb, bg,
                 net>>

\* Line 478.  new_messages is not cleared.
StopClear ==
  /\ gui = "clear"
  /\ server_users' = NoUsers /\ gui' = "flag"
  /\ UNCHANGED <<up, db, status, listening, server, stop, loading, new_messages, cb, bg, net>>

\* Mutant: the thread is not told to stop.
StopUnflagged ==
  /\ gui = "flag" /\ gui' = "join"
  /\ UNCHANGED <<up, db, status, listening, server, stop, loading, server_users, new_messages,
                 cb, bg, net>>

\* Line 480.
StopFlag ==
  /\ gui = "flag"
  /\ stop' = TRUE /\ gui' = "join"
  /\ UNCHANGED <<up, db, status, listening, server, loading, server_users, new_messages, cb, bg,
                 net>>

\* Lines 482-489: join returns once the thread has left its loop.
StopJoin ==
  /\ gui = "join" /\ bg.pc = "exited"
  /\ bg' = NoThread /\ gui' = "idle"
  /\ UNCHANGED <<up, db, status, listening, server, stop, loading, server_users, new_messages,
                 cb, net>>

-----------------------------------------------------------------------------
(* The callback thread: PacketCallback and the handlers *)

\* HandleLoadChannelDataRequest, lines 143-161.  The address is stored only
\* when the user was offline; active_channel_id is then still to be written.
LoadChannelBegin(e, c) ==
  /\ CanReceive
  /\ \E r \in GetUserByAddrData(e) :
       \/ /\ server_users[r].status = "ONLINE"
          /\ server_users' = [server_users EXCEPT ![r].active_channel_id = c]
          /\ cb' = [IdleCallback EXCEPT !.pc = "reply", !.from = e, !.channel_id = c]
       \/ /\ server_users[r].status = "OFFLINE"
          /\ server_users' = [server_users EXCEPT ![r] =
                [@ EXCEPT !.addr_data = e, !.status = "ONLINE", !.fresh = TRUE]]
          /\ cb' = [IdleCallback EXCEPT !.pc = "active", !.from = e,
                      !.channel_id = c, !.user = r]
  /\ UNCHANGED <<up, db, control, new_messages, bg, net>>

\* Line 160.
LoadChannelActive ==
  /\ cb.pc = "active" /\ ~cb.moved
  /\ server_users' = [server_users EXCEPT ![cb.user].active_channel_id = cb.channel_id]
  /\ cb' = [cb EXCEPT !.pc = "reply", !.user = 0]
  /\ UNCHANGED <<up, db, control, new_messages, bg, net>>

\* The messages of the response, lines 163-185.
ReplyMessages == SelectChannelMessages(messages, users, cb.channel_id)

\* Lines 187-197.
LoadChannelReply ==
  /\ cb.pc = "reply" /\ server
  /\ cb' = IdleCallback
  /\ UNCHANGED <<up, db, control, server_users, new_messages, bg, net>>

\* HandleSendMessageRequest, lines 357-372: only an online user may post.
SendMessageBegin(e, c) ==
  /\ CanReceive
  /\ Len(messages) < MaxMessages
  /\ \E r \in GetUserByAddrData(e) :
       /\ server_users[r].status # "OFFLINE"
       /\ cb' = [IdleCallback EXCEPT !.pc = "insert", !.from = e, !.channel_id = c,
                   !.user = r]
  /\ UNCHANGED <<up, db, control, server_users, new_messages, bg, net>>

\* InsertChannelMessage.  The text is abstracted to the endpoint that typed it.
SendMessageInsert ==
  /\ cb.pc = "insert" /\ ~cb.moved
  /\ messages' = InsertChannelMessage(messages, cb.from, cb.channel_id,
                                      server_users[cb.user].data.id)
  /\ server_users[cb.user].data.id \in DOMAIN users
  /\ cb' = [cb EXCEPT !.pc = "push", !.id = Len(messages) + 1]
  /\ UNCHANGED <<up, users, channels, control, server_users, new_messages, bg, net>>

\* The subselect finds no user with the truncated id: memcpy copies from a null
\* username (database.cpp:148).  The statement is still on its row, so the insert is not
\* committed.
SendMessageNoUsername ==
  /\ cb.pc = "insert" /\ ~cb.moved
  /\ server_users[cb.user].data.id \notin DOMAIN users
  /\ HostDown
  /\ UNCHANGED <<db, net>>

\* Mutant: the id is that of the insert before.
NewMessageOldId ==
  [id |-> cb.id - 1, message |-> cb.from, channel_id |-> cb.channel_id,
   sender_id |-> messages[cb.id].sender_id]

\* The row that InsertChannelMessage returns.
NewMessage ==
  [id |-> cb.id, message |-> cb.from, channel_id |-> cb.channel_id,
   sender_id |-> messages[cb.id].sender_id]

\* Lines 376-378 after a successful insert.
SendMessagePush ==
  /\ cb.pc = "push"
  /\ new_messages' = Append(new_messages, NewMessage)
  /\ cb' = [cb EXCEPT !.pc = "online", !.id = 0]
  /\ UNCHANGED <<up, db, control, server_users, bg, net>>

\* Mutant: the handler tries again until the insert succeeds.
SendMessageRetry ==
  /\ cb.pc = "insert" /\ ~cb.moved
  /\ MarkUserOnline(cb.user)
  /\ UNCHANGED <<up, db, control, new_messages, cb, bg, net>>

\* sqlite3_step failed: nothing is queued, the sender still counts as online.
SendMessageFailed ==
  /\ cb.pc = "insert" /\ ~cb.moved
  /\ cb' = [cb EXCEPT !.pc = "online"]
  /\ UNCHANGED <<up, db, control, server_users, new_messages, bg, net>>

\* Line 383.
SendMessageOnline ==
  /\ cb.pc = "online" /\ ~cb.moved
  /\ MarkUserOnline(cb.user)
  /\ cb' = IdleCallback
  /\ UNCHANGED <<up, db, control, new_messages, bg, net>>

UsesUser == cb.pc \in {"active", "insert", "online"}

\* The handler goes on with a pointer that StartServer's push_back left behind: the
\* process ends.
MovedUserAbort ==
  /\ UsesUser /\ cb.moved
  /\ HostDown
  /\ UNCHANGED <<db, net>>

\* It wrote while the users were being moved, and the write is lost.
MovedUserWrite ==
  /\ cb.pc \in {"active", "online"} /\ cb.moved
  /\ cb' = IF cb.pc = "active" THEN [cb EXCEPT !.pc = "reply", !.user = 0, !.moved = FALSE]
           ELSE IdleCallback
  /\ UNCHANGED <<up, db, control, server_users, new_messages, bg, net>>

\* HandleJoinServerRequest.  InsertHostedServerUser compares the result of
\* INSERT ... RETURNING with SQLITE_DONE, so it returns no row even when the
\* user was inserted (the step yields SQLITE_ROW), and of course when the insert
\* failed, be it because the address is taken, be it for another reason.
JoinServerInsert(e) ==
  /\ CanReceive
  /\ Len(users) < MaxUsers
  /\ users' \in {users, InsertHostedServerUser(users, ServerId, IpOf(e))}
  /\ cb' = [IdleCallback EXCEPT !.pc = "join", !.from = e]
  /\ UNCHANGED <<up, messages, channels, control, server_users, new_messages, bg, net>>

\* Lines 208-243: FAIL is sent and the packet destroyed; there is no return, so
\* SUCCESS is sent on the destroyed packet and result.value() of the empty
\* optional ends the process.
JoinServerAbort ==
  /\ cb.pc = "join" /\ server
  /\ HostDown
  /\ UNCHANGED <<db, net>>

\* HandleCreateNewChannelRequest after a successful insert.
CreateNewChannel ==
  /\ CanReceive /\ server
  /\ Len(channels) < MaxChannels
  /\ channels' = InsertServerChatChannel(channels, ServerId)
  /\ UNCHANGED <<up, users, messages, control, server_users, new_messages, cb, bg, net>>

-----------------------------------------------------------------------------
(* The background thread: BackgroundProcesses *)

\* Lines 41-85: leave when told to, otherwise group the queue by channel.
BgLoop ==
  /\ bg.pc = "loop"
  /\ \/ stop /\ bg' = [bg EXCEPT !.pc = "exited"]
     \/ /\ ~stop /\ new_messages # <<>>
        /\ bg' = [pc |-> "users", todo |-> DOMAIN server_users, batch |-> new_messages]
  /\ UNCHANGED <<up, db, control, server_users, new_messages, cb, net>>

\* The user the range-for is at: users are visited in the order of their rows.
AtUser(r) == r \in bg.todo /\ \A s \in bg.todo : r <= s

\* continue: the user's turn is over.
Continue(r) == [bg EXCEPT !.pc = "users", !.todo = @ \ {r}]

\* Lines 88-95.
BgUser(r) ==
  /\ bg.pc = "users" /\ AtUser(r) /\ r \in DOMAIN server_users
  /\ bg' = IF server_users[r].status = "OFFLINE" THEN Continue(r)
           ELSE [bg EXCEPT !.pc = IF server_users[r].fresh THEN "send" ELSE "check"]
  /\ UNCHANGED <<up, db, control, server_users, new_messages, cb, net>>

\* StopServer cleared the vector during the loop: the remaining elements are
\* read from dead storage.  Their turn has no effect, or the process ends
\* (BgNullServer, Crash).
BgStaleUser(r) ==
  /\ bg.pc \in {"users", "check", "wipe", "send"}
  /\ AtUser(r) /\ r \notin DOMAIN server_users
  /\ bg' = Continue(r)
  /\ UNCHANGED <<up, db, control, server_users, new_messages, cb, net>>

\* Lines 104-117: the client answered CLIENT_ONLINE_CHECK in time.
BgAnswer(r) ==
  /\ bg.pc = "check" /\ AtUser(r) /\ r \in DOMAIN server_users
  /\ server /\ listening /\ server_users[r].addr_data # NoAddr
  /\ MarkUserOnline(r)
  /\ bg' = [bg EXCEPT !.pc = "send"]
  /\ UNCHANGED <<up, db, control, new_messages, cb, net>>

\* Mutant: the memset and the continue are missing.
BgTimeoutFallsThrough(r) ==
  /\ bg.pc = "check" /\ AtUser(r) /\ r \in DOMAIN server_users /\ server
  /\ server_users' = [server_users EXCEPT ![r].status = "OFFLINE"]
  /\ bg' = [bg EXCEPT !.pc = "send"]
  /\ UNCHANGED <<up, db, control, new_messages, cb, net>>

\* Line 109, after DEFAULT_TIMEOUT_REQUEST without an answer.
BgTimeout(r) ==
  /\ bg.pc = "check" /\ AtUser(r) /\ r \in DOMAIN server_users /\ server
  /\ server_users' = [server_users EXCEPT ![r].status = "OFFLINE"]
  /\ bg' = [bg EXCEPT !.pc = "wipe"]
  /\ UNCHANGED <<up, db, control, new_messages, cb, net>>

\* Line 110.
BgWipe(r) ==
  /\ bg.pc = "wipe" /\ AtUser(r) /\ r \in DOMAIN server_users
  /\ server_users' = [server_users EXCEPT ![r].addr_data = NoAddr]
  /\ bg' = Continue(r)
  /\ UNCHANGED <<up, db, control, new_messages, cb, net>>

ActiveRows(r) == ChannelRows(bg.batch, server_users[r].active_channel_id)

\* Lines 120-125.  Nothing leaves the host for the zero address or through a
\* server that was already cleaned up.
BgSend(r) ==
  /\ bg.pc = "send" /\ AtUser(r) /\ r \in DOMAIN server_users
  /\ DOMAIN ActiveRows(r) # {} => server
  /\ net' = IF /\ DOMAIN ActiveRows(r) # {}
               /\ listening /\ server_users[r].addr_data # NoAddr
            THEN Append(net, [to |-> server_users[r].addr_data, rows |-> ActiveRows(r)])
            ELSE net
  /\ bg' = Continue(r)
  /\ UNCHANGED <<up, db, control, server_users, new_messages, cb>>

\* Mutant: the queue is not cleared.
BgClearKeepsQueue ==
  /\ bg.pc = "users" /\ bg.todo = {}
  /\ bg' = [NoThread EXCEPT !.pc = "loop"]
  /\ UNCHANGED <<up, db, control, server_users, new_messages, cb, net>>

\* Lines 128-138: the whole queue is dropped, later arrivals included.
BgClear ==
  /\ bg.pc = "users" /\ bg.todo = {}
  /\ new_messages' = <<>>
  /\ bg' = [NoThread EXCEPT !.pc = "loop"]
  /\ UNCHANGED <<up, db, control, server_users, cb, net>>

-----------------------------------------------------------------------------
(* The process and its environment *)

\* server is nullptr in StartServer's window 450-452 and after line 476; a
\* SwiftNet call on it ends the process.
CbNullServer ==
  /\ cb.pc \in {"reply", "join"} /\ ~server
  /\ HostDown
  /\ UNCHANGED <<db, net>>

BgNullServer ==
  /\ bg.pc \in {"check", "send"} /\ ~server
  /\ HostDown
  /\ UNCHANGED <<db, net>>

Crash == up /\ HostDown /\ UNCHANGED <<db, net>>

\* The new process hosts the server in status STOPPED (hosting_panel.cpp:38-42).
Launch ==
  /\ ~up /\ up' = TRUE
  /\ UNCHANGED <<db, control, server_users, new_messages, cb, bg, net>>

\* Sixty seconds without a request.
TimePasses(r) ==
  /\ server_users[r].fresh
  /\ server_users' = [server_users EXCEPT ![r].fresh = FALSE]
  /\ UNCHANGED <<up, db, control, new_messages, cb, bg, net>>

-----------------------------------------------------------------------------
Init ==
  /\ up = TRUE
  /\ users = InitialUsers /\ messages = <<>> /\ channels = <<>>
  /\ status = "STOPPED" /\ listening = FALSE /\ server = FALSE /\ stop = FALSE
  /\ server_users = NoUsers /\ new_messages = <<>>
  /\ loading = NoUsers /\ gui = "idle" /\ cb = IdleCallback /\ bg = NoThread
  /\ net = <<>>

GuiStep ==
  \/ StartAssign \/ StartSelect \/ StartPush \/ StartFlag \/ StartThread
  \/ StopCleanup \/ StopForget \/ StopClear \/ StopFlag \/ StopJoin

PacketCallback(e) ==
  \/ \E c \in Channels : LoadChannelBegin(e, c) \/ SendMessageBegin(e, c)
  \/ JoinServerInsert(e)
  \/ CreateNewChannel

CallbackStep ==
  \/ LoadChannelActive \/ LoadChannelReply
  \/ SendMessageInsert \/ SendMessageNoUsername \/ SendMessagePush \/ SendMessageFailed
  \/ SendMessageOnline \/ MovedUserAbort \/ MovedUserWrite
  \/ JoinServerAbort \/ CbNullServer

BackgroundStep ==
  \/ BgLoop \/ BgClear \/ BgNullServer
  \/ \E r \in bg.todo :
       \/ BgUser(r) \/ BgStaleUser(r) \/ BgAnswer(r) \/ BgTimeout(r) \/ BgWipe(r)
       \/ BgSend(r)

Next ==
  \/ StartCreate \/ StopBegin
  \/ GuiStep \/ CallbackStep \/ BackgroundStep
  \/ \E e \in Endpoints : PacketCallback(e)
  \/ Crash \/ Launch
  \/ \E r \in DOMAIN server_users : TimePasses(r)

Spec == Init /\ [][Next]_vars

\* Each thread keeps running: handlers return, SwiftNet requests end with an
\* answer or a timeout, and swiftnet_server_cleanup gets its turn between two
\* packets.  Nobody has to press a button, send a packet or start the program.
Fairness ==
  /\ WF_vars(GuiStep) /\ SF_vars(StopCleanup)
  /\ WF_vars(CallbackStep)
  /\ WF_vars(BackgroundStep)

FairSpec == Spec /\ Fairness

-----------------------------------------------------------------------------
(* Properties *)

UserIds == 0..MaxUsers
MessageRow == [message : Endpoints, channel_id : Channels, sender_id : UserIds]
QueueRow == [id : Nat \ {0}, message : Endpoints, channel_id : Channels,
             sender_id : UserIds]
UserData == [id : UserIds, ip_address : IPs, user_type : {"Member", "Admin"}]
UserRecord ==
  [status : {"OFFLINE", "ONLINE"}, data : UserData,
   addr_data : Endpoints \cup {NoAddr}, active_channel_id : Channels \cup {0},
   fresh : BOOLEAN]

\* A packet's rows are some places of a queue, with what stood there.
IsPacket(p) ==
  /\ DOMAIN p = {"to", "rows"}
  /\ p.to \in Endpoints
  /\ DOMAIN p.rows \subseteq Nat \ {0}
  /\ \A i \in DOMAIN p.rows : p.rows[i] \in QueueRow

TablesOK ==
  /\ users \in Seq(UserRows) /\ Len(users) <= MaxUsers
  /\ messages \in Seq(MessageRow)
  /\ channels \in Seq([hosted_server_id : {ServerId}])

ObjectOK ==
  /\ up \in BOOLEAN /\ listening \in BOOLEAN /\ server \in BOOLEAN /\ stop \in BOOLEAN
  /\ status \in {"STOPPED", "RUNNING"}
  /\ gui \in {"idle", "created", "select", "push", "thread",
              "cleanup", "forget", "clear", "flag", "join"}

UsersOK ==
  /\ DOMAIN server_users \subseteq Nat
  /\ server_users \in [DOMAIN server_users -> UserRecord]
  /\ DOMAIN loading \subseteq Nat
  /\ loading \in [DOMAIN loading -> UserData]

CallbackRecord ==
  [pc : {"idle", "active", "reply", "insert", "push", "online", "join"},
   from : Endpoints \cup {NoAddr}, channel_id : Channels \cup {0},
   user : Nat, moved : BOOLEAN, id : Nat]

\* The user a handler has found is still loaded.
CallbackOK ==
  /\ cb \in CallbackRecord
  /\ cb.pc = "idle" => cb = IdleCallback
  /\ cb.pc # "idle" => cb.from \in Endpoints
  /\ cb.pc \in {"active", "insert", "push", "online"} =>
       cb.user \in DOMAIN server_users /\ cb.channel_id \in Channels
  /\ cb.pc = "push" => cb.id \in DOMAIN messages

ThreadOK ==
  /\ bg \in [pc : {"none", "loop", "users", "check", "wipe", "send", "exited"},
             todo : SUBSET Nat, batch : Seq(QueueRow)]
  /\ bg.pc = "none" => bg = NoThread

IsSequence(s) == s \in Seq({s[k] : k \in DOMAIN s})

NetOK ==
  /\ IsSequence(net)
  /\ \A k \in DOMAIN net : IsPacket(net[k])

\* The type of every variable.
TypeOK ==
  /\ TablesOK /\ ObjectOK /\ UsersOK /\ new_messages \in Seq(QueueRow)
  /\ CallbackOK /\ ThreadOK /\ NetOK

\* A row is stored when a later LOAD_CHANNEL_DATA of its channel returns it.
Stored(row) ==
  LET stored == SelectChannelMessages(messages, users, row.channel_id)
  IN  /\ row.id \in DOMAIN stored
      /\ stored[row.id] = [message |-> row.message, channel_id |-> row.channel_id,
                           sender_id |-> row.sender_id]

\* What a live update shows, or the queue will show, is what a reload shows:
\* the same id, author, channel and text, also after the process died
\* between the insert, the queue and the broadcast (374-378, 132-136).
FeedPersisted ==
  /\ \A i \in DOMAIN new_messages : Stored(new_messages[i])
  /\ \A i \in DOMAIN bg.batch : Stored(bg.batch[i])
  /\ \A k \in DOMAIN net : \A i \in DOMAIN net[k].rows : Stored(net[k].rows[i])

\* One host never gets a message twice, nor an older one after a newer one, on
\* whatever port, across stops, restarts and crashes: the thread takes the
\* queue, sends it once to each user and drops it (51-136).
FeedInOrder ==
  /\ \A k, l \in DOMAIN net :
       k < l /\ IpOf(net[k].to) = IpOf(net[l].to) =>
         \A i \in DOMAIN net[k].rows, j \in DOMAIN net[l].rows :
           net[k].rows[i].id < net[l].rows[j].id
  /\ \A k \in DOMAIN net : \A i, j \in DOMAIN net[k].rows :
       i < j => net[k].rows[i].id < net[k].rows[j].id

\* Updates go to members only, each at an address of that member's own host,
\* and one update is about one channel, although a user's address and channel
\* change under the sending thread.
FeedToMembers ==
  /\ \A r \in DOMAIN server_users :
       server_users[r].addr_data # NoAddr =>
         IpOf(server_users[r].addr_data) = server_users[r].data.ip_address
  /\ \A k \in DOMAIN net :
       /\ \E r \in MemberRows(users, ServerId) : users[r].ip_address = IpOf(net[k].to)
       /\ \A i, j \in DOMAIN net[k].rows :
            net[k].rows[i].channel_id = net[k].rows[j].channel_id

Whole ==
  /\ up /\ status = "RUNNING" /\ listening /\ server /\ ~stop
  /\ bg.pc \notin {"none", "exited"}

Gone ==
  /\ status = "STOPPED" /\ ~listening /\ ~server
  /\ bg = NoThread /\ cb = IdleCallback /\ server_users = NoUsers

\* Between two button presses the object is whole: stopped means no thread, no
\* SwiftNet server, no users and no handler; running means all of them.
IdleIsWhole == gui = "idle" => Gone \/ Whole

\* While the server runs, every registered member is loaded, except the one whose
\* JOIN_SERVER is being handled: a member is never unknown to the handlers.
MembersLoaded ==
  gui = "idle" /\ status = "RUNNING" =>
    \A r \in MemberRows(users, ServerId) :
      \/ /\ r \in DOMAIN server_users
         /\ server_users[r].data.ip_address = users[r].ip_address
      \/ cb.pc = "join" /\ IpOf(cb.from) = users[r].ip_address

\* A stored message names as its sender the user of the host that typed it, as
\* long as the row ids fit the sixteen bits of database.cpp:251.
SenderAttribution ==
  \A m \in DOMAIN messages :
    messages[m].sender_id \in DOMAIN users =>
      users[messages[m].sender_id].ip_address = IpOf(messages[m].message)

\* Only an online user is sent an update: nothing takes a user offline between
\* the thread's look at its status (88) and the packet (125).
UpdatesOnlyOnline ==
  [][Len(net') > Len(net) =>
       \E r \in DOMAIN server_users :
         /\ server_users[r].status = "ONLINE"
         /\ server_users[r].addr_data = net'[Len(net')].to]_vars

\* "Failed to insert hosted_server_user" (database.cpp:97) says that a JOIN_SERVER
\* that is answered with FAIL (208-226, once there is a server to answer) has added
\* nobody.
FailedJoinInsertsNothing ==
  [][cb.pc = "idle" /\ cb'.pc = "join" /\ server => UNCHANGED users]_vars

\* StopServer returns: it joins a thread that it has told to leave and that may
\* be waiting for a client's answer.
StopReturns ==
  gui \in {"cleanup", "forget", "clear", "flag", "join"} ~> gui = "idle"

\* An accepted message does not wait for ever: the thread takes the queue, unless
\* the server is stopped first.
QueueDrains == new_messages # <<>> ~> new_messages = <<>> \/ status = "STOPPED"

\* The callback thread always comes back for the next packet.
HandlersReturn == cb.pc # "idle" ~> cb.pc = "idle"

-----------------------------------------------------------------------------
(* What IdleIsWhole, FeedInOrder and the others rest on: the state in the      *)
(* middle of StartServer, StopServer, a handler and a broadcast.               *)

\* In the middle of StartServer (450-468) the handlers find no user before the rows are
\* selected, and there is no thread before the flag is cleared; in between, users can
\* be online and messages be queued.  In StopServer the thread runs on while the object
\* is taken apart.
Starting ==
  /\ up /\ status = "RUNNING" /\ listening
  /\ server <=> gui # "created"
  /\ bg = NoThread
  /\ gui \in {"created", "select"} => cb.pc \in {"idle", "join"} /\ server_users = NoUsers
  /\ gui = "thread" => ~stop

Stopping ==
  /\ up /\ status = "STOPPED"
  /\ listening <=> gui = "cleanup"
  /\ server <=> gui \in {"cleanup", "forget"}
  /\ stop <=> gui = "join"
  /\ bg.pc # "none"
  /\ gui # "join" => bg.pc # "exited"
  /\ gui # "cleanup" => cb = IdleCallback
  /\ gui \in {"flag", "join"} => server_users = NoUsers

Lifecycle ==
  /\ ~up => gui = "idle" /\ status = "STOPPED"
  /\ IdleIsWhole
  /\ gui \in {"created", "select", "push", "thread"} => Starting
  /\ gui \in {"cleanup", "forget", "clear", "flag", "join"} => Stopping

UniqueAddresses ==
  \A r, s \in DOMAIN users : users[r].ip_address = users[s].ip_address => r = s

\* A loaded user is the user of its row, with an address of its own host or none.
UsersMatchTable ==
  /\ UniqueAddresses
  /\ \A r \in DOMAIN server_users :
       /\ r \in MemberRows(users, ServerId)
       /\ server_users[r].data.id = r % UserIdModulus
       /\ server_users[r].data.ip_address = users[r].ip_address
       /\ server_users[r].addr_data # NoAddr =>
            IpOf(server_users[r].addr_data) = server_users[r].data.ip_address

\* StartServer loads the members one by one in the order of their rows and forgets none,
\* although a host may join after they were selected: that one's JOIN_SERVER is then
\* still being handled.
Loading ==
  /\ gui # "push" => loading = NoUsers
  /\ \A r \in DOMAIN loading :
       /\ r \in MemberRows(users, ServerId)
       /\ loading[r] = SelectHostedServerUsers(users, ServerId)[r]
       /\ \A s \in DOMAIN server_users : s < r
  /\ gui \in {"push", "thread"} \/ (gui = "idle" /\ status = "RUNNING") =>
       \A r \in MemberRows(users, ServerId) :
         \/ r \in DOMAIN server_users \cup DOMAIN loading
         \/ cb.pc = "join" /\ IpOf(cb.from) = users[r].ip_address

\* A pointer that is left behind is the handler's of a user that was just loaded, and
\* that has no channel yet if the handler is about to set it.
MovedUser ==
  /\ cb.moved => cb.pc \in {"active", "insert", "push", "online"}
  /\ gui = "push" =>
       \A r \in DOMAIN server_users :
         server_users[r].status = "OFFLINE" => server_users[r].active_channel_id = 0
  /\ cb.pc = "active" /\ (gui = "push" \/ cb.moved) =>
       server_users[cb.user].active_channel_id = 0
  /\ cb.pc = "active" /\ gui = "push" => server_users[cb.user].status = "ONLINE"

Broadcasting == bg.pc \in {"users", "check", "wipe", "send"}

\* The queue is in the order of the table; the batch is what it was when the
\* thread took it, so more may follow but nothing is gone.
QueueInOrder ==
  /\ \A i \in DOMAIN new_messages : new_messages[i].id <= Len(messages)
  /\ \A i, j \in DOMAIN new_messages : i < j => new_messages[i].id < new_messages[j].id
  /\ Broadcasting =>
       /\ Len(bg.batch) <= Len(new_messages)
       /\ \A i \in DOMAIN bg.batch : bg.batch[i] = new_messages[i]
  /\ cb.pc = "push" =>
       /\ cb.id <= Len(messages)
       /\ \A i \in DOMAIN new_messages : new_messages[i].id < cb.id
       /\ \A k \in DOMAIN net : \A i \in DOMAIN net[k].rows : net[k].rows[i].id < cb.id

\* The row that a handler is about to queue is already in the table.
PushStored == cb.pc = "push" => Stored(NewMessage)

\* The broadcast under way has passed the user of this host.
Served(ip) ==
  Broadcasting /\ \E r \in DOMAIN users : users[r].ip_address = ip /\ r \notin bg.todo

\* What a host was sent is stored, and older than all that is still to be sent.
SentBeforeQueued ==
  \A k \in DOMAIN net : \A i \in DOMAIN net[k].rows :
    /\ net[k].rows[i].id <= Len(messages)
    /\ Served(IpOf(net[k].to)) \/
         \A j \in DOMAIN new_messages : net[k].rows[i].id < new_messages[j].id

\* All of it together, as the proofs use it: the unfinished starts, stops, handlers
\* and broadcasts that the other properties rest on.
Inductive ==
  /\ Lifecycle /\ UsersMatchTable /\ Loading /\ MovedUser
  /\ QueueInOrder /\ SentBeforeQueued /\ PushStored

-----------------------------------------------------------------------------
(* What the threads promise together, as one log and one feed per host *)

\* The ids of all messages broadcast to one host.
FeedOf(ip) ==
  UNION {{net[k].rows[i].id : i \in DOMAIN net[k].rows} :
           k \in {l \in DOMAIN net : IpOf(net[l].to) = ip}}

Feed == INSTANCE LiveFeed
          WITH Hosts <- IPs, Rows <- MessageRow, log <- messages,
               feed <- [ip \in IPs |-> FeedOf(ip)]

\* The three threads, their crashes and restarts implement the live feed: the
\* log only grows, and a host is sent only stored messages, of one channel at a
\* time, each of them newer than all it was sent before.
ImplementsLiveFeed == Feed!Spec
=============================================================================
