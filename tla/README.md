# SwiftCom in TLA+

SwiftCom is a chat application in C++: every user runs the same program, which can
host servers (stored in a local SQLite file) and join servers that others host. The
user interface is wxWidgets, the network is the external library SwiftNet. The
repository has no tests and hardly any comments, so everything here is translated from
`src/src`. What is checked by TLC and what is proved with TLAPS is said below, run by
run and theorem by theorem; `PROJECT.json` holds the correspondence line by line.

## 1. Inventory

| component | state | operations | interacts with |
|---|---|---|---|
| hosted server (`objects/hosted_server.cpp`) | status, SwiftNet server, `server_users`, `new_messages`, thread, stop flag | `StartServer`, `StopServer`, `PacketCallback` and nine handlers, `BackgroundProcesses` | database; clients by requests, responses, PERIODIC_CHAT_UPDATE and CLIENT_ONLINE_CHECK |
| database (`objects/database.cpp`) | five tables, one prepared statement per query | inserts, selects, an update | every window and every handler, from two threads |
| settings windows (`frames/server_settings_frame`) | lists drawn, a static array of menus | open, list, Give/Remove Admin, close | database |
| chat room window (`frames/chat_room_frame`) | connection, channels, one `ChatPanel` with `channel_messages`, its events | open, select a channel, load, redraw, send, close; the handler of live updates | hosted server |
| hosting panel (`home_frame/panels/hosting_panel.cpp`) | `vector<HostedServer>` | load at start, create, start and stop | hosted server, database |
| servers panel (`servers_panel.cpp`, `joined_server.cpp`) | joined servers and their status | refresh every five seconds, enter, admin menu | hosted servers (LOAD_JOINED_SERVER_DATA) |
| add server popup (`add_server_popup_menu.cpp`) | text fields | decode the code, JOIN_SERVER, store | hosted server, database, invitation code |
| invitation code (`utils/crypto`) | none | base32 of address and id | hosting panel, popup |
| admin menu window (`frames/admin_menu_frame`) | channel list, a static array of menus | load, create a channel | hosted server |
| application (`main.cpp`, `home_frame.cpp`) | database, lists of windows | launch, exit | all |
| widgets, `utils/net`, `utils/file_system` | layout; none | drawing; I/O | all |

What makes each hard, and the properties that make it correct:

* Hosted server. Three threads share one object without a lock: the main thread
  (`StartServer`, `StopServer`), the SwiftNet callback thread (handlers, one packet at
  a time) and the background thread (groups the queue, checks whether silent users are
  online, sends, clears). The process can end between an insert, the queue and the
  broadcast. Properties: what is sent live is what a reload shows; each host gets each
  message at most once and in order; only members who are online; the object is whole
  between two button presses; stopping returns; no thread is stuck.
* Database. One statement per query for two threads; ids are cast to 16 bits; the
  address of a user is unique over all servers. Properties: a call returns its rows;
  messages keep their author.
* Settings windows. Updates of single users; lists that show what they are headed.
* Chat room window. The receive thread inserts into a vector that the main thread
  assigns and draws; panels are deleted while updates arrive. Properties: what is held
  is shown, history is complete, nothing outlives a panel.
* Hosting panel. A vector of servers that moves while rows, threads and handlers hold
  addresses into it; ids drawn at random. Properties: rows, threads and packets stay
  with their servers, a code leads to its server.
* Servers panel and popup. A list that is cleared and filled again under its rows, by
  requests that are lost, late or leak, about servers whose process dies of a join.
  Properties: rows and list agree, no server of the table is missing from the list, and
  what is shown as online has the client as a user.
* Admin menu windows. A static array of panels; creations that are handled after they
  were given up. Properties: the list is the host's, one press adds one channel.

The full list of hazards with their lines is in `PROJECT.json` under `hazards`.

## 2. Modules

| module | what it is |
|---|---|
| `Database` | the tables as sequences and the queries as operators |
| `HostedServer` | the three threads, crashes and restarts, all properties of a hosted server |
| `LiveFeed` | the abstract specification: a log that only grows, and for each host the places it was sent |
| `HostedServerProofs` | theorems about `HostedServer` |
| `ChatRoom` | the client's window and receive thread over the host of `LiveFeed` |
| `ChatRoomProofs` | theorems about `ChatRoom` |
| `ChatSystem` | `HostedServer` together with a client host and the panels it opens one after the other |
| `ChatSystemProofs` | theorems about `ChatSystem`, on top of those about `HostedServer` |
| `ServerSettings` | the settings windows and the prepared statement they share with the callback thread, one sqlite3 call per step |
| `ServerSettingsProofs` | theorems about `ServerSettings` |
| `InvitationCode` | the base32 encoder and decoder and what is put into a code |
| `InvitationCodeProofs` | theorems about `InvitationCode`, for byte sequences of any length |
| `HostingPanel` | the vector of hosted servers, its rows and the pointers into it |
| `HostingPanelProofs` | theorems about `HostingPanel`, on top of those about `InvitationCode` |
| `ServersPanel` | the servers panel of a client, its Add Server dialog, and the hosts that answer |
| `ServersPanelProofs` | theorems about `ServersPanel` |
| `AdminMenu` | the admin menu windows of a client and the host that answers |
| `AdminMenuProofs` | theorems about `AdminMenu` |
| `MCHostedServer`, `MCChatRoom`, `MCChatSystem`, `MCServerSettings`, `MCHostingPanel`, `MCServersPanel`, `MCAdminMenu` | instances for TLC |

How they fit together. `HostedServer` and `ChatRoom` meet in `LiveFeed`: the first
implements it (`ImplementsLiveFeed`), the second takes its steps as those of the host.
`ChatSystem` extends `HostedServer` itself: its steps are the host's with what the client
learns from them, and the client's own; `SystemHasHost` proves that nothing else happens
to the host. `HostingPanel` extends `InvitationCode`; it sees of a hosted server only
whether it runs, as `ServersPanel` and `AdminMenu` see of a host only what it answers.

### HostedServer and the code

`gui`, `cb` and `bg` are the program counters of the three threads; `users`, `messages`
and `channels` the tables, which survive a crash; `status`, `server`, `stop`,
`server_users` and `new_messages` the members of the object; `listening` says that
the SwiftNet server and its handler exist. `net` is the sequence of updates handed to
SwiftNet, which may or may not arrive.

* `StartServer` is `StartCreate`, `StartAssign`, `StartSelect`, one `StartPush` for each
  user, `StartFlag` and `StartThread`; `StopServer` is `StopBegin` to `StopJoin`. The
  steps are cut where other threads see the difference: the handler is installed (450)
  before `server` is assigned (452), the rows are selected (454), each user is pushed
  (456), and the flag (462) and the thread (464) come last. `loading` holds the selected
  rows that are still to be pushed. In between a user who was already pushed can be found,
  go online and queue messages before there is a thread, and a host that joins after line
  454 is in the table and not among the users.
* A `push_back` may move the users while a handler holds the address of one (`cb.moved`).
  The handler then ends the process when it uses the address (`MovedUserAbort`) or has
  written to the old place while the users were copied, and the write is lost
  (`MovedUserWrite`). Whether a push moves the users is left open, since the capacity
  depends on what earlier starts allocated.
* `PacketCallback` starts a handler: `LoadChannelBegin`, `SendMessageBegin`,
  `JoinServerInsert`, `CreateNewChannel`; each goes on with its own steps. SEND_MESSAGE is
  four: found (361), inserted (374), queued (378) and `MarkUserOnline` (383). A request
  that is dropped or only answered is no step. An insert can fail for a reason of
  SQLite's own in each of them; the insert of a message whose sender has no row (148) is
  cut off before `sqlite3_reset` and is not committed.
* `BackgroundProcesses` is `BgLoop`, one round of `BgUser`/`BgAnswer`/`BgTimeout`/`BgWipe`/
  `BgSend` for each user, and `BgClear`.
* Undefined behaviour: reading a user that `StopServer` cleared has no effect
  (`BgStaleUser`) or ends the process; a SwiftNet call on a null server ends it. The build
  enables AddressSanitizer (`build/CMakeLists.txt`), so the end of the process is what
  such an access produces.
* JOIN_SERVER always ends the host process: `InsertHostedServerUser` takes the
  `SQLITE_ROW` of `INSERT ... RETURNING` for a failure (`database.cpp:96`), and the
  handler goes on to `result.value()`. The user, if he was inserted, stays in the table.
  This is how a database with members comes about, so the initial tables of the instances
  are reachable.

A query is one step here. `ServerSettings` shows what happens when two threads are inside
the same statement; `MembersLoaded` and `SenderAttribution` rest on the assumption
that they are not.

### ServerSettings and the code

`stmt` is the one `select_hosted_server_users`: reset, on a row, or halted, with the
arguments bound to it. The rules are those of sqlite3: calls are serialised, a bind is
rejected unless the statement is reset, a step of a halted statement starts again.
Each thread of the model goes through lines 242-265 of `database.cpp` call by call. The
main thread draws lists and presses buttons; the callback thread answers
LOAD_JOINED_SERVER_DATA. The `WHERE` of the update is taken with the precedence SQL
gives it.

### ChatRoom and the code

`gui` goes through the deletion of the old panel, the constructor of the new one, the
load and the redraw; `rcv` through `HandlePeriodicChatUpdate`. An insert during an
assignment or a redraw (`InsertRace`) may end the process; if it does not, the redraw
shows the list as it was at its begin, and the assignment overwrites the insert. The
host posts, answers and sends at any time; updates arrive late, out of order or not at
all. Without a connection `client_connection` is read uninitialised, which ends the
process under AddressSanitizer. Sending a message changes nothing in the client that
is modelled.

### ChatSystem and the code

A panel is a port and a channel. `list` is the set of its rows, each with the packet and
the place it came from, 0 for the answer to LOAD_CHANNEL_DATA. `requests` holds the
panels whose request the host has not handled; it may handle one after the panel is
gone. The packets are those in `net`; the panel reads each at most once, in any order, or
never. `pending` and `strayed` are history variables, read by no action.

### HostingPanel and the code

An address is a buffer of the vector and an index; a buffer is known by its capacity,
which doubles when the vector is full. `threads` holds the `this` pointers that the
background threads run on, `servers[i].thread` the handle in the object, `handler` what
`GetServerById` returned, `rows[r].server` the reference that a row's buttons captured.
Whoever uses an address in a freed buffer ends the process (AddressSanitizer). Starting
and stopping are one step each; their inner steps are `HostedServer`'s. `PortTaken` is an
assumption about SwiftNet (section 5), and no property rests on it alone.

### ServersPanel and the code

`gui` is the main thread: idle, at a place in the loop of `RefreshServerInfo`, or waiting
in the dialog. `list` is the vector that the loop clears and fills, `rows` what
`DrawServers` drew of it; `joined` and `member` are the tables of the client and of the
hosts, in two processes. `late` holds joins the client gave up and the host has not
handled. A host that handles a join dies of it with all its servers (section
"HostedServer"); FAIL, SUCCESS or nothing may have reached the client, and the user may
be in the host's table or not: the insert can fail, and SUCCESS follows FAIL all the same.
So the client can store a server that does not have it as a user, and the two tables
need not agree. What holds is `OnlineIsMember`: such a server is listed as online at most
from the join to the next refresh, which asks the host. `greeted`, read by no action, is
the set of servers that answered SUCCESS since the last refresh began.

### AdminMenu and the code

`frames` are the windows of one process in the order they were opened, with the panel
that `active_menu` points to; `menus` is the static array. A channel is the press of
Create that asked for it. `late` holds creations that the client gave up.

## 3. Runs

| run | instance | what it shows |
|---|---|---|
| `hosted_server` | two members, one port, two channels, two messages; 2.1 million states | all threads, crashes and restarts at any step: types, `FeedPersisted`, `FeedInOrder`, `IdleIsWhole`, `UpdatesOnlyOnline`, and `Inductive`, the invariant of the proofs, in the middle of every start and stop |
| `ports` | one member with two ports, and a stranger; 144 000 states | addresses and channels change under the sender: `FeedToMembers` and the refinement `ImplementsLiveFeed` |
| `members` | a member, a user of another server, a host that joins; ids wrap at the third row; fair threads; 106 000 states | `MembersLoaded`, `SenderAttribution` while hosts join and the process restarts; `StopReturns`, `QueueDrains`, `HandlersReturn` |
| `chat_system` | one client host with two ports, two channels, two messages; 2.4 million states | `UpdateShownOnce`; what is shown twice was pending (`DuplicatesWerePending`), what is of another channel came through a race (`ForeignOnlyAfterRace`) |
| `chat_room` | two channels, three messages; 470 000 states | `TypeOK`, `NothingAfterDelete`, `DrawnWhenQuiet`, `HistoryIsShown`, `PanelInv` (the inductive invariant of the proofs), and `RowsAreDrawn` under fairness |
| `settings` | two users of one server, one window, one press, one request; 3.1 million states | `TypeOK`, `ExactWhenAlone` |
| `hosting_panel` | up to four objects, three ids that repeat; 53 000 states | `RowsAreCurrent`, `ThreadsHaveHandles`, `PacketsFindTheirServer` while the vector moves; `InvitationsLead` |
| `servers_panel` | two servers of one host, two rows, one lost answer; 350 000 states | `RowsMatchList`, `JoinedAreListed`, `OnlineIsMember`, `OnlyRefreshLeaks`, and `StoppedIsShown` under fairness |
| `admin_menu` | three windows, three channels, two presses; 499 000 states | `ListIsServed`, `AckedIsListed`, `OncePerPress`, `MenusAgree` |

Runs that TLC is expected to refute, each a disagreement between what the program says
and what it does:

| run | the program says | the counterexample |
|---|---|---|
| `join_fails` | "Failed to insert hosted_server_user" (`database.cpp:97`) | the user was inserted |
| `admins_list` | "Admins" (`admin_list_panel.cpp:30`) | a request in the callback thread takes the statement over; members are listed |
| `give_admin` | "Give Admin" (`admin_list_panel.cpp:101`) | all users of all servers become admins (`database.cpp:49`) |

Bounds. `MaxMessages`, `MaxUsers` and `MaxChannels` cap the tables of `HostedServer`; two
messages are the least that can be reordered, and two hosts, or two ports of one host, the
least between which an update can go astray. Two members are also the least with which a
push happens while a handler holds a user. `UserIdModulus` is 65536, or 3 in `members`,
where the third row is the one that wraps to no user; its channel has the id of the user
who is on another server, so that ids taken for each other show. Stops, starts, crashes,
timeouts and online checks are not bounded. In `ServerSettings`, `MaxUpdates` and
`MaxRequests` bound presses and requests: after one overlapping request the window makes
further calls that are alone, which is what `ExactWhenAlone` is about. That a call
*returns* is not claimed: a request can reset the statement under a call, and an endless
stream of requests can do so for ever. Three messages in `ChatRoom` allow two updates
around a load that has history. In `ChatSystem` two ports allow a second panel whose
predecessor's request and packets are still on their way; one client host is enough, since
a panel never sees what is sent to another host. In `HostingPanel` the vector moves at the
first, second and third object; the ids include both bytes and the largest. In
`ServersPanel` both servers are of one host, which is what makes one die of a join to the
other; `MaxTimeouts` bounds the refresh requests without an answer, `MaxJoined` the rows.
In `AdminMenu` three windows are a first, a second that shows its own panel but whose
`active_menu` is the first one's, and one opened after the first was closed. Starts,
stops, crashes and restarts are nowhere bounded.

Deadlock is checked in all runs but those of `ChatRoom` and `ServerSettings`: elsewhere a
request or a restart is always possible, there the process can end for good.

Fairness. `HostedServer`: weak fairness of each thread's steps, since handlers contain no
unbounded wait, requests end with an answer or a timeout and the background loop
sleeps for a bounded time; strong fairness of `StopCleanup` alone, because
`swiftnet_server_cleanup` gets its turn between two packets although packets never stop.
Nobody must press a button, send a packet, restart the program or answer an online
check. `ChatRoom`: weak fairness of both threads and of the event loop; the user and the
host need do nothing. `ServersPanel`: weak fairness of the refresh and of the dialog's
wait, which SwiftNet's timeouts bound; strong fairness of `RefreshBegin`, since the
timer's event stays queued while the user clicks on.

## 4. Proofs

For every value of the constants that satisfies the named assumptions
(`UserIdModulusAssumption`, `ServerAssumption`, `InitialUsersAssumption`,
`RoomAssumption`, `ClientAssumption`, `HostingAssumption`, `PanelAssumption`,
`MenuAssumption`, `SettingsAssumption`), each in the module that declares the constants:

| theorem | statement |
|---|---|
| `TypeCorrect` | `Spec => []TypeOK` of `HostedServer` |
| `IdleServerIsWhole` | `Spec => []IdleIsWhole` |
| `FeedIsInOrder` | `Spec => []FeedInOrder` |
| `FeedIsForMembers` | `Spec => []FeedToMembers` |
| `FeedIsPersisted` | `Spec => []FeedPersisted` |
| `UnfinishedIsSound` | `Spec => []Inductive` |
| `OnlineUsersAreSent` | `Spec => UpdatesOnlyOnline` |
| `MembersAreLoaded` | `Spec => []MembersLoaded` |
| `SendersAreRight` | `Spec => []SenderAttribution`, if `MaxUsers < UserIdModulus` |
| `ImplementsFeed` | `Spec => ImplementsLiveFeed`, the refinement of `LiveFeed` |
| `SystemHasHost` | `SystemSpec => Spec`: all of the above hold of `ChatSystem` |
| `SystemFeedIsLive` | `SystemSpec => ImplementsLiveFeed` |
| `UpdatesShownOnce` | `SystemSpec => []UpdateShownOnce` |
| `DuplicatesArePending` | `SystemSpec => []DuplicatesWerePending` |
| `ForeignNeedsRace` | `SystemSpec => []ForeignOnlyAfterRace` |
| `RowsAreAnnounced` | `Spec => []Redrawn` of `ChatRoom` |
| `DeletedPanelIsGone` | `Spec => []NothingAfterDelete` |
| `QuietPanelIsDrawn` | `Spec => []DrawnWhenQuiet` |
| `TypeCorrect` | `Spec => []TypeOK` of `ChatRoom` |
| `HistoryOnShow` | `Spec => []HistoryIsShown` |
| `PanelInvariant` | `Spec => []PanelInv` |
| `PanelTypes` | `Spec => []TypeOK` of `HostingPanel` |
| `RowsStayCurrent` | `Spec => []RowsAreCurrent` |
| `ThreadsStayJoinable` | `Spec => []ThreadsHaveHandles` |
| `PacketsAreRouted` | `Spec => []PacketsFindTheirServer` |
| `InvitationsAreGood` | `Spec => []InvitationsLead` |
| `DecodeEncode` | `base32_decode(base32_encode(data)) = data` for every sequence of bytes |
| `InvitationRead` | what `AddServer` reads from an `InvitationCode` is the address and the id in it |
| `TypeCorrect` | `Spec => []TypeOK` of `ServersPanel` |
| `RowsActOnWhatTheyShow` | `Spec => []RowsMatchList` of `ServersPanel` |
| `NoJoinedServerIsMissing` | `Spec => []JoinedAreListed` |
| `GreenServersHaveUs` | `Spec => []OnlineIsMember` |
| `LeaksAreCounted` | `Spec => []OnlyRefreshLeaks` |
| `TypeCorrect` | `Spec => []TypeOK` of `AdminMenu` |
| `ListsAreServed` | `Spec => []ListIsServed` |
| `AcknowledgedAreListed` | `Spec => []AckedIsListed` |
| `PressesAddOnce` | `Spec => []OncePerPress` |
| `WindowsShareMenus` | `Spec => []MenusAgree` |
| `TypeCorrect` | `Spec => []TypeOK` of `ServerSettings` |
| `AloneIsExact` | `Spec => []ExactWhenAlone` |

The argument for `HostedServer`. `Inductive` is built in layers, each proved from the
ones before:

1. `TypeOK` holds by itself except that `StopClear` removes the users a handler refers
   to; `Lifecycle` says that no handler runs then. `Lifecycle` strengthens `IdleIsWhole`
   by what is true in the middle of a start or a stop (`Starting`, `Stopping`): while
   users are pushed there is no thread, so that the queue is filled by handlers alone.
2. `UsersMatchTable`: a loaded user is the user of its row and has an address of its own
   host, because the handlers compare addresses before they store one. Addresses are
   unique, so a host has one user. `FeedToMembers` follows step by step. `Loading`: what
   is still to be pushed are members of later rows than all that were pushed, so no push
   replaces a user, and none is forgotten except the one whose join is being handled.
   `MovedUser`: only a handler's pointer to a user who was just pushed can be left
   behind, and a lost write leaves that user on no channel.
3. `QueueInOrder`: the queue is in the order of the ids and the thread's batch is a prefix
   of the queue, because only the thread removes rows. `SentBeforeQueued`: what a host
   was sent is older than all that is queued, unless the broadcast under way has passed
   that host (`Served`). From these two `FeedInOrder`: a user's turn comes once in a
   broadcast, and the clear removes at least the batch.
4. `PushStored`, the row in a handler's hands is in the table, gives `FeedPersisted`:
   tables only grow, and rows go from hand to queue to batch to packet unchanged.

A `FeedInOrder` that spoke of the network alone would not be inductive: it needs the queue,
the batch, the handler's row and the position of the broadcast.

From the same layers follow the rest. `UpdatesOnlyOnline` needs that the user whose turn it
is was online when the broadcast looked and still is (`ServedIsOnline`): handlers only take
users online, and the broadcast takes offline only the user whose turn it ends.
`SenderAttribution` needs that the user in a handler's hands is the caller's
(`CallerIsUser`), and holds while no id wraps. `MembersLoaded` is the part
of `Loading` for a server that runs. The refinement maps the table to the log and the packets
to the places sent; each step is a post, an update or a stutter, and that a packet is an
update the abstract feed allows follows from `FeedInOrder`, `FeedToMembers` and
`FeedPersisted` together.

The argument for `ChatRoom`. `PanelInv` has three parts, and the last needs the others:
`TypeOK`, `Redrawn` and `HistoryKept`. `Redrawn` says that the list on show, or the one a redraw
has fixed, differs from the list held only if an event is queued or about to be queued,
and that a panel that is gone has left nothing. `RedrawBegin` and `OnChatUpdate` discharge
an announcement, `Insert` makes one. `HistoryKept` follows the messages that were there when
the panel was built: while the main thread waits they are in the log, then in the answer,
then in the list, to which `Insert` only adds, and in what the redraw goes through. That the
answer lists all of them is `InOrderLists`: the number of smaller places maps a finite
set one to one into `1..Cardinality(S)`, hence onto it, so no place is left out. `HostIsFeed`
shows that the host as the window sees it is the same `LiveFeed` that `SystemFeedIsLive`
proves of the real one.

The argument for `ChatSystem`. A step of the system is a step of the host or leaves it
alone, so the host's theorems are cited, not proved again. `FeedInOrder` orders the
packets to one endpoint, and a panel has an endpoint of its own and reads a packet once:
`UpdateShownOnce`. For `DuplicatesWerePending` the invariant says of every id in the
answer or in the list's history that, as long as it can still come to the panel, in the
queue, in the thread's batch or in an unread packet, it is in `pending`: at the answer by
definition, later because a new row is newer than every row of the answer.
`ForeignOnlyAfterRace` follows from `Followed`: unless one of the races has happened, the
host takes the client's user, its packets and its handler at the address of the panel on
show only to that panel's channel, or to none: a user who was just pushed, and whose
channel was written to the place he was moved from, is on channel 0, and is sent nothing.
`KnownAddresses` says that the host knows no address of the client but those of panels
that were opened, so that a panel at a new connection begins with no packet of its own.

The argument for `HostingPanel`. Every action that changes the vector draws it; a running
object was started for its own place, and a copy keeps its place, so the threads are those
of the running objects. A handler's object may stop only when it waits for no packet
(`StopServers`), unless another object with its id is the one that is stopped.

The argument for `InvitationCode`. Encoder and decoder work at different paces, five bits and
eight, so the loops are compared at the bytes: `InStep(e, d, data, i)` says that a decoder which
has read what the encoder wrote for the first `i` bytes has given these bytes back, or all but
the last, whose bits lie partly in the one's buffer and partly in the other's (`Held`). Between
them the two hold 0 or 8 bits, which leaves five cases, and `OneByte` goes from each
to the next: one or two characters are written, and the byte that was held comes out.
The arithmetic of each is a lemma of its own (`Through0` to `Through4`); it only uses that bits
shifted out of the window that the loops look at are never read again. At the
end `FlushBitsLeft` writes a character that completes the byte still held, with zeros that the
decoder drops (`LastByte`). The folds of the two loops are defined over sets of places:
`FoldExists` shows that such a function exists, and `EncoderRuns` and `DecoderRuns`
that the fold is the last of a sequence of turns. Induction along the loops is
`Climb`, which states it for a set in place of a predicate and rests on `WFMin`.

`InvitationsAreGood` adds to `Hosting` that every row carries the code of its object's id, since
whatever changes the list draws it, and that every id of the table is listed. The second needs
the launch: the ids come in rising order and are as many as the table has, so none is left
out (`WholeTable`).

The argument for `ServersPanel`. `Panel` says that outside a refresh the rows drawn are the
list, that the open connections are the timeouts and the join under way, and that the list
holds the table in its order: during a refresh exactly the part gone through, afterwards
all of it. `OnlineIsMember` is proved by itself: an entry becomes green when the host has
found the client among the users of that very server, and no host forgets a user, or at a
join that was answered with SUCCESS, and then it goes with the next refresh.

The argument for `AdminMenu`. `Menu` says that a press is at one place, with the client, late,
or once in the table; that every list is a prefix of the table, which only grows; and that
a window lacks what it was acknowledged only while its list is loaded or empty.

The argument for `ServerSettings`. `Calls` says that two calls under way are not alone, that the
statement is in use only while a call is in its loop, and, of a call that is alone, where it is:
the statement has its bindings, and what it has returned are the selected rows up to the one
the statement is at. A call that begins alone therefore finds the statement reset, whatever
was raced before, and its binds are accepted. That the next row is the least of those left
uses the well-foundedness of the numbers (`WFMin`).

Only model-checked: what needs fairness (`StopReturns`, `QueueDrains`, `HandlersReturn`,
`RowsAreDrawn`, `StoppedIsShown`), since liveness is out of the prover's reach. Every other
property of a passing run is stated by a theorem above.

## 5. Not modelled, and the plan

Left out for good: drawing and layout, the scroll position, text and its length, the
I/O of `utils/net` and `utils/file_system`, memory that is never freed, and the input
checks of the dialogs. The public address is asked for whenever the hosting panel draws its
rows and at every join and Enter Server; a failure there is an exit, which is a `Crash`, and
`HostingPanel` takes the address as a constant, so a host whose address changes between two
drawings is not modelled. SwiftNet and SQLite are external and modelled by how the code
uses them. SwiftNet runs handlers on its own thread and its cleanup waits for it, requests
return an answer or nothing. A port on which a server of the same process listens is
refused: `swiftnet_create_server` returns nullptr, which line 444 tests (`PortTaken`). The
library captures packets with libpcap, and that it refuses the port cannot be read from this
repository. SQLite serialises its calls and commits a statement whole.
What SwiftNet does before `swiftnet_initialize` (`main.cpp:15` builds the panels, and so
the first refresh, before line 29) cannot be read from this repository.

Two disagreements are told here and not by a run, since neither needs an
interleaving. The array of menus of the settings windows is static
(`server_settings_frame.cpp:50`), so a second window of a process shows nothing:
`AdminMenu` models the same array. A chat room window that got no connection
(`chat_room_frame.cpp:44`) ends the process when it is closed: `CloseRoom` of `ChatRoom`
models it.

Left: several chat room windows of one client, two client hosts in `ChatSystem`
(`ports` covers them on the host's side), and two settings windows at a time.
