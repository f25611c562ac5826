---------------------------- MODULE ServersPanel ----------------------------
(***************************************************************************)
(* The servers panel of one client (panels/servers_panel.cpp), its Add     *)
(* Server dialog (panels/add_server_popup_menu.cpp), and of the hosts what *)
(* answers them (hosted_server.cpp, HandleJoinServerRequest and            *)
(* HandleLoadJoinedServerDataRequest).                                     *)
(*                                                                         *)
(* Everything here runs on the client's main thread, which waits for each  *)
(* answer: gui says what it is doing.  The dialog is modal but the timer   *)
(* fires while it is open.  A request may be lost, answered too late, or   *)
(* handled although the client gave up; so may one to the client's own     *)
(* public address, which the refresh uses where the dialog and Enter       *)
(* Server use the private one.                                             *)
(*                                                                         *)
(* A server is an address and an id.  The input checks of the dialog and   *)
(* its message boxes change nothing and are left out; a code that decodes  *)
(* (InvitationCode) names a server, whether it exists or not.              *)
(***************************************************************************)
EXTENDS Integers, Sequences

CONSTANTS
  Servers,     \* <<address, id>> of the servers
  MaxJoined,   \* bound on the rows of joined_servers and on the list
  MaxTimeouts  \* bound on the refresh requests without an answer

ASSUME PanelAssumption == MaxJoined \in Nat /\ MaxTimeouts \in Nat

VARIABLES
  running,  \* the servers that their hosts run
  member,   \* at each address the one server that has us as a user, and our type
  late,     \* JOIN_SERVER requests that the client no longer waits for
  up,       \* the client process is running
  joined,   \* the client's table joined_servers
  list,     \* joined_servers, the vector of JoinedServer objects
  rows,     \* what DrawServers has drawn of it
  gui,      \* the main thread
  popup,    \* the Add Server dialog is open
  rooms,    \* chat_room_frames, by their server
  open,     \* client connections that were not cleaned up
  timeouts, \* refresh requests without an answer (history)
  greeted   \* servers that answered SUCCESS since the last refresh began (history)

hosts == <<running, member, late>>
vars == <<hosts, up, joined, list, rows, gui, popup, rooms, open, timeouts, greeted>>

Addresses == {s[1] : s \in Servers}
NoUser == <<>>
Idle == [pc |-> "idle", at |-> 0, server |-> NoUser, answer |-> "none"]

JoinedServer(s, status, admin) == [server |-> s, status |-> status, admin |-> admin]

-----------------------------------------------------------------------------
(* The hosts *)

\* ip_address is UNIQUE in the users of a host, whichever server they are of; one
\* that is a user already is not inserted again.
Registered(s) ==
  IF member[s[1]] # NoUser THEN member
  ELSE [member EXCEPT ![s[1]] = [server |-> s, admin |-> FALSE]]

\* The host has us as a user of this server, not of another that it runs.
IsMember(s) == member[s[1]] # NoUser /\ member[s[1]].server = s

\* The handler sends FAIL, then SUCCESS on the destroyed packet, and ends the
\* process of all servers at that address; either answer may get through, or none,
\* whether the user was inserted or not (database.cpp:96-101).
HandleJoinServer(s) ==
  /\ s \in running
  /\ member' \in {member, Registered(s)}
  /\ running' = {t \in running : t[1] # s[1]}
  /\ \/ /\ gui.pc = "join" /\ gui.server = s /\ gui.answer = "pending"
        /\ \E answer \in {"FAIL", "SUCCESS", "none"} : gui' = [gui EXCEPT !.answer = answer]
        /\ UNCHANGED late
     \/ s \in late /\ late' = late \ {s} /\ UNCHANGED gui
  /\ UNCHANGED <<up, joined, list, rows, popup, rooms, open, timeouts, greeted>>

StartServer(s) ==
  /\ s \notin running /\ running' = running \cup {s}
  /\ UNCHANGED <<member, late, up, joined, list, rows, gui, popup, rooms, open, timeouts,
                 greeted>>

StopServer(s) ==
  /\ s \in running /\ running' = running \ {s}
  /\ UNCHANGED <<member, late, up, joined, list, rows, gui, popup, rooms, open, timeouts,
                 greeted>>

\* The host's settings window makes us an admin, or a member again.
ChangeType(a) ==
  /\ member[a] # NoUser
  /\ member' = [member EXCEPT ![a].admin = ~@]
  /\ UNCHANGED <<running, late, up, joined, list, rows, gui, popup, rooms, open, timeouts,
                 greeted>>

-----------------------------------------------------------------------------
(* RefreshServerInfo and DrawServers *)

DrawServers == rows' = list'

\* Lines 59-65.
RefreshBegin ==
  /\ up /\ gui = Idle
  /\ list' = <<>> /\ greeted' = {}
  /\ gui' = [Idle EXCEPT !.pc = "refresh", !.at = 1]
  /\ UNCHANGED <<hosts, up, joined, rows, popup, rooms, open, timeouts>>

\* Mutant: the server is left out when it does not answer.
Skip(status, admin) ==
  /\ gui' = [gui EXCEPT !.at = @ + 1]
  /\ list' = IF status = "OFFLINE" THEN list
             ELSE Append(list, JoinedServer(joined[gui.at], status, admin))
  /\ UNCHANGED <<hosts, up, joined, rows, popup, rooms, greeted>>

\* The row at hand goes into the list.
Push(status, admin) ==
  /\ gui' = [gui EXCEPT !.at = @ + 1]
  /\ list' = Append(list, JoinedServer(joined[gui.at], status, admin))
  /\ UNCHANGED <<hosts, up, joined, rows, popup, rooms, greeted>>

Refreshing == gui.pc = "refresh" /\ gui.at \in DOMAIN joined

\* Mutant: the status that was shown before is kept.
RefreshUnreachableKeepsOnline ==
  /\ Refreshing
  /\ Push(IF gui.at \in DOMAIN rows THEN rows[gui.at].status ELSE "OFFLINE", FALSE)
  /\ UNCHANGED <<open, timeouts>>

\* Lines 69-74: no connection.
RefreshUnreachable ==
  /\ Refreshing /\ Push("OFFLINE", FALSE)
  /\ UNCHANGED <<open, timeouts>>

\* Lines 76-95: the request is lost or late, or the host has no such user and
\* leaves it unanswered.  The connection is not cleaned up.
RefreshTimeout ==
  /\ Refreshing /\ joined[gui.at] \in running
  /\ timeouts < MaxTimeouts
  /\ Push("OFFLINE", FALSE)
  /\ open' = open + 1 /\ timeouts' = timeouts + 1

\* Lines 97-108: the host has found the user of our address on this server.
RefreshAnswered ==
  /\ Refreshing /\ joined[gui.at] \in running
  /\ IsMember(joined[gui.at])
  /\ Push("ONLINE", member[joined[gui.at][1]].admin)
  /\ UNCHANGED <<open, timeouts>>

\* The timer's handler, line 53, and OnInit draw what was loaded.
RefreshEnd ==
  /\ gui.pc = "refresh" /\ gui.at = Len(joined) + 1
  /\ list' = list /\ DrawServers
  /\ gui' = Idle
  /\ UNCHANGED <<hosts, up, joined, popup, rooms, open, timeouts, greeted>>

-----------------------------------------------------------------------------
(* The Add Server dialog *)

OpenAddServerPopupMenu ==
  /\ up /\ gui = Idle /\ ~popup
  /\ popup' = TRUE
  /\ UNCHANGED <<hosts, up, joined, list, rows, gui, rooms, open, timeouts, greeted>>

\* Cancel, or a server that cannot be reached: AddServer does not look at
\* NO_RESPONSE and the dialog ends as after a success.
ClosePopup ==
  /\ gui = Idle /\ popup
  /\ popup' = FALSE
  /\ UNCHANGED <<hosts, up, joined, list, rows, gui, rooms, open, timeouts, greeted>>

\* Lines 106-124: connected, the request is on its way.
JoinRequest(s) ==
  /\ gui = Idle /\ popup /\ s \in running
  /\ Len(list) < MaxJoined
  /\ gui' = [Idle EXCEPT !.pc = "join", !.server = s, !.answer = "pending"]
  /\ open' = open + 1
  /\ UNCHANGED <<hosts, up, joined, list, rows, popup, rooms, timeouts, greeted>>

\* Mutant: the server is stored before the answer is looked at.
JoinTimeoutInserts ==
  /\ gui.pc = "join" /\ gui.answer \in {"pending", "none"}
  /\ gui' = Idle /\ popup' = FALSE /\ open' = open - 1
  /\ late' = IF gui.answer = "pending" THEN late \cup {gui.server} ELSE late
  /\ joined' = Append(joined, gui.server)
  /\ list' = Append(list, JoinedServer(gui.server, "ONLINE", FALSE)) /\ DrawServers
  /\ UNCHANGED <<running, member, up, rooms, timeouts, greeted>>

\* Mutant: the connection is left open as in the refresh.
JoinTimeoutLeaks ==
  /\ gui.pc = "join" /\ gui.answer \in {"pending", "none"}
  /\ gui' = Idle /\ popup' = FALSE
  /\ late' = IF gui.answer = "pending" THEN late \cup {gui.server} ELSE late
  /\ UNCHANGED <<running, member, up, joined, list, rows, rooms, open, timeouts, greeted>>

\* Lines 128-131.  The host may still get the request.
JoinTimeout ==
  /\ gui.pc = "join" /\ gui.answer \in {"pending", "none"}
  /\ gui' = Idle /\ popup' = FALSE /\ open' = open - 1
  /\ late' = IF gui.answer = "pending" THEN late \cup {gui.server} ELSE late
  /\ UNCHANGED <<running, member, up, joined, list, rows, rooms, timeouts, greeted>>

\* Lines 148-154.
JoinFailed ==
  /\ gui.pc = "join" /\ gui.answer = "FAIL"
  /\ gui' = Idle /\ popup' = FALSE /\ open' = open - 1
  /\ UNCHANGED <<hosts, up, joined, list, rows, rooms, timeouts, greeted>>

\* Mutant: the rows are not drawn again.
JoinSucceededUndrawn ==
  /\ gui.pc = "join" /\ gui.answer = "SUCCESS"
  /\ joined' \in {joined, Append(joined, gui.server)}
  /\ list' = Append(list, JoinedServer(gui.server, "ONLINE", FALSE))
  /\ greeted' = greeted \cup {gui.server}
  /\ gui' = Idle /\ popup' = FALSE /\ open' = open - 1
  /\ UNCHANGED <<hosts, up, rows, rooms, timeouts>>

\* Lines 142-154.  Nobody looks whether InsertJoinedServer failed, nor whether the
\* table has the server already.
JoinSucceeded ==
  /\ gui.pc = "join" /\ gui.answer = "SUCCESS"
  /\ joined' \in {joined, Append(joined, gui.server)}
  /\ list' = Append(list, JoinedServer(gui.server, "ONLINE", FALSE)) /\ DrawServers
  /\ greeted' = greeted \cup {gui.server}
  /\ gui' = Idle /\ popup' = FALSE /\ open' = open - 1
  /\ UNCHANGED <<hosts, up, rooms, timeouts>>

-----------------------------------------------------------------------------
(* The buttons of a row, and the process *)

\* Lines 134-152: the status is read from the element, not from the row.
EnterServer(r) ==
  /\ up /\ gui = Idle /\ ~popup
  /\ list[r].status = "ONLINE"
  /\ rooms' = rooms \cup {list[r].server}
  /\ UNCHANGED <<hosts, up, joined, list, rows, gui, popup, open, timeouts, greeted>>

\* A room's window is closed.
LeaveServer(s) ==
  /\ gui = Idle /\ s \in rooms /\ rooms' = rooms \ {s}
  /\ UNCHANGED <<hosts, up, joined, list, rows, gui, popup, open, timeouts, greeted>>

\* Also the exit() calls of get_public_ip and get_private_ip.
Crash ==
  /\ up /\ up' = FALSE
  /\ list' = <<>> /\ rows' = <<>> /\ gui' = Idle /\ popup' = FALSE /\ rooms' = {}
  /\ open' = 0 /\ timeouts' = 0 /\ greeted' = {}
  /\ late' = IF gui.answer = "pending" THEN late \cup {gui.server} ELSE late
  /\ UNCHANGED <<running, member, joined>>

\* ServersPanel's constructor refreshes, OnInit draws.
Launch ==
  /\ ~up /\ up' = TRUE
  /\ gui' = [Idle EXCEPT !.pc = "refresh", !.at = 1]
  /\ UNCHANGED <<hosts, joined, list, rows, popup, rooms, open, timeouts, greeted>>

-----------------------------------------------------------------------------
Init ==
  /\ running = {} /\ member = [a \in Addresses |-> NoUser] /\ late = {}
  /\ up = FALSE /\ joined = <<>> /\ list = <<>> /\ rows = <<>>
  /\ gui = Idle /\ popup = FALSE /\ rooms = {} /\ open = 0 /\ timeouts = 0
  /\ greeted = {}

RefreshStep == RefreshUnreachable \/ RefreshTimeout \/ RefreshAnswered \/ RefreshEnd
JoinStep == JoinTimeout \/ JoinFailed \/ JoinSucceeded

Next ==
  \/ \E s \in Servers :
       StartServer(s) \/ StopServer(s) \/ HandleJoinServer(s) \/ JoinRequest(s)
       \/ LeaveServer(s)
  \/ \E a \in Addresses : ChangeType(a)
  \/ RefreshBegin \/ RefreshStep
  \/ OpenAddServerPopupMenu \/ ClosePopup \/ JoinStep
  \/ \E r \in DOMAIN list : EnterServer(r)
  \/ Crash \/ Launch

Spec == Init /\ [][Next]_vars

\* The main thread does not wait longer than its timeouts, and the event loop gets
\* to the timer's event between two clicks.
Fairness == WF_vars(RefreshStep) /\ WF_vars(JoinStep) /\ SF_vars(RefreshBegin)

FairSpec == Spec /\ Fairness

-----------------------------------------------------------------------------
(* Properties *)

Entry == [server : Servers, status : {"OFFLINE", "ONLINE"}, admin : BOOLEAN]

\* The type of every variable.
TypeOK ==
  /\ running \subseteq Servers /\ late \subseteq Servers
  /\ member \in [Addresses -> {NoUser} \cup [server : Servers, admin : BOOLEAN]]
  /\ up \in BOOLEAN /\ popup \in BOOLEAN /\ rooms \subseteq Servers
  /\ joined \in Seq(Servers)
  /\ list \in Seq(Entry) /\ rows \in Seq(Entry)
  /\ gui \in [pc : {"idle", "refresh", "join"}, at : Nat, server : Servers \cup {NoUser},
              answer : {"none", "pending", "FAIL", "SUCCESS"}]
  /\ open \in Nat /\ timeouts \in Nat /\ greeted \subseteq Servers

\* Between two events each row shows the element that its buttons refer to: the
\* vector is cleared and filled again under the rows, and the dialog adds to it.
RowsMatchList == gui = Idle => rows = list

\* Whatever timed out, failed or was cleared, every server of the table is in the
\* list, in the order of the table; more is listed only after a failed insert.
JoinedAreListed ==
  up /\ gui = Idle =>
    \E place \in [DOMAIN joined -> DOMAIN list] :
      /\ \A i, j \in DOMAIN joined : i < j => place[i] < place[j]
      /\ \A i \in DOMAIN joined : list[place[i]].server = joined[i]

\* The client's table may name servers that do not have it as a user: the host's insert
\* can fail before SUCCESS is sent (hosted_server.cpp:208-241), and a host registers an
\* address for one of its servers only.  Such a server is listed green at most from the
\* join to the next refresh, and never with the admin's menu.
OnlineIsMember ==
  \A i \in DOMAIN list : list[i].status = "ONLINE" =>
    IsMember(list[i].server) \/ (list[i].server \in greeted /\ ~list[i].admin)

\* Of the connections that refreshes and joins open, those of unanswered refreshes
\* stay open, one more each time (88-95), and no others.
OnlyRefreshLeaks == gui = Idle => open = timeouts

\* A server that has stopped for good is shown red for good, although rows are
\* drawn from answers that came before it stopped.
StoppedIsShown ==
  \A s \in Servers :
    <>[](up /\ s \notin running) =>
      <>[](\A i \in DOMAIN rows : rows[i].server = s => rows[i].status = "OFFLINE")
=============================================================================
