--------------------------- MODULE ServerSettings ---------------------------
(***************************************************************************)
(* The settings windows of the hosted servers                              *)
(* (frames/server_settings_frame) and the prepared statement they share    *)
(* with the SwiftNet callback thread.                                      *)
(*                                                                         *)
(* Database prepares each statement once.  Both the main thread, when a    *)
(* window lists its users, and the callback thread, when it answers        *)
(* LOAD_JOINED_SERVER_DATA, bind, step, read and reset the one statement   *)
(* select_hosted_server_users.  A step of the model is one sqlite3 call    *)
(* (the reads of one row's columns are one step).  sqlite3 serialises the  *)
(* calls; it rejects a bind of a statement that is not reset, and the code *)
(* does not look at the result of a bind.                                  *)
(*                                                                         *)
(* Rows are not added here: JOIN_SERVER ends the process (HostedServer).   *)
(***************************************************************************)
EXTENDS Integers, Sequences, FiniteSets

CONSTANTS
  Servers,      \* ids of hosted servers
  Names,        \* usernames, which need not be unique
  Windows,      \* settings windows; each is opened once and destroyed when closed
  InitialUsers, \* hosted_server_users at the start
  MaxUpdates,   \* bound on the presses of Give Admin and Remove Admin
  MaxRequests   \* bound on the LOAD_JOINED_SERVER_DATA requests

Types == {"Member", "Admin"}
UserRow == [server_id : Servers, username : Names, user_type : Types]

ASSUME SettingsAssumption ==
  /\ InitialUsers \in Seq(UserRow)
  /\ MaxUpdates \in Nat /\ MaxRequests \in Nat

VARIABLES
  up,       \* the process is running
  users,    \* table hosted_server_users; a row's place stands for its address too
  stmt,     \* select_hosted_server_users: its state, its row and its bindings
  gui, cb,  \* the two threads' calls of SelectHostedServerUsers
  window,   \* the windows opened so far: state, server and the lists drawn
  menus,    \* the static array of ServerSettingsFrame::SelectedMenuChange
  updates, requests  \* counters for the bounds

vars == <<up, users, stmt, gui, cb, window, menus, updates, requests>>

-----------------------------------------------------------------------------
(* Statements.  An optional argument is {} for std::nullopt, bound as NULL. *)

Matches(arg, value) == arg = {} \/ value \in arg

\* select_hosted_server_users; username is NULL in every call.
Selected(args) ==
  {r \in DOMAIN users : /\ Matches(args.server_id, users[r].server_id)
                        /\ Matches(args.user_type, users[r].user_type)
                        /\ Matches(args.ip_address, r)}

NoArgs == [server_id |-> {}, user_type |-> {}, ip_address |-> {}]

\* update_hosted_server_users with server_id and username given: its WHERE is
\* (id AND ip_address AND server_id) OR username OR user_type, and the NULL of
\* user_type makes the last condition true.
Updated(server_id, username) ==
  {r \in DOMAIN users : \/ users[r].server_id = server_id
                        \/ Matches({username}, users[r].username)
                        \/ Matches({}, users[r].user_type)}

UpdateHostedServerUsers(new_user_type, server_id, username) ==
  users' = [r \in DOMAIN users |->
              IF r \in Updated(server_id, username)
              THEN [users[r] EXCEPT !.user_type = new_user_type] ELSE users[r]]

\* sqlite3_bind: SQLITE_MISUSE unless the statement is reset.
Bind(field, value) ==
  stmt' = IF stmt.state = "ready" THEN [stmt EXCEPT !.args[field] = value] ELSE stmt

\* sqlite3_step: to the next row in the order of the ids; a statement that has
\* halted starts again.
Step ==
  LET rows == {r \in Selected(stmt.args) : r > stmt.at}
  IN  stmt' = IF rows = {} THEN [stmt EXCEPT !.state = "halt", !.at = 0]
              ELSE [stmt EXCEPT !.state = "row",
                      !.at = CHOOSE r \in rows : \A s \in rows : r <= s]

\* Mutant: the statement is not reset.
NoReset == UNCHANGED stmt

\* sqlite3_reset keeps the bindings.
Reset == stmt' = [stmt EXCEPT !.state = "ready", !.at = 0]

-----------------------------------------------------------------------------
(* SelectHostedServerUsers in thread t, which becomes t2 *)

Idle == [pc |-> "idle", args |-> NoArgs, result |-> <<>>, job |-> <<>>, alone |-> TRUE]

\* alone (history): no call of the other thread overlapped this one.
Call(args, job, other) ==
  [Idle EXCEPT !.pc = "server_id", !.args = args, !.job = job, !.alone = other = Idle]

Overlapped(t) == [t EXCEPT !.alone = t = Idle]

\* Lines 242-245.
BindArg(t, t2) ==
  /\ t.pc \in {"server_id", "user_type", "ip_address"}
  /\ Bind(t.pc, t.args[t.pc])
  /\ t2 = [t EXCEPT !.pc = CASE t.pc = "server_id" -> "user_type"
                             [] t.pc = "user_type" -> "ip_address"
                             [] OTHER -> "step"]

\* Line 249: on with the row, or out of the loop.
StepRow(t, t2) ==
  /\ t.pc = "step" /\ Step
  /\ t2 = [t EXCEPT !.pc = IF stmt'.state = "row" THEN "read" ELSE "reset"]

\* Mutant: the columns are taken whether the statement has a row or not.
ReadNoRow(t, t2) ==
  /\ t.pc = "read"
  /\ t2 = [t EXCEPT !.pc = "step", !.result = Append(@, stmt.at)]
  /\ UNCHANGED stmt

\* Lines 250-260: the columns of the row the statement stands on now.
ReadRow(t, t2) ==
  /\ t.pc = "read" /\ stmt.state = "row"
  /\ t2 = [t EXCEPT !.pc = "step", !.result = Append(@, stmt.at)]
  /\ UNCHANGED stmt

\* Line 263.
ResetStmt(t, t2) ==
  /\ t.pc = "reset" /\ Reset
  /\ t2 = [t EXCEPT !.pc = "return"]

SelectStep(t, t2) ==
  BindArg(t, t2) \/ StepRow(t, t2) \/ ReadRow(t, t2) \/ ResetStmt(t, t2)

\* Lines 256-258 when the other thread took the statement off its row:
\* sqlite3_column_text returns nullptr and strlen ends the process.
ReadNullColumn(t) ==
  /\ up /\ t.pc = "read" /\ stmt.state # "row"
  /\ up' = FALSE
  /\ UNCHANGED <<users, stmt, gui, cb, window, menus, updates, requests>>

-----------------------------------------------------------------------------
(* The main thread *)

\* RenderMemberList and RenderAdminList of window w select by user type.
ListCall(w, server_id, type) ==
  Call([NoArgs EXCEPT !.server_id = {server_id}, !.user_type = {type}], <<w, type>>, cb)

NewWindow(s) ==
  [open |-> TRUE, server_id |-> s, shown |-> FALSE, members |-> <<>>, admins |-> <<>>]

\* The constructor of ServerSettingsFrame, up to the first SELECT.
OpenWindow(w, s) ==
  /\ up /\ gui = Idle /\ w \notin DOMAIN window
  /\ window' = [x \in DOMAIN window \cup {w} |->
                  IF x = w THEN NewWindow(s) ELSE window[x]]
  /\ gui' = ListCall(w, s, "Member")
  /\ cb' = Overlapped(cb)
  /\ UNCHANGED <<up, users, stmt, menus, updates, requests>>

\* The member list is drawn, the admin list is selected.
RenderMemberList ==
  /\ up /\ gui.pc = "return" /\ gui.job[2] = "Member"
  /\ LET w == gui.job[1]
     IN  /\ window' = [window EXCEPT ![w].members = gui.result]
         /\ gui' = ListCall(w, window[w].server_id, "Admin")
  /\ cb' = Overlapped(cb)
  /\ UNCHANGED <<up, users, stmt, menus, updates, requests>>

\* SelectedMenuChange: the static array was filled by the first window of the
\* process; that window's panel is shown, and if it was destroyed the process
\* ends.
SelectedMenuChange(w, drawn) ==
  LET first == IF menus = {} THEN {w} ELSE menus
  IN  /\ menus' = first
      /\ up' = \A x \in first : drawn[x].open
      /\ window' = [x \in DOMAIN drawn |->
                      IF x \in first THEN [drawn[x] EXCEPT !.shown = TRUE] ELSE drawn[x]]

\* The admin list is drawn; a new window goes on to show its menu.
RenderAdminList ==
  /\ up /\ gui.pc = "return" /\ gui.job[2] = "Admin"
  /\ LET w == gui.job[1]
         drawn == [window EXCEPT ![w].admins = gui.result]
     IN  IF window[w].shown THEN window' = drawn /\ UNCHANGED <<up, menus>>
         ELSE SelectedMenuChange(w, drawn)
  /\ gui' = Idle
  /\ UNCHANGED <<users, stmt, cb, updates, requests>>

\* MakeUserAdmin, RemoveUserAdmin: the buttons of a list on show.
PressButton(w, type, list) ==
  /\ up /\ gui = Idle /\ updates < MaxUpdates
  /\ window[w].open /\ window[w].shown
  /\ \E i \in DOMAIN list :
       UpdateHostedServerUsers(type, window[w].server_id, users[list[i]].username)
  /\ gui' = ListCall(w, window[w].server_id, "Member")
  /\ cb' = Overlapped(cb)
  /\ updates' = updates + 1
  /\ UNCHANGED <<up, stmt, window, menus, requests>>

MakeUserAdmin(w) == PressButton(w, "Admin", window[w].members)
RemoveUserAdmin(w) == PressButton(w, "Member", window[w].admins)

CloseWindow(w) ==
  /\ up /\ gui = Idle /\ window[w].open
  /\ window' = [window EXCEPT ![w] = [NewWindow(@.server_id) EXCEPT !.open = FALSE]]
  /\ UNCHANGED <<up, users, stmt, gui, cb, menus, updates, requests>>

GuiSelect ==
  /\ up /\ SelectStep(gui, gui')
  /\ UNCHANGED <<up, users, cb, window, menus, updates, requests>>

-----------------------------------------------------------------------------
(* The callback thread: HandleLoadJoinedServerDataRequest *)

\* The sender of a request is the host of a row of any server, or unknown (0).
LoadJoinedServerData(s, sender) ==
  /\ up /\ cb = Idle /\ requests < MaxRequests
  /\ cb' = Call([NoArgs EXCEPT !.server_id = {s}, !.ip_address = {sender}], <<>>, gui)
  /\ gui' = Overlapped(gui)
  /\ requests' = requests + 1
  /\ UNCHANGED <<up, users, stmt, window, menus, updates>>

CbSelect ==
  /\ up /\ SelectStep(cb, cb')
  /\ UNCHANGED <<up, users, gui, window, menus, updates, requests>>

\* The response, read from cb.result by whoever composes this with a client.
CbReturn ==
  /\ up /\ cb.pc = "return"
  /\ cb' = Idle
  /\ UNCHANGED <<up, users, stmt, gui, window, menus, updates, requests>>

-----------------------------------------------------------------------------
Init ==
  /\ up = TRUE
  /\ users = InitialUsers
  /\ stmt = [state |-> "ready", at |-> 0, args |-> NoArgs]
  /\ gui = Idle /\ cb = Idle
  /\ window = [w \in {} |-> {}]
  /\ menus = {}
  /\ updates = 0 /\ requests = 0

GuiStep == GuiSelect \/ ReadNullColumn(gui) \/ RenderMemberList \/ RenderAdminList
CbStep == CbSelect \/ ReadNullColumn(cb) \/ CbReturn

Next ==
  \/ GuiStep \/ CbStep
  \/ \E w \in Windows, s \in Servers : OpenWindow(w, s)
  \/ \E w \in DOMAIN window : MakeUserAdmin(w) \/ RemoveUserAdmin(w) \/ CloseWindow(w)
  \/ \E s \in Servers, sender \in DOMAIN users \cup {0} : LoadJoinedServerData(s, sender)

Spec == Init /\ [][Next]_vars

-----------------------------------------------------------------------------
(* Properties *)

Args == [server_id : SUBSET Servers, user_type : SUBSET Types,
         ip_address : SUBSET (DOMAIN users \cup {0})]
Thread == [pc : {"idle", "server_id", "user_type", "ip_address", "step", "read", "reset",
                 "return"},
           args : Args, result : Seq(DOMAIN users),
           job : {<<>>} \cup ((DOMAIN window) \X Types), alone : BOOLEAN]

\* The type of every variable; the statement stands on a row only while it has one.
TypeOK ==
  /\ up \in BOOLEAN
  /\ users \in Seq(UserRow) /\ Len(users) = Len(InitialUsers)
  /\ stmt \in [state : {"ready", "row", "halt"}, at : DOMAIN users \cup {0}, args : Args]
  /\ stmt.state = "row" <=> stmt.at # 0
  /\ gui \in Thread /\ cb \in Thread
  /\ DOMAIN window \subseteq Windows
  /\ window \in [DOMAIN window ->
       [open : BOOLEAN, server_id : Servers, shown : BOOLEAN,
        members : Seq(DOMAIN users), admins : Seq(DOMAIN users)]]
  /\ menus \subseteq DOMAIN window
  /\ updates \in 0..MaxUpdates /\ requests \in 0..MaxRequests

\* The rows a call asks for, in the order of their ids.
IsSelection(result, args) ==
  /\ {result[i] : i \in DOMAIN result} = Selected(args)
  /\ \A i, j \in DOMAIN result : i < j => result[i] < result[j]

\* A call that no call of the other thread overlapped returns exactly its rows,
\* whatever bindings, position and state earlier calls of both threads left in
\* the statement (database.cpp:240-265 binds all arguments and resets at the end).
ExactWhenAlone ==
  \A t \in {gui, cb} : t.pc = "return" /\ t.alone => IsSelection(t.result, t.args)

\* "Admins" (admin_list_panel.cpp:30) is the heading over the users of the server
\* that are admins: no other user is drawn there.
AdminsAreAdmins ==
  [][\A w \in DOMAIN window :
       window'[w].admins # window[w].admins =>
         \A i \in DOMAIN window'[w].admins :
           users[window'[w].admins[i]].user_type = "Admin"]_vars

\* "Give Admin" (admin_list_panel.cpp:101), a button beside one username, makes
\* admins of users of that name on that server.
OneUserChanges ==
  [][\A w \in DOMAIN window : MakeUserAdmin(w) =>
       \E name \in Names : \A r \in DOMAIN users :
         users'[r] # users[r] =>
           users[r].username = name /\ users[r].server_id = window[w].server_id]_vars
=============================================================================
