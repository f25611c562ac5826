------------------------- MODULE ServersPanelProofs -------------------------
(***************************************************************************)
(* Proofs about ServersPanel, for any servers, any number of joined        *)
(* servers and any number of unanswered requests: what is drawn, what is   *)
(* listed, which servers are shown green and which connections stay open.  *)
(* Panel is the inductive invariant.                                       *)
(***************************************************************************)
EXTENDS ServersPanel, TLAPS

\* A join names a server; otherwise no answer is being waited for.
RequestOK ==
  /\ gui.pc = "join" => gui.server \in Servers
  /\ gui.pc # "join" => gui.answer = "none"

\* The rows differ from the vector only while a refresh fills it.
Drawn == gui.pc # "refresh" => rows = list

\* The connection of a join is cleaned up when the join ends.
Connections == open = timeouts + (IF gui.pc = "join" THEN 1 ELSE 0)

\* The servers of joined are at these places of the list.
Place == {place \in [DOMAIN joined -> DOMAIN list] :
            /\ \A i, j \in DOMAIN joined : i < j => place[i] < place[j]
            /\ \A i \in DOMAIN joined : list[place[i]].server = joined[i]}

\* A refresh has listed the first servers of the table; before and after it, each
\* has its place.
Listing ==
  /\ ~up => list = <<>> /\ gui = Idle /\ ~popup
  /\ gui.pc = "refresh" =>
       /\ gui.at \in 1..(Len(joined) + 1) /\ Len(list) = gui.at - 1
       /\ \A i \in DOMAIN list : list[i].server = joined[i]
  /\ up /\ gui.pc # "refresh" => Place # {}

\* The inductive invariant.
Panel ==
  TypeOK /\ RequestOK /\ Drawn /\ Connections /\ Listing /\ OnlineIsMember

-----------------------------------------------------------------------------
(* The pieces *)

\* A user's record is not the absent one.
LEMMA UserIsUser ==
  ASSUME NEW u, NEW b PROVE [server |-> u, admin |-> b] # NoUser
  <1>1. "server" \in DOMAIN [server |-> u, admin |-> b]
    OBVIOUS
  <1>2. DOMAIN NoUser = {}
    BY DEF NoUser
  <1> QED BY <1>1, <1>2

\* A host that registers us has us as a user, and forgets no user.
LEMMA RegisteredType ==
  ASSUME TypeOK, NEW s \in Servers
  PROVE  /\ Registered(s) \in [Addresses -> {NoUser} \cup [server : Servers, admin : BOOLEAN]]
         /\ \A a \in Addresses : member[a] # NoUser => Registered(s)[a] = member[a]
  <1>1. s[1] \in Addresses
    BY DEF Addresses
  <1>2. [server |-> s, admin |-> FALSE] \in [server : Servers, admin : BOOLEAN]
    OBVIOUS
  <1>3. member \in [Addresses -> {NoUser} \cup [server : Servers, admin : BOOLEAN]]
    BY DEF TypeOK
  <1> QED BY <1>1, <1>2, <1>3 DEF Registered

\* A server added at the end of a list is its last element.
LEMMA AppendEntry ==
  ASSUME NEW s \in Servers, NEW status \in {"OFFLINE", "ONLINE"}, NEW admin \in BOOLEAN,
         TypeOK
  PROVE  LET new == Append(list, JoinedServer(s, status, admin))
         IN  /\ new \in Seq(Entry) /\ Len(new) = Len(list) + 1
             /\ DOMAIN new = 1..(Len(list) + 1) /\ DOMAIN list = 1..Len(list)
             /\ Len(list) \in Nat
             /\ \A i \in DOMAIN list : new[i] = list[i]
             /\ new[Len(list) + 1] = JoinedServer(s, status, admin)
             /\ new[Len(list) + 1].server = s
  <1>1. JoinedServer(s, status, admin) \in Entry /\ JoinedServer(s, status, admin).server = s
    BY DEF JoinedServer, Entry
  <1>2. list \in Seq(Entry)
    BY DEF TypeOK
  <1> HIDE DEF JoinedServer
  <1> QED BY <1>1, <1>2

-----------------------------------------------------------------------------
(* The type invariant *)

\* Idle is a state of the main thread.
LEMMA IdleType ==
  Idle \in [pc : {"idle", "refresh", "join"}, at : Nat, server : Servers \cup {NoUser},
            answer : {"none", "pending", "FAIL", "SUCCESS"}]
  BY DEF Idle

\* The hosts' steps keep the type.
LEMMA TypeHosts ==
  ASSUME TypeOK, RequestOK,
         \/ \E s \in Servers : StartServer(s) \/ StopServer(s) \/ HandleJoinServer(s)
         \/ \E a \in Addresses : ChangeType(a)
  PROVE  TypeOK'
  <1>1. ASSUME NEW s \in Servers, StartServer(s) \/ StopServer(s) PROVE TypeOK'
    BY <1>1 DEF StartServer, StopServer, TypeOK
  <1>2. ASSUME NEW s \in Servers, HandleJoinServer(s) PROVE TypeOK'
    <2>1. member' \in [Addresses -> {NoUser} \cup [server : Servers, admin : BOOLEAN]]
      BY <1>2, RegisteredType DEF HandleJoinServer, TypeOK
    <2>2. running' \subseteq Servers /\ late' \subseteq Servers
      BY <1>2 DEF HandleJoinServer, TypeOK
    <2>3. gui' \in [pc : {"idle", "refresh", "join"}, at : Nat,
                    server : Servers \cup {NoUser},
                    answer : {"none", "pending", "FAIL", "SUCCESS"}]
      BY <1>2 DEF HandleJoinServer, TypeOK
    <2> QED BY <1>2, <2>1, <2>2, <2>3 DEF HandleJoinServer, TypeOK
  <1>3. ASSUME NEW a \in Addresses, ChangeType(a) PROVE TypeOK'
    <2>1. member[a] \in [server : Servers, admin : BOOLEAN]
      BY <1>3 DEF ChangeType, TypeOK
    <2>2. [member[a] EXCEPT !.admin = ~@] \in [server : Servers, admin : BOOLEAN]
      BY <2>1
    <2>3. member' = [member EXCEPT ![a] = [member[a] EXCEPT !.admin = ~@]]
      BY <1>3 DEF ChangeType
    <2>4. member' \in [Addresses -> {NoUser} \cup [server : Servers, admin : BOOLEAN]]
      BY <2>2, <2>3 DEF TypeOK
    <2> QED BY <1>3, <2>4 DEF ChangeType, TypeOK
  <1> QED BY <1>1, <1>2, <1>3

\* So do the refresh, the dialog and the buttons.
LEMMA TypeClient ==
  ASSUME TypeOK, RequestOK, Connections,
         \/ \E s \in Servers : JoinRequest(s) \/ LeaveServer(s)
         \/ RefreshBegin \/ RefreshStep
         \/ OpenAddServerPopupMenu \/ ClosePopup \/ JoinStep
         \/ \E r \in DOMAIN list : EnterServer(r)
         \/ Crash \/ Launch
  PROVE  TypeOK'
  <1> DEFINE Gui == [pc : {"idle", "refresh", "join"}, at : Nat,
                     server : Servers \cup {NoUser},
                     answer : {"none", "pending", "FAIL", "SUCCESS"}]
  <1>0. /\ gui \in Gui /\ list \in Seq(Entry) /\ rows \in Seq(Entry) /\ Idle \in Gui
        /\ open \in Nat /\ timeouts \in Nat
    BY IdleType DEF TypeOK
  <1>1. ASSUME NEW s \in Servers, JoinRequest(s) PROVE TypeOK'
    <2>1. gui' \in Gui
      BY <1>0, <1>1 DEF JoinRequest
    <2>2. open' = open + 1
      BY <1>1 DEF JoinRequest
    <2>3. open' \in Nat
      BY <1>0, <2>2
    <2> QED BY <1>1, <2>1, <2>2, <2>3 DEF JoinRequest, TypeOK, hosts
  <1>2. ASSUME NEW s \in Servers, LeaveServer(s) PROVE TypeOK'
    BY <1>2 DEF LeaveServer, TypeOK, hosts
  <1>3. ASSUME RefreshBegin PROVE TypeOK'
    <2>1. gui' \in Gui
      BY <1>0, <1>3 DEF RefreshBegin
    <2> QED BY <1>3, <2>1 DEF RefreshBegin, TypeOK, hosts
  <1>4. ASSUME NEW status \in {"OFFLINE", "ONLINE"}, NEW admin \in BOOLEAN,
               Refreshing, Push(status, admin), open' \in Nat, timeouts' \in Nat
        PROVE  TypeOK'
    <2>1. gui' \in Gui
      <3>1. gui' = [gui EXCEPT !.at = @ + 1]
        BY <1>4 DEF Push
      <3>2. gui.at + 1 \in Nat
        BY <1>0
      <3> QED BY <1>0, <3>1, <3>2
    <2>2. joined[gui.at] \in Servers
      BY <1>4 DEF Refreshing, TypeOK
    <2>3. list' \in Seq(Entry)
      BY <1>4, <2>2, AppendEntry DEF Push
    <2> QED BY <1>4, <2>1, <2>3 DEF Push, TypeOK, hosts
  <1>5. ASSUME RefreshUnreachable \/ RefreshTimeout PROVE TypeOK'
    <2>1. open' \in Nat /\ timeouts' \in Nat
      <3>1. open' \in {open, open + 1} /\ timeouts' \in {timeouts, timeouts + 1}
        BY <1>5 DEF RefreshUnreachable, RefreshTimeout
      <3> QED BY <1>0, <3>1
    <2> QED BY <1>4, <1>5, <2>1 DEF RefreshUnreachable, RefreshTimeout
  <1>6. ASSUME RefreshAnswered PROVE TypeOK'
    <2>1. joined[gui.at] \in Servers
      BY <1>6 DEF RefreshAnswered, Refreshing, TypeOK
    <2>2. joined[gui.at][1] \in Addresses
      BY <2>1 DEF Addresses
    <2>3. member[joined[gui.at][1]].admin \in BOOLEAN
      BY <1>6, <2>2 DEF RefreshAnswered, IsMember, TypeOK
    <2> QED BY <1>4, <1>6, <2>3 DEF RefreshAnswered, TypeOK
  <1>7. ASSUME RefreshEnd PROVE TypeOK'
    BY <1>0, <1>7 DEF RefreshEnd, DrawServers, TypeOK, hosts
  <1>8. ASSUME OpenAddServerPopupMenu \/ ClosePopup PROVE TypeOK'
    BY <1>8 DEF OpenAddServerPopupMenu, ClosePopup, TypeOK, hosts
  <1>9. ASSUME JoinTimeout \/ JoinFailed PROVE TypeOK'
    <2>1. open' \in Nat
      BY <1>9 DEF JoinTimeout, JoinFailed, Connections, TypeOK
    <2>2. late' \subseteq Servers
      BY <1>9 DEF JoinTimeout, JoinFailed, RequestOK, TypeOK, hosts
    <2> QED BY <1>0, <1>9, <2>1, <2>2 DEF JoinTimeout, JoinFailed, TypeOK, hosts
  <1>10. ASSUME JoinSucceeded PROVE TypeOK'
    <2>1. gui.server \in Servers /\ open' \in Nat
      BY <1>10 DEF JoinSucceeded, Connections, RequestOK, TypeOK
    <2>2. list' \in Seq(Entry)
      BY <1>10, <2>1, AppendEntry DEF JoinSucceeded
    <2>3. joined' \in Seq(Servers)
      <3>1. joined \in Seq(Servers)
        BY DEF TypeOK
      <3>2. joined' = joined \/ joined' = Append(joined, gui.server)
        BY <1>10 DEF JoinSucceeded
      <3> QED BY <2>1, <3>1, <3>2
    <2>4. greeted' \subseteq Servers
      BY <1>10, <2>1 DEF JoinSucceeded, TypeOK
    <2> QED BY <1>0, <1>10, <2>1, <2>2, <2>3, <2>4 DEF JoinSucceeded, DrawServers, TypeOK, hosts
  <1>11. ASSUME NEW r \in DOMAIN list, EnterServer(r) PROVE TypeOK'
    <2>1. list[r].server \in Servers
      <3>1. list[r] \in Entry
        BY <1>0, <1>11
      <3> QED BY <3>1 DEF Entry
    <2> QED BY <1>11, <2>1 DEF EnterServer, TypeOK, hosts
  <1>12. ASSUME Crash PROVE TypeOK'
    <2>1. late' \subseteq Servers
      BY <1>12 DEF Crash, RequestOK, TypeOK
    <2>2. list' \in Seq(Entry) /\ rows' \in Seq(Entry) /\ gui' \in Gui
      BY <1>0, <1>12 DEF Crash
    <2> QED BY <1>12, <2>1, <2>2 DEF Crash, TypeOK
  <1>13. ASSUME Launch PROVE TypeOK'
    <2>1. gui' \in Gui
      BY <1>0, <1>13 DEF Launch
    <2> QED BY <1>13, <2>1 DEF Launch, TypeOK, hosts
  <1> QED BY <1>1, <1>2, <1>3, <1>5, <1>6, <1>7, <1>8, <1>9, <1>10, <1>11, <1>12, <1>13
          DEF RefreshStep, JoinStep

\* The two together.
LEMMA TypeStep ==
  ASSUME TypeOK, RequestOK, Connections, [Next]_vars PROVE TypeOK'
  <1>1. CASE UNCHANGED vars
    BY <1>1 DEF TypeOK, vars, hosts
  <1> QED BY <1>1, TypeHosts, TypeClient DEF Next

-----------------------------------------------------------------------------
(* The requests, the rows and the connections *)

\* A member stays a user of its server.
LEMMA MembersStay ==
  ASSUME TypeOK, [Next]_vars
  PROVE  \A s \in Servers : IsMember(s) => IsMember(s)'
  <1>0. \A s \in Servers : s[1] \in Addresses
    BY DEF Addresses
  <1>1. ASSUME NEW t \in Servers, HandleJoinServer(t)
        PROVE  \A a \in Addresses : member[a] # NoUser => member'[a] = member[a]
    BY <1>1, RegisteredType DEF HandleJoinServer
  <1>2. ASSUME NEW b \in Addresses, ChangeType(b)
        PROVE  \A a \in Addresses : member[a] # NoUser =>
                 member'[a] # NoUser /\ member'[a].server = member[a].server
    <2>1. member[b] \in [server : Servers, admin : BOOLEAN]
      BY <1>2 DEF ChangeType, TypeOK
    <2>2. [member[b] EXCEPT !.admin = ~@]
            = [server |-> member[b].server, admin |-> ~member[b].admin]
      BY <2>1
    <2>3. /\ [member[b] EXCEPT !.admin = ~@] # NoUser
          /\ [member[b] EXCEPT !.admin = ~@].server = member[b].server
      BY <2>2, UserIsUser
    <2>4. member' = [member EXCEPT ![b] = [member[b] EXCEPT !.admin = ~@]]
      BY <1>2 DEF ChangeType
    <2>5. member \in [Addresses -> {NoUser} \cup [server : Servers, admin : BOOLEAN]]
      BY DEF TypeOK
    <2> QED BY <2>3, <2>4, <2>5
  <1>3. ASSUME \/ \E s \in Servers :
                    StartServer(s) \/ StopServer(s) \/ JoinRequest(s) \/ LeaveServer(s)
               \/ RefreshBegin \/ OpenAddServerPopupMenu \/ ClosePopup
               \/ JoinTimeout \/ JoinFailed \/ JoinSucceeded
               \/ \E r \in DOMAIN list : EnterServer(r)
               \/ Crash \/ Launch \/ UNCHANGED vars
        PROVE  UNCHANGED member
    BY <1>3 DEF StartServer, StopServer, JoinRequest, LeaveServer, RefreshBegin,
                OpenAddServerPopupMenu, ClosePopup, JoinTimeout, JoinFailed,
                JoinSucceeded, EnterServer, Crash, Launch, vars, hosts
  <1>4. ASSUME RefreshStep PROVE UNCHANGED member
    BY <1>4 DEF RefreshStep, RefreshUnreachable, RefreshTimeout, RefreshAnswered,
                RefreshEnd, Push, hosts
  <1>5. \/ \A a \in Addresses : member[a] # NoUser =>
             member'[a] # NoUser /\ member'[a].server = member[a].server
        \/ UNCHANGED member
    BY <1>1, <1>2, <1>3, <1>4 DEF Next, JoinStep
  <1> QED BY <1>0, <1>5 DEF IsMember

\* The steps that leave the main thread, the list, its rows and the connections alone.
Aside ==
  \/ \E s \in Servers : StartServer(s) \/ StopServer(s) \/ LeaveServer(s)
  \/ \E a \in Addresses : ChangeType(a)
  \/ OpenAddServerPopupMenu \/ ClosePopup
  \/ \E r \in DOMAIN list : EnterServer(r)
  \/ UNCHANGED vars

\* They do leave them alone, and open the dialog in a running process only.
LEMMA AsideLeaves ==
  ASSUME Aside
  PROVE  /\ UNCHANGED <<up, joined, gui, list, rows, open, timeouts, greeted>>
         /\ popup' => popup \/ up
  BY DEF Aside, StartServer, StopServer, LeaveServer, ChangeType,
         OpenAddServerPopupMenu, ClosePopup, EnterServer, vars

\* The host's answer to a join goes to the join, or nowhere.
LEMMA AnswerStep ==
  ASSUME TypeOK, NEW s \in Servers, HandleJoinServer(s)
  PROVE  /\ UNCHANGED <<up, joined, list, rows, open, timeouts, greeted>>
         /\ UNCHANGED gui
            \/ /\ gui.pc = "join" /\ gui'.pc = "join" /\ gui'.at = gui.at
               /\ gui.server = s /\ gui'.server = s
  <1>1. gui \in [pc : {"idle", "refresh", "join"}, at : Nat, server : Servers \cup {NoUser},
                 answer : {"none", "pending", "FAIL", "SUCCESS"}]
    BY DEF TypeOK
  <1>2. UNCHANGED gui
        \/ /\ gui.pc = "join" /\ gui.server = s
           /\ \E answer \in {"FAIL", "SUCCESS", "none"} : gui' = [gui EXCEPT !.answer = answer]
    BY DEF HandleJoinServer
  <1>3. ASSUME NEW answer \in {"FAIL", "SUCCESS", "none"}, gui' = [gui EXCEPT !.answer = answer]
        PROVE  gui'.pc = gui.pc /\ gui'.at = gui.at /\ gui'.server = gui.server
    BY <1>1, <1>3
  <1>4. UNCHANGED <<up, joined, list, rows, open, timeouts, greeted>>
    BY DEF HandleJoinServer
  <1> QED BY <1>2, <1>3, <1>4

\* What a refresh does at the server it is at.
LEMMA RefreshPush ==
  ASSUME TypeOK, RefreshUnreachable \/ RefreshTimeout \/ RefreshAnswered
  PROVE  /\ gui.pc = "refresh" /\ gui'.pc = "refresh"
         /\ gui'.server = gui.server /\ gui'.answer = gui.answer
         /\ gui.at \in DOMAIN joined /\ gui'.at = gui.at + 1
         /\ UNCHANGED <<up, joined, greeted>>
         /\ \/ UNCHANGED <<open, timeouts>>
            \/ open' = open + 1 /\ timeouts' = timeouts + 1
         /\ \E status \in {"OFFLINE", "ONLINE"}, admin \in BOOLEAN :
              /\ list' = Append(list, JoinedServer(joined[gui.at], status, admin))
              /\ status = "ONLINE" => IsMember(joined[gui.at])
  <1>1. gui \in [pc : {"idle", "refresh", "join"}, at : Nat, server : Servers \cup {NoUser},
                 answer : {"none", "pending", "FAIL", "SUCCESS"}]
    BY DEF TypeOK
  <1>2. \E status \in {"OFFLINE", "ONLINE"}, admin \in BOOLEAN :
          Push(status, admin) /\ (status = "ONLINE" => IsMember(joined[gui.at]))
    <2>1. CASE RefreshUnreachable \/ RefreshTimeout
      BY <2>1 DEF RefreshUnreachable, RefreshTimeout
    <2>2. CASE RefreshAnswered
      <3>1. joined[gui.at][1] \in Addresses
        BY <2>2 DEF RefreshAnswered, Refreshing, TypeOK, Addresses
      <3>2. member[joined[gui.at][1]].admin \in BOOLEAN
        BY <2>2, <3>1 DEF RefreshAnswered, IsMember, TypeOK
      <3> QED BY <2>2, <3>2 DEF RefreshAnswered
    <2> QED BY <2>1, <2>2
  <1>3. Refreshing
    BY DEF RefreshUnreachable, RefreshTimeout, RefreshAnswered
  <1>4. gui' = [gui EXCEPT !.at = @ + 1]
    BY <1>2 DEF Push
  <1>5. /\ gui'.pc = gui.pc /\ gui'.server = gui.server /\ gui'.answer = gui.answer
        /\ gui'.at = gui.at + 1
    BY <1>1, <1>4
  <1>6. \/ UNCHANGED <<open, timeouts>>
        \/ open' = open + 1 /\ timeouts' = timeouts + 1
    BY DEF RefreshUnreachable, RefreshTimeout, RefreshAnswered
  <1> QED BY <1>2, <1>3, <1>5, <1>6 DEF Push, Refreshing

\* What a step does with the main thread, the rows and the connections.
LEMMA MainThreadStep ==
  ASSUME TypeOK, RequestOK, Drawn, Connections, Listing, [Next]_vars
  PROVE  RequestOK' /\ Drawn' /\ Connections'
  <1> DEFINE Goal == RequestOK' /\ Drawn' /\ Connections'
  <1>0. open \in Nat /\ timeouts \in Nat
    BY DEF TypeOK
  <1>2. ASSUME UNCHANGED <<gui, list, rows, open, timeouts>> PROVE Goal
    BY <1>2 DEF RequestOK, Drawn, Connections
  <1>3. ASSUME Aside PROVE Goal
    BY <1>2, <1>3, AsideLeaves
  <1>4. ASSUME NEW s \in Servers, HandleJoinServer(s) PROVE Goal
    <2>1. CASE UNCHANGED gui
      BY <1>2, <1>4, <2>1, AnswerStep
    <2>2. CASE ~UNCHANGED gui
      <3>1. /\ UNCHANGED <<list, rows, open, timeouts>>
            /\ gui.pc = "join" /\ gui'.pc = "join" /\ gui'.server = s
        BY <1>4, <2>2, AnswerStep
      <3> QED BY <3>1 DEF RequestOK, Drawn, Connections
    <2> QED BY <2>1, <2>2
  <1>5. ASSUME NEW s \in Servers, JoinRequest(s) PROVE Goal
    <2>1. gui'.pc = "join" /\ gui'.server = s /\ gui'.answer = "pending" /\ gui.pc = "idle"
      BY <1>5 DEF JoinRequest, Idle
    <2>2. open' = open + 1 /\ UNCHANGED <<list, rows, timeouts>>
      BY <1>5 DEF JoinRequest
    <2> QED BY <1>0, <2>1, <2>2 DEF RequestOK, Drawn, Connections
  <1>6. ASSUME RefreshBegin \/ Launch PROVE Goal
    <2>1. gui'.pc = "refresh" /\ gui'.answer = "none" /\ UNCHANGED <<open, timeouts>>
      BY <1>6 DEF RefreshBegin, Launch, Idle
    <2>2. gui.pc = "idle"
      BY <1>6 DEF RefreshBegin, Launch, Listing, Idle
    <2> QED BY <2>1, <2>2 DEF RequestOK, Drawn, Connections
  <1>7. ASSUME RefreshUnreachable \/ RefreshTimeout \/ RefreshAnswered PROVE Goal
    <2>1. /\ gui.pc = "refresh" /\ gui'.pc = "refresh" /\ gui'.answer = gui.answer
          /\ \/ UNCHANGED <<open, timeouts>>
             \/ open' = open + 1 /\ timeouts' = timeouts + 1
      BY <1>7, RefreshPush
    <2> QED BY <1>0, <2>1 DEF RequestOK, Drawn, Connections
  <1>8. ASSUME RefreshEnd PROVE Goal
    <2>1. /\ gui.pc = "refresh" /\ gui'.pc = "idle" /\ gui'.answer = "none"
          /\ rows' = list' /\ UNCHANGED <<open, timeouts>>
      BY <1>8 DEF RefreshEnd, DrawServers, Idle
    <2> QED BY <2>1 DEF RequestOK, Drawn, Connections
  <1>9. ASSUME JoinStep PROVE Goal
    <2>1. /\ gui.pc = "join" /\ gui'.pc = "idle" /\ gui'.answer = "none"
          /\ open' = open - 1 /\ UNCHANGED timeouts
          /\ UNCHANGED <<list, rows>> \/ rows' = list'
      <3>1. CASE JoinTimeout \/ JoinFailed
        BY <3>1 DEF JoinTimeout, JoinFailed, Idle
      <3>2. CASE JoinSucceeded
        BY <3>2 DEF JoinSucceeded, DrawServers, Idle
      <3> QED BY <1>9, <3>1, <3>2 DEF JoinStep
    <2> QED BY <1>0, <2>1 DEF RequestOK, Drawn, Connections
  <1>10. ASSUME Crash PROVE Goal
    <2>1. /\ gui'.pc = "idle" /\ gui'.answer = "none" /\ rows' = list'
          /\ open' = 0 /\ timeouts' = 0
      BY <1>10 DEF Crash, Idle
    <2> QED BY <2>1 DEF RequestOK, Drawn, Connections
  <1> QED BY <1>3, <1>4, <1>5, <1>6, <1>7, <1>8, <1>9, <1>10 DEF Next, Aside, RefreshStep

-----------------------------------------------------------------------------
(* The list *)

\* Places stay places while the table and the list stay.
LEMMA PlaceKept ==
  ASSUME UNCHANGED <<joined, list>> PROVE Place' = Place
  BY DEF Place

\* A server joined is added to the list, and to the table unless the insert failed.
LEMMA JoinedPlaced ==
  ASSUME TypeOK, RequestOK, JoinSucceeded, NEW place \in Place
  PROVE  Place' # {}
  <1>1. gui.server \in Servers
    BY DEF JoinSucceeded, RequestOK
  <1>2. /\ Len(list) \in Nat /\ DOMAIN list = 1..Len(list)
        /\ DOMAIN list' = 1..(Len(list) + 1)
        /\ \A i \in DOMAIN list : list'[i] = list[i]
        /\ list'[Len(list) + 1].server = gui.server
    BY <1>1, AppendEntry DEF JoinSucceeded
  <1>3. joined \in Seq(Servers)
    BY DEF TypeOK
  <1>4. place \in [DOMAIN joined -> DOMAIN list]
    BY DEF Place
  <1>5. CASE joined' = joined
    <2>1. place \in Place'
      BY <1>2, <1>5 DEF Place
    <2> QED BY <2>1
  <1>6. CASE joined' = Append(joined, gui.server)
    <2>1. /\ Len(joined) \in Nat /\ DOMAIN joined = 1..Len(joined)
          /\ DOMAIN joined' = 1..(Len(joined) + 1)
          /\ \A i \in DOMAIN joined : joined'[i] = joined[i]
          /\ joined'[Len(joined) + 1] = gui.server
      BY <1>1, <1>3, <1>6
    <2>2. PICK new : new = [i \in DOMAIN joined' |-> IF i \in DOMAIN joined THEN place[i]
                                                     ELSE Len(list) + 1]
      OBVIOUS
    <2>3. new \in [DOMAIN joined' -> DOMAIN list']
      BY <1>2, <1>4, <2>1, <2>2
    <2>4. \A i, j \in DOMAIN joined' : i < j => new[i] < new[j]
      <3>1. ASSUME NEW i \in DOMAIN joined', NEW j \in DOMAIN joined', i < j
            PROVE  new[i] < new[j]
        <4>1. i \in DOMAIN joined /\ new[i] = place[i] /\ place[i] \in 1..Len(list)
          BY <1>2, <1>4, <2>1, <2>2, <3>1
        <4>2. CASE j \in DOMAIN joined
          BY <2>2, <3>1, <4>1, <4>2 DEF Place
        <4>3. CASE j \notin DOMAIN joined
          BY <1>2, <2>2, <3>1, <4>1, <4>3
        <4> QED BY <4>2, <4>3
      <3> QED BY <3>1
    <2>5. \A i \in DOMAIN joined' : list'[new[i]].server = joined'[i]
      <3>1. ASSUME NEW i \in DOMAIN joined' PROVE list'[new[i]].server = joined'[i]
        <4>1. CASE i \in DOMAIN joined
          <5>1. new[i] = place[i] /\ place[i] \in DOMAIN list
            BY <1>4, <2>2, <4>1
          <5>2. list[place[i]].server = joined[i]
            BY <4>1 DEF Place
          <5> QED BY <1>2, <2>1, <4>1, <5>1, <5>2
        <4>2. CASE i \notin DOMAIN joined
          BY <1>2, <2>1, <2>2, <4>2
        <4> QED BY <4>1, <4>2
      <3> QED BY <3>1
    <2>6. new \in Place'
      BY <2>3, <2>4, <2>5 DEF Place
    <2> QED BY <2>6
  <1> QED BY <1>5, <1>6 DEF JoinSucceeded

\* A refresh that has come to its end has listed each server at its place in the table.
LEMMA RefreshPlaced ==
  ASSUME TypeOK, Listing, RefreshEnd
  PROVE  Place' # {}
  <1>1. /\ DOMAIN joined = 1..Len(joined) /\ Len(joined) \in Nat
        /\ DOMAIN list = 1..Len(list)
    BY DEF TypeOK
  <1>2. Len(list) = Len(joined) /\ \A i \in DOMAIN list : list[i].server = joined[i]
    BY <1>1 DEF Listing, RefreshEnd
  <1>3. UNCHANGED <<joined, list>>
    BY DEF RefreshEnd
  <1>4. [i \in DOMAIN joined |-> i] \in Place
    BY <1>1, <1>2 DEF Place
  <1> QED BY <1>3, <1>4, PlaceKept

\* Every step keeps the listing.
LEMMA ListingStep ==
  ASSUME TypeOK, RequestOK, Listing, [Next]_vars
  PROVE  Listing'
  <1>1. ASSUME Aside PROVE Listing'
    <2>1. UNCHANGED <<up, joined, gui, list>> /\ (popup' => popup \/ up)
      BY <1>1, AsideLeaves
    <2>2. Place' = Place
      BY <2>1, PlaceKept
    <2> QED BY <2>1, <2>2 DEF Listing
  <1>2. ASSUME NEW s \in Servers, HandleJoinServer(s) PROVE Listing'
    <2>1. /\ UNCHANGED <<up, joined, list, popup>>
          /\ UNCHANGED gui \/ (gui.pc = "join" /\ gui'.pc = "join")
      BY <1>2, AnswerStep DEF HandleJoinServer
    <2>2. Place' = Place
      BY <2>1, PlaceKept
    <2> QED BY <2>1, <2>2 DEF Listing, Idle
  <1>3. ASSUME NEW s \in Servers, JoinRequest(s) PROVE Listing'
    <2>1. /\ UNCHANGED <<up, joined, list, popup>> /\ popup
          /\ gui.pc = "idle" /\ gui'.pc = "join"
      BY <1>3 DEF JoinRequest, Idle
    <2>2. Place' = Place
      BY <2>1, PlaceKept
    <2> QED BY <2>1, <2>2 DEF Listing
  <1>4. ASSUME RefreshBegin \/ Launch PROVE Listing'
    <2>1. up' /\ list' = <<>> /\ UNCHANGED joined /\ gui'.pc = "refresh" /\ gui'.at = 1
      <3>1. CASE RefreshBegin
        BY <3>1 DEF RefreshBegin, Idle
      <3>2. CASE Launch
        BY <3>2 DEF Launch, Listing, Idle
      <3> QED BY <1>4, <3>1, <3>2
    <2>2. 1 \in 1..(Len(joined) + 1)
      BY DEF TypeOK
    <2> QED BY <2>1, <2>2 DEF Listing
  <1>5. ASSUME RefreshUnreachable \/ RefreshTimeout \/ RefreshAnswered PROVE Listing'
    <2>1. PICK status \in {"OFFLINE", "ONLINE"}, admin \in BOOLEAN :
            /\ list' = Append(list, JoinedServer(joined[gui.at], status, admin))
            /\ gui.pc = "refresh" /\ gui'.pc = "refresh"
            /\ gui.at \in DOMAIN joined /\ gui'.at = gui.at + 1
            /\ UNCHANGED <<up, joined>>
      BY <1>5, RefreshPush
    <2>2. up
      BY <2>1 DEF Listing, Idle
    <2>3. joined \in Seq(Servers) /\ list \in Seq(Entry)
      BY DEF TypeOK
    <2>4. /\ gui.at \in 1..Len(joined) /\ Len(list) = gui.at - 1 /\ Len(joined) \in Nat
          /\ \A i \in DOMAIN list : list[i].server = joined[i]
      BY <2>1, <2>3 DEF Listing
    <2>5. /\ Len(list') = gui'.at - 1
          /\ gui'.at \in 1..(Len(joined') + 1)
          /\ \A i \in DOMAIN list' : list'[i].server = joined'[i]
      <3>1. joined[gui.at] \in Servers
        BY <2>1, <2>3
      <3>2. /\ Len(list') = Len(list) + 1 /\ Len(list) \in Nat
            /\ DOMAIN list' = 1..(Len(list) + 1) /\ DOMAIN list = 1..Len(list)
            /\ \A i \in DOMAIN list : list'[i] = list[i]
            /\ list'[Len(list) + 1].server = joined[gui.at]
        BY <2>1, <3>1, AppendEntry
      <3>3. Len(list) + 1 = gui.at
        BY <2>4, <3>2
      <3> QED BY <2>1, <2>4, <3>2, <3>3
    <2> QED BY <2>1, <2>2, <2>5 DEF Listing
  <1>6. ASSUME RefreshEnd PROVE Listing'
    <2>1. up' /\ gui'.pc = "idle"
      BY <1>6 DEF RefreshEnd, Listing, Idle
    <2> QED BY <1>6, <2>1, RefreshPlaced DEF Listing
  <1>7. ASSUME JoinTimeout \/ JoinFailed PROVE Listing'
    <2>1. gui.pc = "join" /\ gui'.pc = "idle" /\ UNCHANGED <<up, joined, list>>
      BY <1>7 DEF JoinTimeout, JoinFailed, Idle, hosts
    <2>2. up
      BY <2>1 DEF Listing, Idle
    <2> QED BY <2>1, <2>2, PlaceKept DEF Listing
  <1>8. ASSUME JoinSucceeded PROVE Listing'
    <2>1. gui.pc = "join" /\ gui'.pc = "idle" /\ UNCHANGED up
      BY <1>8 DEF JoinSucceeded, Idle
    <2>2. up
      BY <2>1 DEF Listing, Idle
    <2>3. Place # {}
      BY <2>1, <2>2 DEF Listing
    <2> QED BY <1>8, <2>1, <2>2, <2>3, JoinedPlaced DEF Listing
  <1>9. ASSUME Crash PROVE Listing'
    BY <1>9 DEF Crash, Listing, Idle
  <1> QED BY <1>1, <1>2, <1>3, <1>4, <1>5, <1>6, <1>7, <1>8, <1>9
          DEF Next, Aside, RefreshStep, JoinStep

-----------------------------------------------------------------------------
(* What is shown green *)

Deserved(x) ==
  x.status = "ONLINE" => IsMember(x.server) \/ (x.server \in greeted /\ ~x.admin)

\* A green element is of a server that has us, or that has just said so.
LEMMA OnlineStep ==
  ASSUME TypeOK, RequestOK, OnlineIsMember, [Next]_vars
  PROVE  OnlineIsMember'
  <1>0. \A i \in DOMAIN list : list[i] \in Entry /\ Deserved(list[i])
    BY DEF TypeOK, OnlineIsMember, Deserved
  <1>1. ASSUME NEW x \in Entry, Deserved(x), greeted \subseteq greeted' PROVE Deserved(x)'
    BY <1>1, MembersStay DEF Deserved, Entry
  <1>2. CASE list' = <<>>
    BY <1>2 DEF OnlineIsMember
  <1>3. CASE UNCHANGED <<list, greeted>>
    BY <1>0, <1>1, <1>3 DEF OnlineIsMember, Deserved
  <1>4. ASSUME NEW s \in Servers, NEW status \in {"OFFLINE", "ONLINE"}, NEW admin \in BOOLEAN,
               list' = Append(list, JoinedServer(s, status, admin)),
               Deserved(JoinedServer(s, status, admin))', greeted \subseteq greeted'
        PROVE  OnlineIsMember'
    <2>1. \A i \in DOMAIN list' : \/ i \in DOMAIN list /\ list'[i] = list[i]
                                  \/ list'[i] = JoinedServer(s, status, admin)
      BY <1>4, AppendEntry
    <2>2. ASSUME NEW i \in DOMAIN list' PROVE \E x : x = list'[i] /\ Deserved(x)'
      <3>1. CASE i \in DOMAIN list /\ list'[i] = list[i]
        BY <1>0, <1>1, <1>4, <3>1
      <3>2. CASE list'[i] = JoinedServer(s, status, admin)
        BY <1>4, <3>2
      <3> QED BY <2>1, <3>1, <3>2
    <2> QED BY <2>2 DEF OnlineIsMember, Deserved
  <1>5. ASSUME RefreshUnreachable \/ RefreshTimeout \/ RefreshAnswered
        PROVE  OnlineIsMember'
    <2>1. PICK status \in {"OFFLINE", "ONLINE"}, admin \in BOOLEAN :
            /\ list' = Append(list, JoinedServer(joined[gui.at], status, admin))
            /\ status = "ONLINE" => IsMember(joined[gui.at])
            /\ gui.at \in DOMAIN joined /\ UNCHANGED greeted
      BY <1>5, RefreshPush
    <2>2. joined[gui.at] \in Servers
      BY <2>1 DEF TypeOK
    <2>3. PICK s \in Servers : s = joined[gui.at]
      BY <2>2
    <2>4. status = "ONLINE" => IsMember(s)'
      BY <2>1, <2>3, MembersStay
    <2>5. Deserved(JoinedServer(s, status, admin))'
      BY <2>4 DEF Deserved, JoinedServer
    <2> QED BY <1>4, <2>1, <2>3, <2>5
  <1>6. ASSUME JoinSucceeded PROVE OnlineIsMember'
    <2>1. /\ gui.server \in Servers /\ greeted' = greeted \cup {gui.server}
          /\ list' = Append(list, JoinedServer(gui.server, "ONLINE", FALSE))
      BY <1>6 DEF JoinSucceeded, RequestOK
    <2>2. PICK s \in Servers : s = gui.server
      BY <2>1
    <2>3. Deserved(JoinedServer(s, "ONLINE", FALSE))'
      BY <2>1, <2>2 DEF Deserved, JoinedServer
    <2> QED BY <1>4, <2>1, <2>2, <2>3
  <1>7. ASSUME NEW s \in Servers, HandleJoinServer(s) PROVE OnlineIsMember'
    BY <1>3, <1>7, AnswerStep
  <1>8. ASSUME Aside PROVE OnlineIsMember'
    BY <1>3, <1>8, AsideLeaves
  <1>9. ASSUME \/ \E s \in Servers : JoinRequest(s)
               \/ RefreshEnd \/ JoinTimeout \/ JoinFailed \/ Launch
        PROVE  UNCHANGED <<list, greeted>>
    BY <1>9 DEF JoinRequest, RefreshEnd, JoinTimeout, JoinFailed, Launch
  <1>10. ASSUME RefreshBegin \/ Crash PROVE list' = <<>>
    BY <1>10 DEF RefreshBegin, Crash
  <1> QED BY <1>2, <1>3, <1>5, <1>6, <1>7, <1>8, <1>9, <1>10
          DEF Next, Aside, RefreshStep, JoinStep

-----------------------------------------------------------------------------
(* The theorems *)

\* The panel's state in every reachable state.
LEMMA PanelHolds == Spec => []Panel
  <1>1. Init => Panel
    <2> SUFFICES ASSUME Init PROVE Panel
      OBVIOUS
    <2>1. TypeOK
      <3>1. member \in [Addresses -> {NoUser} \cup [server : Servers, admin : BOOLEAN]]
        BY DEF Init
      <3>2. joined \in Seq(Servers) /\ list \in Seq(Entry) /\ rows \in Seq(Entry)
        BY DEF Init
      <3> QED BY <3>1, <3>2, IdleType DEF Init, TypeOK
    <2>2. Listing /\ OnlineIsMember
      BY DEF Init, Listing, OnlineIsMember, Idle
    <2> QED BY <2>1, <2>2 DEF Init, Panel, RequestOK, Drawn, Connections, Idle
  <1>2. Panel /\ [Next]_vars => Panel'
    BY TypeStep, MainThreadStep, ListingStep, OnlineStep DEF Panel
  <1> QED BY <1>1, <1>2, PTL DEF Spec

\* For any servers: every variable keeps its type.
THEOREM TypeCorrect == Spec => []TypeOK
  <1>1. Panel => TypeOK
    BY DEF Panel
  <1> QED BY <1>1, PanelHolds, PTL

\* For any servers: every row acts on the server it shows whenever a button can be
\* pressed.
THEOREM RowsActOnWhatTheyShow == Spec => []RowsMatchList
  <1>1. Panel => RowsMatchList
    BY DEF Panel, Drawn, RowsMatchList, Idle
  <1> QED BY <1>1, PanelHolds, PTL

\* Whatever times out or fails, every server of the table is listed, in its order.
THEOREM NoJoinedServerIsMissing == Spec => []JoinedAreListed
  <1>1. Panel => JoinedAreListed
    BY DEF Panel, Listing, Place, JoinedAreListed, Idle
  <1> QED BY <1>1, PanelHolds, PTL

\* For any servers: between two refreshes a server that does not have the client as a
\* user is shown green only if it answered SUCCESS to a join in between, and nobody is
\* offered the admin's menu of a server that does not have him.
THEOREM GreenServersHaveUs == Spec => []OnlineIsMember
  <1>1. Panel => OnlineIsMember
    BY DEF Panel
  <1> QED BY <1>1, PanelHolds, PTL

\* For any number of timeouts, the connections left open are those of the unanswered
\* refreshes.
THEOREM LeaksAreCounted == Spec => []OnlyRefreshLeaks
  <1>1. Panel => OnlyRefreshLeaks
    BY DEF Panel, TypeOK, Connections, OnlyRefreshLeaks, Idle
  <1> QED BY <1>1, PanelHolds, PTL
=============================================================================
