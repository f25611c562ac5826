--------------------------- MODULE ChatRoomProofs ---------------------------
(***************************************************************************)
(* Proofs about ChatRoom: nothing is left of a deleted panel, a panel at   *)
(* rest shows the list it holds, and no message posted before the panel    *)
(* was built is missing from it.  PanelInv is the inductive invariant; its *)
(* three parts are shown one after the other, HistoryKept with the others. *)
(***************************************************************************)
EXTENDS ChatRoom, FiniteSetTheorems, TLAPS

-----------------------------------------------------------------------------
(* Rows that a redraw missed are announced *)

\* The first state satisfies the invariant: no panel, nothing to draw.
LEMMA RedrawnInit == Init => Redrawn
BY DEF Init, Redrawn, NothingAfterDelete, Announced, Idle, Waiting

\* Buttons: opening and closing the window, and selecting a channel, start the
\* main thread only.
LEMMA RedrawnButtons ==
  ASSUME Redrawn,
         \/ \E connected, listed \in BOOLEAN : OpenRoom(connected, listed)
         \/ \E c \in Channels : SelectChannel(c)
         \/ CloseRoom,
         RoomAssumption
  PROVE  Redrawn'
<1>1. CASE \E connected, listed \in BOOLEAN : OpenRoom(connected, listed)
  BY <1>1 DEF OpenRoom, Redrawn, NothingAfterDelete, Announced, Idle, Waiting
<1>2. CASE \E c \in Channels : SelectChannel(c)
  <2>. PICK c \in Channels : SelectChannel(c) BY <1>2
  <2>1. c # 0 BY RoomAssumption
  <2>2. gui' = [pc |-> IF panel = 0 THEN "connect" ELSE "cleanup", channel |-> c, list |-> <<>>]
    BY DEF SelectChannel, Idle
  <2>3. QED
    BY <2>1, <2>2 DEF SelectChannel, Redrawn, NothingAfterDelete, Announced, Idle, Waiting
<1>3. CASE CloseRoom
  BY <1>3 DEF CloseRoom, Redrawn, NothingAfterDelete, Announced, Idle
<1>4. QED BY <1>1, <1>2, <1>3

\* The main thread builds, loads, draws and deletes a panel.
LEMMA RedrawnGui ==
  ASSUME Redrawn, GuiStep \/ OnChatUpdate
  PROVE  Redrawn'
<1>1. CASE Cleanup
  <2>1. /\ DOMAIN gui' = DOMAIN Idle
        /\ \/ gui'.pc = "idle"
           \/ gui'.pc = "connect" /\ gui'.channel # 0
    BY <1>1 DEF Cleanup, AfterCleanup, Redrawn, Idle
  <2>2. QED
    BY <1>1, <2>1 DEF Cleanup, NoPanel, Redrawn, NothingAfterDelete, Announced, Waiting
<1>2. CASE Connect
  BY <1>2 DEF Connect, Redrawn, NothingAfterDelete, Announced, Idle, Waiting
<1>3. CASE ConnectFails \/ LoadReply \/ LoadFails
  BY <1>3 DEF ConnectFails, LoadReply, LoadFails, Redrawn, NothingAfterDelete, Announced, Idle, Waiting
<1>4. CASE Assign
  BY <1>4 DEF Assign, Redrawn, NothingAfterDelete, Announced, Idle, Waiting
<1>5. CASE RedrawBegin
  BY <1>5 DEF RedrawBegin, Redrawn, NothingAfterDelete, Announced, Idle, Waiting
<1>6. CASE RedrawEnd
  BY <1>6 DEF RedrawEnd, Redrawn, NothingAfterDelete, Announced, Idle
<1>7. CASE OnChatUpdate
  BY <1>7 DEF OnChatUpdate, Redrawn, NothingAfterDelete, Announced, Idle
<1>8. QED BY <1>1, <1>2, <1>3, <1>4, <1>5, <1>6, <1>7 DEF GuiStep

\* The receive thread inserts, then announces.
LEMMA RedrawnReceive ==
  ASSUME Redrawn, ReceiveStep \/ \E update \in inbox : Receive(update)
  PROVE  Redrawn'
<1>1. CASE Insert
  BY <1>1 DEF Insert, Redrawn, NothingAfterDelete, Announced, Waiting
<1>2. CASE InsertRace
  BY <1>2 DEF InsertRace, Redrawn, NothingAfterDelete, Announced, Idle, Waiting
<1>3. CASE QueueEvent
  BY <1>3 DEF QueueEvent, Redrawn, NothingAfterDelete, Announced, Waiting
<1>4. CASE \E update \in inbox : Receive(update)
  BY <1>4 DEF Receive, Redrawn, NothingAfterDelete, Announced, Waiting
<1>5. QED BY <1>1, <1>2, <1>3, <1>4 DEF ReceiveStep

\* The host fills the inbox of a panel that exists.
LEMMA RedrawnHost ==
  ASSUME Redrawn,
         \/ \E row \in [channel_id : Channels] : Post(row)
         \/ \E S \in SUBSET DOMAIN log, arrives \in BOOLEAN : Update(S, arrives)
  PROVE  Redrawn'
<1>1. CASE \E row \in [channel_id : Channels] : Post(row)
  BY <1>1 DEF Post, client, Redrawn, NothingAfterDelete, Announced, Idle, Waiting
<1>2. CASE \E S \in SUBSET DOMAIN log, arrives \in BOOLEAN : Update(S, arrives)
  BY <1>2 DEF Update, Redrawn, NothingAfterDelete, Announced, Idle, Waiting
<1>3. QED BY <1>1, <1>2

\* Redrawn holds in every state.
THEOREM RowsAreAnnounced == Spec => []Redrawn
<1>1. ASSUME Redrawn, [Next]_vars PROVE Redrawn'
  <2>1. CASE Next
    BY <1>1, <2>1, RoomAssumption,
       RedrawnButtons, RedrawnGui, RedrawnReceive, RedrawnHost DEF Next
  <2>2. CASE UNCHANGED vars
    BY <1>1, <2>2 DEF vars, client, Redrawn, NothingAfterDelete, Announced, Idle, Waiting
  <2>3. QED BY <1>1, <2>1, <2>2
<1>2. QED BY RedrawnInit, <1>1, PTL DEF Spec

\* ~ChatPanel (chat_panel.cpp:122) leaves no handler, event or row behind.
THEOREM DeletedPanelIsGone == Spec => []NothingAfterDelete
<1>1. Redrawn => NothingAfterDelete BY DEF Redrawn
<1>2. QED BY RowsAreAnnounced, <1>1, PTL

\* A panel at rest shows its channel_messages (chat_panel.cpp:243-253).
THEOREM QuietPanelIsDrawn == Spec => []DrawnWhenQuiet
<1>1. Redrawn => DrawnWhenQuiet
  BY DEF Redrawn, DrawnWhenQuiet, Announced, Idle, Waiting
<1>2. QED BY RowsAreAnnounced, <1>1, PTL

-----------------------------------------------------------------------------
(* Lists of places in the log *)

\* The rows of an answer or an update are the given places of the log, in an
\* order that leaves out none of them.
LEMMA InOrderLists ==
  ASSUME NEW n \in Nat, NEW S \in SUBSET (1..n)
  PROVE  /\ InOrder(S) \in Seq(S)
         /\ \A i \in S : \E k \in DOMAIN InOrder(S) : InOrder(S)[k] = i
<1>. DEFINE upto(i) == {j \in S : j <= i}
            place == [i \in S |-> Place(S, i)]
            last == Cardinality(S)
<1>1. IsFiniteSet(S) /\ last \in Nat
  <2>1. IsFiniteSet(1..n) BY FS_Interval
  <2>2. IsFiniteSet(S) BY <2>1, FS_Subset
  <2>3. QED BY <2>2, FS_CardinalityType
<1>2. ASSUME NEW i \in S PROVE IsFiniteSet(upto(i)) /\ Cardinality(upto(i)) \in 1..last
  <2>1. upto(i) \in SUBSET S /\ i \in upto(i) OBVIOUS
  <2>2. IsFiniteSet(upto(i)) /\ Cardinality(upto(i)) <= last BY <1>1, <2>1, FS_Subset
  <2>3. Cardinality(upto(i)) \in Nat /\ Cardinality(upto(i)) # 0
    BY <2>1, <2>2, FS_CardinalityType, FS_EmptySet
  <2>4. QED BY <1>1, <2>2, <2>3
<1>3. ASSUME NEW i \in S, NEW j \in S, i < j PROVE Cardinality(upto(i)) # Cardinality(upto(j))
  <2>1. \A k \in S : k \in Nat OBVIOUS
  <2>2. ASSUME NEW k \in upto(i) PROVE k \in upto(j) BY <1>3, <2>1
  <2>3. j \in upto(j) /\ j \notin upto(i) BY <1>3, <2>1
  <2>4. upto(i) \in SUBSET upto(j) BY <2>2
  <2>5. upto(i) # upto(j) BY <2>3
  <2>6. QED BY <1>2, <2>4, <2>5, FS_Subset
<1>4. place \in Injection(S, 1..last)
  <2>1. place \in [S -> 1..last] BY <1>2 DEF Place
  <2>2. ASSUME NEW i \in S, NEW j \in S, place[i] = place[j] PROVE i = j
    <3>1. Cardinality(upto(i)) = Cardinality(upto(j)) BY <2>2 DEF Place
    <3>2. i < j \/ j < i \/ i = j OBVIOUS
    <3>3. QED BY <1>3, <3>1, <3>2
  <2>3. QED BY <2>1, <2>2 DEF Injection, IsInjective
<1>5. place \in Surjection(S, 1..last)
  <2>1. IsFiniteSet(1..last) /\ Cardinality(1..last) = last BY <1>1, FS_Interval
  <2>2. QED BY <1>4, <2>1, FS_Injection
<1>6. ASSUME NEW k \in 1..last
      PROVE  InOrder(S)[k] \in S /\ Place(S, InOrder(S)[k]) = k
  <2>1. \E i \in S : Place(S, i) = k BY <1>5 DEF Surjection
  <2>2. QED BY <2>1 DEF InOrder
<1>7. InOrder(S) \in [1..last -> S] BY <1>6 DEF InOrder
<1>8. ASSUME NEW i \in S PROVE \E k \in DOMAIN InOrder(S) : InOrder(S)[k] = i
  <2>1. Place(S, i) \in 1..last BY <1>2 DEF Place
  <2>2. PICK k \in 1..last : k = Place(S, i) BY <2>1
  <2>3. place[InOrder(S)[k]] = place[i] /\ InOrder(S)[k] \in S BY <1>6, <2>2
  <2>4. InOrder(S)[k] = i BY <1>4, <2>3 DEF Injection, IsInjective
  <2>5. QED BY <1>7, <2>2, <2>4
<1>9. InOrder(S) \in Seq(S) BY <1>1, <1>7
<1>10. QED BY <1>8, <1>9

\* A longer log has the same places and more.
LEMMA LogGrows ==
  ASSUME NEW R, NEW s \in Seq(R), NEW row \in R
  PROVE  /\ Append(s, row) \in Seq(R)
         /\ DOMAIN s \subseteq DOMAIN Append(s, row)
         /\ \A i \in DOMAIN s : Append(s, row)[i] = s[i]
OBVIOUS

\* A sequence over a set is one over a larger set.
LEMMA WiderSeq ==
  ASSUME NEW A, NEW B, A \subseteq B
  PROVE  Seq(A) \subseteq Seq(B)
OBVIOUS

\* The answer and the updates list places of the log.
LEMMA RowsType ==
  ASSUME log \in Seq([channel_id : Channels]), NEW S \in SUBSET DOMAIN log
  PROVE  /\ InOrder(S) \in Seq(DOMAIN log)
         /\ HasHistory(InOrder(S)) <=> history \subseteq S
<1>1. Len(log) \in Nat /\ DOMAIN log = 1..Len(log) OBVIOUS
<1>2. InOrder(S) \in Seq(S) /\ \A i \in S : \E k \in DOMAIN InOrder(S) : InOrder(S)[k] = i
  BY <1>1, InOrderLists
<1>3. InOrder(S) \in Seq(DOMAIN log) BY <1>2, WiderSeq
<1>4. \A k \in DOMAIN InOrder(S) : InOrder(S)[k] \in S BY <1>2
<1>5. QED BY <1>2, <1>3, <1>4 DEF HasHistory

-----------------------------------------------------------------------------
(* Types *)

\* The first state has the types.
LEMMA TypeInit == Init => TypeOK
BY DEF Init, TypeOK, Pcs, Idle, Waiting, Closed, Host!Init

\* Buttons change the window and start the main thread.
LEMMA TypeButtons ==
  ASSUME TypeOK,
         \/ \E connected, listed \in BOOLEAN : OpenRoom(connected, listed)
         \/ \E c \in Channels : SelectChannel(c)
         \/ CloseRoom
  PROVE  TypeOK'
<1>1. CASE \E connected, listed \in BOOLEAN : OpenRoom(connected, listed)
  BY <1>1 DEF OpenRoom, TypeOK, host
<1>2. CASE \E c \in Channels : SelectChannel(c)
  <2>. PICK c \in Channels : SelectChannel(c) BY <1>2
  <2>1. gui' = [pc |-> IF panel = 0 THEN "connect" ELSE "cleanup", channel |-> c, list |-> <<>>]
    BY DEF SelectChannel, Idle
  <2>2. gui' \in [pc : Pcs, channel : Channels \cup {0}, list : Seq(DOMAIN log)]
    BY <2>1 DEF Pcs
  <2>3. QED BY <2>2 DEF SelectChannel, TypeOK, host
<1>3. CASE CloseRoom
  BY <1>3 DEF CloseRoom, TypeOK, host, Idle, Closed, Pcs
<1>4. QED BY <1>1, <1>2, <1>3

\* The main thread builds, loads, draws and deletes a panel.
LEMMA TypeGui ==
  ASSUME TypeOK, GuiStep \/ OnChatUpdate
  PROVE  TypeOK'
<1>1. CASE Cleanup
  <2>1. gui' \in [pc : Pcs, channel : Channels \cup {0}, list : Seq(DOMAIN log)]
    BY <1>1 DEF Cleanup, AfterCleanup, TypeOK, Pcs
  <2>2. QED BY <1>1, <2>1 DEF Cleanup, NoPanel, TypeOK, host
<1>2. CASE Connect
  BY <1>2 DEF Connect, PostedIn, TypeOK, host, Pcs
<1>3. CASE ConnectFails
  BY <1>3 DEF ConnectFails, TypeOK, host
<1>4. CASE LoadReply
  <2>1. ChannelRows(panel) \in Seq(DOMAIN log)
    BY RowsType DEF ChannelRows, PostedIn, TypeOK
  <2>2. QED BY <1>4, <2>1 DEF LoadReply, TypeOK, host, Pcs
<1>5. CASE LoadFails
  BY <1>5 DEF LoadFails, TypeOK, host, Pcs
<1>6. CASE Assign
  BY <1>6 DEF Assign, TypeOK, host, Pcs
<1>7. CASE RedrawBegin
  BY <1>7 DEF RedrawBegin, TypeOK, host, Pcs
<1>8. CASE RedrawEnd
  BY <1>8 DEF RedrawEnd, TypeOK, host, Idle, Pcs
<1>9. CASE OnChatUpdate
  <2>1. events' \in Nat BY <1>9 DEF OnChatUpdate, TypeOK
  <2>2. QED BY <1>9, <2>1 DEF OnChatUpdate, TypeOK, host, Pcs
<1>10. QED BY <1>1, <1>2, <1>3, <1>4, <1>5, <1>6, <1>7, <1>8, <1>9 DEF GuiStep

\* The receive thread takes an update and inserts its rows.
LEMMA TypeReceive ==
  ASSUME TypeOK, ReceiveStep \/ \E update \in inbox : Receive(update)
  PROVE  TypeOK'
<1>1. CASE Insert
  <2>1. messages \o rcv.list \in Seq(DOMAIN log) BY DEF TypeOK
  <2>2. QED BY <1>1, <2>1 DEF Insert, TypeOK, host
<1>2. CASE InsertRace
  BY <1>2 DEF InsertRace, TypeOK, host
<1>3. CASE QueueEvent
  BY <1>3 DEF QueueEvent, TypeOK, host, Waiting
<1>4. CASE \E update \in inbox : Receive(update)
  BY <1>4 DEF Receive, TypeOK, host
<1>5. QED BY <1>1, <1>2, <1>3, <1>4 DEF ReceiveStep

\* The host keeps a message, or sends an update of places in the log.
LEMMA TypeHost ==
  ASSUME TypeOK,
         \/ \E row \in [channel_id : Channels] : Post(row)
         \/ \E S \in SUBSET DOMAIN log, arrives \in BOOLEAN : Update(S, arrives)
  PROVE  TypeOK'
<1>1. CASE \E row \in [channel_id : Channels] : Post(row)
  <2>. PICK row \in [channel_id : Channels] : Post(row) BY <1>1
  <2>1. log' = Append(log, row) /\ UNCHANGED <<client, feed>> BY DEF Post, Host!Post
  <2>2. log' \in Seq([channel_id : Channels]) /\ DOMAIN log \subseteq DOMAIN log'
    BY <2>1, LogGrows DEF TypeOK
  <2>3. Seq(DOMAIN log) \subseteq Seq(DOMAIN log') BY <2>2, WiderSeq
  <2>4. QED BY <2>1, <2>2, <2>3 DEF TypeOK, client
<1>2. CASE \E S \in SUBSET DOMAIN log, arrives \in BOOLEAN : Update(S, arrives)
  <2>. PICK S \in SUBSET DOMAIN log, arrives \in BOOLEAN : Update(S, arrives) BY <1>2
  <2>1. InOrder(S) \in Seq(DOMAIN log) BY RowsType DEF TypeOK
  <2>2. feed' = [feed EXCEPT !["client"] = @ \cup S] /\ log' = log BY DEF Update, Host!Update
  <2>3. feed' \in [{"client"} -> SUBSET DOMAIN log] BY <2>2 DEF TypeOK
  <2>4. inbox' \subseteq Seq(DOMAIN log) BY <2>1 DEF Update, TypeOK
  <2>5. QED BY <2>2, <2>3, <2>4 DEF Update, TypeOK
<1>3. QED BY <1>1, <1>2

\* Every variable keeps its type.
THEOREM TypeCorrect == Spec => []TypeOK
<1>1. ASSUME TypeOK, [Next]_vars PROVE TypeOK'
  <2>1. CASE Next
    BY <1>1, <2>1, TypeButtons, TypeGui, TypeReceive, TypeHost DEF Next
  <2>2. CASE UNCHANGED vars
    BY <1>1, <2>2 DEF vars, client, host, TypeOK
  <2>3. QED BY <1>1, <2>1, <2>2
<1>2. QED BY TypeInit, <1>1, PTL DEF Spec

-----------------------------------------------------------------------------
(* The history *)

\* The first state has no panel.
LEMMA HistoryInit == Init => HistoryKept
BY DEF Init, HistoryKept, Idle

\* A list that grows keeps the history it has.
LEMMA HistoryStays ==
  ASSUME NEW A, NEW s \in Seq(A), NEW t \in Seq(A), HasHistory(s)
  PROVE  HasHistory(s \o t)
<1>1. \A j \in DOMAIN s : j \in DOMAIN (s \o t) /\ (s \o t)[j] = s[j] OBVIOUS
<1>2. QED BY <1>1 DEF HasHistory

\* Buttons start the main thread, which then has no list to keep.
LEMMA HistoryButtons ==
  ASSUME HistoryKept, TypeOK,
         \/ \E connected, listed \in BOOLEAN : OpenRoom(connected, listed)
         \/ \E c \in Channels : SelectChannel(c)
         \/ CloseRoom
  PROVE  HistoryKept'
<1>1. CASE \E connected, listed \in BOOLEAN : OpenRoom(connected, listed)
  BY <1>1 DEF OpenRoom, HistoryKept, HasHistory, PostedIn, host
<1>2. CASE \E c \in Channels : SelectChannel(c)
  <2>. PICK c \in Channels : SelectChannel(c) BY <1>2
  <2>1. gui'.pc \in {"connect", "cleanup"} BY DEF SelectChannel, Idle
  <2>2. QED BY <2>1 DEF HistoryKept
<1>3. CASE CloseRoom
  <2>1. gui'.pc = IF panel = 0 THEN "idle" ELSE "cleanup" BY <1>3 DEF CloseRoom, Idle
  <2>2. panel' = panel BY <1>3 DEF CloseRoom
  <2>3. QED BY <2>1, <2>2 DEF HistoryKept
<1>4. QED BY <1>1, <1>2, <1>3

\* From the panel's connection on, the history is in the answer, then in the
\* list, then on show.
LEMMA HistoryGui ==
  ASSUME HistoryKept, TypeOK, Redrawn, GuiStep \/ OnChatUpdate
  PROVE  HistoryKept'
<1>1. CASE Cleanup
  <2>1. gui'.pc \in {"idle", "connect"} /\ panel' = 0
    BY <1>1 DEF Cleanup, NoPanel, AfterCleanup, TypeOK
  <2>2. QED BY <2>1 DEF HistoryKept
<1>2. CASE Connect
  <2>1. gui'.pc = "load" /\ history' = PostedIn(panel') /\ log' = log
    BY <1>2 DEF Connect, TypeOK, host
  <2>2. history' = PostedIn(panel)' BY <2>1 DEF PostedIn
  <2>3. QED BY <2>1, <2>2 DEF HistoryKept
<1>3. CASE ConnectFails
  BY <1>3 DEF ConnectFails, HistoryKept, HasHistory, PostedIn, host
<1>4. CASE LoadReply
  <2>1. gui'.pc = "assign" /\ gui'.list = InOrder(PostedIn(panel)) /\ history' = history
    BY <1>4 DEF LoadReply, ChannelRows, TypeOK
  <2>2. history \subseteq PostedIn(panel) BY <1>4 DEF LoadReply, HistoryKept
  <2>3. PostedIn(panel) \in SUBSET DOMAIN log BY DEF PostedIn
  <2>4. HasHistory(InOrder(PostedIn(panel))) BY <2>2, <2>3, RowsType DEF TypeOK
  <2>5. HasHistory(gui.list)' BY <2>1, <2>4 DEF HasHistory
  <2>6. QED BY <2>1, <2>5 DEF HistoryKept
<1>5. CASE LoadFails
  <2>1. gui'.pc = "redraw" /\ history' = {} BY <1>5 DEF LoadFails, TypeOK
  <2>2. QED BY <2>1 DEF HistoryKept, HasHistory
<1>6. CASE Assign
  BY <1>6 DEF Assign, HistoryKept, HasHistory, TypeOK
<1>7. CASE RedrawBegin
  BY <1>7 DEF RedrawBegin, HistoryKept, HasHistory, TypeOK
<1>8. CASE RedrawEnd
  BY <1>8 DEF RedrawEnd, HistoryKept, HasHistory, Idle
<1>9. CASE OnChatUpdate
  <2>1. gui.pc = "idle" /\ panel # 0
    BY <1>9 DEF OnChatUpdate, Redrawn, NothingAfterDelete, Idle
  <2>2. gui'.pc = "redraw" /\ UNCHANGED <<messages, history>>
    BY <1>9 DEF OnChatUpdate, TypeOK
  <2>3. QED BY <2>1, <2>2 DEF HistoryKept, HasHistory
<1>10. QED BY <1>1, <1>2, <1>3, <1>4, <1>5, <1>6, <1>7, <1>8, <1>9 DEF GuiStep

\* Rows that come in are added to the list: nothing in it is lost.
LEMMA HistoryReceive ==
  ASSUME HistoryKept, TypeOK, ReceiveStep \/ \E update \in inbox : Receive(update)
  PROVE  HistoryKept'
<1>1. CASE Insert
  <2>1. messages' = messages \o rcv.list /\ UNCHANGED <<gui, panel, drawn, history, log>>
    BY <1>1 DEF Insert, host
  <2>2. messages \in Seq(DOMAIN log) /\ rcv.list \in Seq(DOMAIN log) BY DEF TypeOK
  <2>3. HasHistory(messages) => HasHistory(messages \o rcv.list) BY <2>2, HistoryStays
  <2>4. HasHistory(messages) => HasHistory(messages)' BY <2>1, <2>3 DEF HasHistory
  <2>5. /\ HasHistory(gui.list) <=> HasHistory(gui.list)'
        /\ HasHistory(drawn) <=> HasHistory(drawn)'
    BY <2>1 DEF HasHistory
  <2>6. PostedIn(panel)' = PostedIn(panel) BY <2>1 DEF PostedIn
  <2>7. QED BY <2>1, <2>4, <2>5, <2>6 DEF HistoryKept
<1>2. CASE InsertRace \/ QueueEvent \/ \E update \in inbox : Receive(update)
  <2>1. UNCHANGED <<gui, panel, messages, drawn, history, log>>
    BY <1>2 DEF InsertRace, QueueEvent, Receive, host
  <2>2. QED BY <2>1 DEF HistoryKept, HasHistory, PostedIn
<1>3. QED BY <1>1, <1>2 DEF ReceiveStep

\* A message posted meanwhile is one more of its channel.
LEMMA HistoryHost ==
  ASSUME HistoryKept, TypeOK,
         \/ \E row \in [channel_id : Channels] : Post(row)
         \/ \E S \in SUBSET DOMAIN log, arrives \in BOOLEAN : Update(S, arrives)
  PROVE  HistoryKept'
<1>1. UNCHANGED <<gui, panel, messages, drawn, history>>
  BY DEF Post, Update, client
<1>2. PostedIn(panel) \subseteq PostedIn(panel)'
  <2>1. CASE \E row \in [channel_id : Channels] : Post(row)
    <3>. PICK row \in [channel_id : Channels] : Post(row) BY <2>1
    <3>1. log' = Append(log, row) BY DEF Post, Host!Post
    <3>2. DOMAIN log \subseteq DOMAIN log' /\ \A i \in DOMAIN log : log'[i] = log[i]
      BY <3>1, LogGrows DEF TypeOK
    <3>3. QED BY <1>1, <3>2 DEF PostedIn
  <2>2. CASE \E S \in SUBSET DOMAIN log, arrives \in BOOLEAN : Update(S, arrives)
    <3>1. log' = log BY <2>2 DEF Update, Host!Update
    <3>2. QED BY <1>1, <3>1 DEF PostedIn
  <2>3. QED BY <2>1, <2>2
<1>3. QED BY <1>1, <1>2 DEF HistoryKept, HasHistory

\* The panel's invariant.
THEOREM PanelInvariant == Spec => []PanelInv
<1>1. ASSUME HistoryKept, TypeOK, Redrawn, [Next]_vars PROVE HistoryKept'
  <2>1. CASE Next
    BY <1>1, <2>1, HistoryButtons, HistoryGui, HistoryReceive, HistoryHost DEF Next
  <2>2. CASE UNCHANGED vars
    BY <1>1, <2>2 DEF vars, client, host, HistoryKept, HasHistory, PostedIn
  <2>3. QED BY <1>1, <2>1, <2>2
<1>2. TypeOK /\ Redrawn /\ HistoryKept <=> PanelInv BY DEF PanelInv
<1>3. QED BY HistoryInit, <1>1, <1>2, TypeCorrect, RowsAreAnnounced, PTL DEF Spec

\* An idle panel shows the channel as it was when the panel was built
\* (chat_panel.cpp:165-186), whatever came in while it was loading.
THEOREM HistoryOnShow == Spec => []HistoryIsShown
<1>1. PanelInv => HistoryIsShown BY DEF PanelInv, HistoryKept, HistoryIsShown, Idle
<1>2. QED BY PanelInvariant, <1>1, PTL

\* What the window sees of the host is a live feed: no step of the client is
\* a step of the host.
THEOREM HostIsFeed == Spec => Host!Spec
<1>1. Init => Host!Init BY DEF Init
<1>2. ASSUME [Next]_vars PROVE [Host!Next]_(Host!vars)
  <2>1. CASE \E row \in [channel_id : Channels] : Post(row)
    BY <2>1 DEF Post, Host!Next
  <2>2. CASE \E S \in SUBSET DOMAIN log, arrives \in BOOLEAN : Update(S, arrives)
    BY <2>2 DEF Update, Host!Next
  <2>3. CASE UNCHANGED host
    BY <2>3 DEF host, Host!vars
  <2>4. GuiStep => UNCHANGED host
    BY DEF GuiStep, Cleanup, Connect, ConnectFails, LoadReply, LoadFails, Assign,
           RedrawBegin, RedrawEnd
  <2>5. \/ OnChatUpdate \/ ReceiveStep
        \/ \E connected, listed \in BOOLEAN : OpenRoom(connected, listed)
        \/ \E c \in Channels : SelectChannel(c)
        \/ CloseRoom
        \/ \E update \in inbox : Receive(update)
        \/ UNCHANGED vars
        => UNCHANGED host
    BY DEF OnChatUpdate, ReceiveStep, Insert, InsertRace, QueueEvent, OpenRoom,
           SelectChannel, CloseRoom, Receive, vars
  <2>6. QED BY <1>2, <2>1, <2>2, <2>3, <2>4, <2>5 DEF Next
<1>3. QED BY <1>1, <1>2, PTL DEF Spec, Host!Spec
=============================================================================
