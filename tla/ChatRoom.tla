------------------------------ MODULE ChatRoom ------------------------------
(***************************************************************************)
(* A chat room window of the client (frames/chat_room_frame) and the panel *)
(* of the channel selected in it.                                          *)
(*                                                                         *)
(* The main thread builds and deletes panels, loads a channel, assigns and *)
(* draws channel_messages; the SwiftNet receive thread inserts into        *)
(* channel_messages and queues an event for the main thread, without a     *)
(* lock.  A step of the model is the code between two accesses to what the *)
(* threads share.  up' = FALSE is the end of the process: the outcome that *)
(* AddressSanitizer gives an access to memory that is freed, or through a  *)
(* pointer that was never set.                                             *)
(*                                                                         *)
(* The host is the feed of LiveFeed, which HostedServer implements.  Its   *)
(* updates reach the panel in any order, or not at all.  Typing a message  *)
(* and scrolling change no state of the client that is modelled: what is   *)
(* sent is shown when the host sends it back.                              *)
(***************************************************************************)
EXTENDS Integers, Sequences, FiniteSets

CONSTANTS
  Channels,    \* the ids of the server's channels, without 0
  MaxMessages  \* bound on the messages posted

ASSUME RoomAssumption == Channels \subseteq Nat \ {0} /\ MaxMessages \in Nat

VARIABLES
  up,        \* the process is running
  room,      \* the window: open, its client_connection set, its channels listed
  gui, rcv,  \* the main thread and the receive thread
  panel,     \* the channel of the ChatPanel, 0 if there is none
  messages,  \* ChatPanel::channel_messages, as places in the log
  drawn,     \* the messages on show
  events,    \* wxEVT_CHAT_UPDATE events queued for the panel
  inbox,     \* updates that have reached the panel's connection
  history,   \* for the properties: what was posted when the panel was built
  log, feed  \* the host

client == <<up, room, gui, rcv, panel, messages, drawn, events, inbox, history>>
host == <<log, feed>>
vars == <<client, host>>

Host == INSTANCE LiveFeed
          WITH Hosts <- {"client"}, Rows <- [channel_id : Channels]

-----------------------------------------------------------------------------
(* The main thread *)

Closed == [open |-> FALSE, connected |-> FALSE, listed |-> FALSE]
Idle == [pc |-> "idle", channel |-> 0, list |-> <<>>]
Waiting == [pc |-> "idle", list |-> <<>>]

\* ChatRoomFrame: without a connection client_connection is never set; without
\* an answer to LOAD_SERVER_INFORMATION no channel is listed.
OpenRoom(connected, listed) ==
  /\ up /\ gui = Idle /\ ~room.open
  /\ listed => connected
  /\ room' = [open |-> TRUE, connected |-> connected, listed |-> listed]
  /\ UNCHANGED <<up, gui, rcv, panel, messages, drawn, events, inbox, history, host>>

\* A channel's button deletes the panel on show and builds another.
SelectChannel(c) ==
  /\ up /\ gui = Idle /\ room.listed
  /\ gui' = [Idle EXCEPT !.pc = IF panel = 0 THEN "connect" ELSE "cleanup", !.channel = c]
  /\ UNCHANGED <<up, room, rcv, panel, messages, drawn, events, inbox, history, host>>

\* ~ChatRoomFrame cleans its connection up, set or not; then the panel goes.
CloseRoom ==
  /\ up /\ gui = Idle /\ room.open
  /\ room' = Closed
  /\ up' = room.connected
  /\ gui' = [Idle EXCEPT !.pc = IF panel = 0 THEN "idle" ELSE "cleanup"]
  /\ UNCHANGED <<rcv, panel, messages, drawn, events, inbox, history, host>>

NoPanel ==
  /\ panel' = 0 /\ messages' = <<>> /\ drawn' = <<>> /\ history' = {}
  /\ events' = 0 /\ inbox' = {}

AfterCleanup == [gui EXCEPT !.pc = IF gui.channel = 0 THEN "idle" ELSE "connect"]

\* Mutant: the members are freed while a handler may still run.
CleanupAtOnce ==
  /\ up /\ gui.pc = "cleanup"
  /\ NoPanel /\ gui' = AfterCleanup
  /\ UNCHANGED <<up, room, rcv, host>>

\* ~ChatPanel: swiftnet_client_cleanup waits for the handler that is running;
\* only then do the members and the queued events go.
Cleanup ==
  /\ up /\ gui.pc = "cleanup" /\ rcv = Waiting
  /\ NoPanel /\ gui' = AfterCleanup
  /\ UNCHANGED <<up, room, rcv, host>>

\* Places in the log in the order of the log, which is that of the ids.
Place(S, i) == Cardinality({j \in S : j <= i})
InOrder(S) == [k \in 1..Cardinality(S) |-> CHOOSE i \in S : Place(S, i) = k]

PostedIn(c) == {i \in DOMAIN log : log[i].channel_id = c}
ChannelRows(c) == InOrder(PostedIn(c))

\* InitializeConnection, the handler (line 66) and the LOAD_CHANNEL_DATA request.
Connect ==
  /\ up /\ gui.pc = "connect"
  /\ panel' = gui.channel /\ gui' = [gui EXCEPT !.pc = "load"]
  /\ history' = PostedIn(gui.channel)
  /\ UNCHANGED <<up, room, rcv, messages, drawn, events, inbox, host>>

\* Line 230 returns and line 66 uses the connection that was not set.
ConnectFails ==
  /\ up /\ gui.pc = "connect" /\ up' = FALSE
  /\ UNCHANGED <<room, gui, rcv, panel, messages, drawn, events, inbox, history, host>>

\* The host answers; until the answer is assigned, updates can come in.
LoadReply ==
  /\ up /\ gui.pc = "load"
  /\ gui' = [gui EXCEPT !.pc = "assign", !.list = ChannelRows(panel)]
  /\ UNCHANGED <<up, room, rcv, panel, messages, drawn, events, inbox, history, host>>

\* No answer in time, or one that is not SUCCESS.
LoadFails ==
  /\ up /\ gui.pc = "load"
  /\ gui' = [gui EXCEPT !.pc = "redraw"] /\ history' = {}
  /\ UNCHANGED <<up, room, rcv, panel, messages, drawn, events, inbox, host>>

\* Line 185.
Assign ==
  /\ up /\ gui.pc = "assign"
  /\ messages' = gui.list /\ gui' = [gui EXCEPT !.pc = "redraw"]
  /\ UNCHANGED <<up, room, rcv, panel, drawn, events, inbox, history, host>>

\* RedrawMessages fixes the end of its loop when it begins.
RedrawBegin ==
  /\ up /\ gui.pc = "redraw"
  /\ gui' = [gui EXCEPT !.pc = "draw", !.list = messages]
  /\ UNCHANGED <<up, room, rcv, panel, messages, drawn, events, inbox, history, host>>

RedrawEnd ==
  /\ up /\ gui.pc = "draw"
  /\ drawn' = gui.list /\ gui' = Idle
  /\ UNCHANGED <<up, room, rcv, panel, messages, events, inbox, history, host>>

\* Mutant: the panel redraws without an event.
OnChatUpdateAnyTime ==
  /\ up /\ gui = Idle /\ panel # 0
  /\ events' = events - 1 /\ gui' = [gui EXCEPT !.pc = "redraw"]
  /\ UNCHANGED <<up, room, rcv, panel, messages, drawn, inbox, history, host>>

OnChatUpdate ==
  /\ up /\ gui = Idle /\ events > 0
  /\ events' = events - 1 /\ gui' = [gui EXCEPT !.pc = "redraw"]
  /\ UNCHANGED <<up, room, rcv, panel, messages, drawn, inbox, history, host>>

-----------------------------------------------------------------------------
(* The receive thread: packet_handler and HandlePeriodicChatUpdate *)

Receive(update) ==
  /\ up /\ rcv = Waiting
  /\ inbox' = inbox \ {update}
  /\ rcv' = [pc |-> "insert", list |-> update]
  /\ UNCHANGED <<up, room, gui, panel, messages, drawn, events, history, host>>

\* Mutant: the rows replace what was loaded.
InsertReplaces ==
  /\ up /\ rcv.pc = "insert"
  /\ messages' = rcv.list /\ rcv' = [rcv EXCEPT !.pc = "queue"]
  /\ UNCHANGED <<up, room, gui, panel, drawn, events, inbox, history, host>>

\* Mutant: no event follows.
InsertUnannounced ==
  /\ up /\ rcv.pc = "insert"
  /\ messages' = messages \o rcv.list /\ rcv' = Waiting
  /\ UNCHANGED <<up, room, gui, panel, drawn, events, inbox, history, host>>

\* Line 243.
Insert ==
  /\ up /\ rcv.pc = "insert"
  /\ messages' = messages \o rcv.list /\ rcv' = [rcv EXCEPT !.pc = "queue"]
  /\ UNCHANGED <<up, room, gui, panel, drawn, events, inbox, history, host>>

\* Line 243 moves the rows while the main thread copies or draws them.
InsertRace ==
  /\ up /\ rcv.pc = "insert" /\ gui.pc \in {"assign", "draw"}
  /\ up' = FALSE
  /\ UNCHANGED <<room, gui, rcv, panel, messages, drawn, events, inbox, history, host>>

\* Line 246.
QueueEvent ==
  /\ up /\ rcv.pc = "queue"
  /\ events' = events + 1 /\ rcv' = Waiting
  /\ UNCHANGED <<up, room, gui, panel, messages, drawn, inbox, history, host>>

-----------------------------------------------------------------------------
(* The host *)

Post(row) ==
  /\ Len(log) < MaxMessages
  /\ Host!Post(row)
  /\ UNCHANGED client

\* An update in the order of the ids; it reaches the panel, or another address
\* that the host still has for this user.
Update(S, arrives) ==
  /\ Host!Update("client", S)
  /\ arrives => panel # 0
  /\ inbox' = IF arrives THEN inbox \cup {InOrder(S)} ELSE inbox
  /\ UNCHANGED <<up, room, gui, rcv, panel, messages, drawn, events, history>>

-----------------------------------------------------------------------------
Init ==
  /\ up = TRUE /\ room = Closed
  /\ gui = Idle /\ rcv = Waiting
  /\ panel = 0 /\ messages = <<>> /\ drawn = <<>> /\ history = {}
  /\ events = 0 /\ inbox = {}
  /\ Host!Init

\* What the main thread does once a button or an event has started it.
GuiStep ==
  \/ Cleanup \/ Connect \/ ConnectFails \/ LoadReply \/ LoadFails \/ Assign
  \/ RedrawBegin \/ RedrawEnd

ReceiveStep == Insert \/ InsertRace \/ QueueEvent

Next ==
  \/ GuiStep \/ OnChatUpdate \/ ReceiveStep
  \/ \E connected, listed \in BOOLEAN : OpenRoom(connected, listed)
  \/ \E c \in Channels : SelectChannel(c)
  \/ CloseRoom
  \/ \E update \in inbox : Receive(update)
  \/ \E row \in [channel_id : Channels] : Post(row)
  \/ \E S \in SUBSET DOMAIN log, arrives \in BOOLEAN : Update(S, arrives)

Spec == Init /\ [][Next]_vars

\* Both threads run on, and wxWidgets handles the events that are queued; the
\* user does nothing he must do.
FairSpec ==
  Spec /\ WF_vars(GuiStep) /\ WF_vars(ReceiveStep) /\ WF_vars(OnChatUpdate)

-----------------------------------------------------------------------------
(* Properties *)

Pcs == {"idle", "cleanup", "connect", "load", "assign", "redraw", "draw"}

\* The type of every variable.
TypeOK ==
  /\ up \in BOOLEAN
  /\ room \in [open : BOOLEAN, connected : BOOLEAN, listed : BOOLEAN]
  /\ gui \in [pc : Pcs, channel : Channels \cup {0}, list : Seq(DOMAIN log)]
  /\ rcv \in [pc : {"idle", "insert", "queue"}, list : Seq(DOMAIN log)]
  /\ panel \in Channels \cup {0}
  /\ messages \in Seq(DOMAIN log) /\ drawn \in Seq(DOMAIN log)
  /\ events \in Nat
  /\ inbox \subseteq Seq(DOMAIN log)
  /\ history \subseteq DOMAIN log
  /\ log \in Seq([channel_id : Channels])
  /\ feed \in [{"client"} -> SUBSET DOMAIN log]

\* No handler runs, no event is queued and nothing is drawn for a panel that was
\* deleted: ~ChatPanel (chat_panel.cpp:122) cleans the connection up before the
\* members and the wxWindow go.
NothingAfterDelete ==
  panel = 0 => /\ rcv = Waiting /\ events = 0 /\ inbox = {}
               /\ messages = <<>> /\ drawn = <<>>
               /\ gui.pc \in {"idle", "connect"}

\* When nothing is left to do, the panel shows exactly the list it holds: the
\* event is queued after the insert (chat_panel.cpp:243-246), so a redraw that
\* missed the rows is followed by another.
DrawnWhenQuiet ==
  up /\ gui = Idle /\ rcv = Waiting /\ events = 0 => drawn = messages

Announced == rcv.pc = "queue" \/ events > 0

\* What the two properties above rest on: rows that a redraw missed are announced
\* (chat_panel.cpp:243-246), whatever the main thread is at.
Redrawn ==
  /\ DOMAIN gui = DOMAIN Idle /\ DOMAIN rcv = DOMAIN Waiting
  /\ events \in Nat /\ rcv.pc \in {"idle", "insert", "queue"}
  /\ NothingAfterDelete
  /\ gui.pc = "connect" => panel = 0 /\ gui.channel # 0
  /\ gui.pc \in {"cleanup", "load", "assign", "redraw", "draw"} => panel # 0
  /\ gui.pc \notin {"redraw", "draw"} => drawn = messages \/ Announced
  /\ gui.pc = "draw" => gui.list = messages \/ Announced

HasHistory(rows) == \A i \in history : \E j \in DOMAIN rows : rows[j] = i

\* If the channel was loaded, an idle panel shows every message of the channel
\* that was posted before the panel was built, whatever came in meanwhile.
HistoryIsShown ==
  up /\ gui = Idle /\ panel # 0 => HasHistory(drawn)

\* Where the history is while the main thread is on its way: in the answer, in
\* the list once that is assigned, in what RedrawMessages goes through.
HistoryKept ==
  /\ gui.pc = "load" => history \subseteq PostedIn(panel)
  /\ gui.pc = "assign" => HasHistory(gui.list)
  /\ gui.pc \in {"redraw", "draw"} => HasHistory(messages)
  /\ gui.pc = "draw" => HasHistory(gui.list)
  /\ gui.pc = "idle" /\ panel # 0 => HasHistory(messages) /\ HasHistory(drawn)

\* The panel's invariant: types, announcements and the history, together
\* inductive.
PanelInv == TypeOK /\ Redrawn /\ HistoryKept

\* A row in the list is drawn in the end, unless the channel's answer replaces
\* the list (chat_panel.cpp:185), the panel is deleted or the process ends.
RowsAreDrawn ==
  \A i \in 1..MaxMessages :
    (\E j \in DOMAIN messages : messages[j] = i)
      ~> \/ ~up
         \/ \E j \in DOMAIN drawn : drawn[j] = i
         \/ \A j \in DOMAIN messages : messages[j] # i
=============================================================================
