------------------------------ MODULE AdminMenu ------------------------------
(***************************************************************************)
(* The admin menu windows of one client (admin_menu_frame.cpp and          *)
(* channels_panel.cpp) and of the host what answers them                   *)
(* (hosted_server.cpp, HandleLoadAdminMenuDataRequest and                  *)
(* HandleCreateNewChannelRequest).                                         *)
(*                                                                         *)
(* All windows belong to the client's main thread, which waits for each    *)
(* answer.  A request or its answer may be lost, and the host may handle a *)
(* creation that the client gave up.  Another client adds channels too.    *)
(*                                                                         *)
(* A channel is abstracted to the press of Create that asked for it, 0 for *)
(* another client's; its name changes nothing.  A name that is empty or    *)
(* longer than 20 ends the dialog before a request is made and is no step. *)
(***************************************************************************)
EXTENDS Integers, Sequences, SequencesExt, FiniteSets

CONSTANTS
  MaxChannels,  \* bound on the rows of server_chat_channels
  MaxPresses,   \* bound on the presses of Create
  MaxFrames     \* bound on the windows opened by one process

ASSUME MenuAssumption ==
  MaxChannels \in Nat /\ MaxPresses \in Nat /\ MaxFrames \in Nat

VARIABLES
  channels,  \* this server's rows of server_chat_channels
  serving,   \* the host runs the server
  late,      \* creations that the client no longer waits for
  up,        \* the client process is running
  frames,    \* every window opened by this process
  menus,     \* the static array of SelectedMenuChange: whose panel, 0 before it is set
  gui,       \* the main thread
  presses    \* presses of Create so far

host == <<channels, serving, late>>
vars == <<host, up, frames, menus, gui, presses>>

Idle == [pc |-> "idle", at |-> 0, press |-> 0, row |-> 0, answer |-> <<>>]

\* shown: until it is closed.  panel: channels_panel was created, otherwise the
\* pointer is never set.  active: whose panel active_menu is, 0 for nullptr.  rows:
\* the list drawn.  acked: the rows of creations that were answered with SUCCESS.
NewFrame(panel) ==
  [shown |-> TRUE, panel |-> panel, active |-> 0, rows |-> <<>>, acked |-> {}]

Shown == {w \in DOMAIN frames : frames[w].shown}
Alive(w) == w \in Shown /\ frames[w].panel

-----------------------------------------------------------------------------
(* The host *)

ToggleServing ==
  /\ serving' = ~serving
  /\ UNCHANGED <<channels, late, up, frames, menus, gui, presses>>

\* Mutant: channels_size is one too many, so that a row behind the packet is read.
HandleLoadOneMore ==
  /\ serving /\ gui.pc = "load"
  /\ gui' = [gui EXCEPT !.pc = "loaded", !.answer = Append(channels, MaxPresses + 1)]
  /\ UNCHANGED <<host, up, frames, menus, presses>>

HandleLoadAdminMenuData ==
  /\ serving /\ gui.pc = "load"
  /\ gui' = [gui EXCEPT !.pc = "loaded", !.answer = channels]
  /\ UNCHANGED <<host, up, frames, menus, presses>>

InsertServerChatChannel(press) ==
  Len(channels) < MaxChannels /\ channels' = Append(channels, press)

HandleCreateNewChannel ==
  /\ serving /\ gui.pc = "create"
  /\ \/ /\ InsertServerChatChannel(gui.press)
        /\ gui' = [gui EXCEPT !.pc = "created", !.row = Len(channels')]
     \/ gui' = [gui EXCEPT !.pc = "failed"] /\ UNCHANGED channels
  /\ UNCHANGED <<serving, late, up, frames, menus, presses>>

\* A creation that the client gave up, or another client's.
HandleLateCreate ==
  /\ serving
  /\ \E press \in late \cup {0} : InsertServerChatChannel(press) /\ late' = late \ {press}
  /\ UNCHANGED <<serving, up, frames, menus, gui, presses>>

-----------------------------------------------------------------------------
(* The windows *)

\* The creation that the client stops waiting for, when the host may still get it.
GivenUp == IF gui.pc = "create" THEN late \cup {gui.press} ELSE late

ProcessEnds ==
  /\ up' = FALSE /\ frames' = <<>> /\ menus' = 0 /\ gui' = Idle
  /\ late' = GivenUp
  /\ UNCHANGED <<channels, serving, presses>>

\* The array is initialised once, from the first window that gets here.  A panel of a
\* closed window, or a pointer that was never set, ends the process.
SelectedMenuChange(w, f) ==
  LET own == IF f[w].panel THEN w ELSE 0
      menu == IF menus = 0 THEN own ELSE menus
  IN  \/ /\ f[w].active # 0 => Alive(f[w].active)
         /\ Alive(menu)
         /\ menus' = menu
         /\ frames' = [f EXCEPT ![w].active = menu]
         /\ gui' = Idle /\ UNCHANGED <<host, up, presses>>
      \/ ~(Alive(menu) /\ (f[w].active # 0 => Alive(f[w].active))) /\ ProcessEnds

\* A press of Admin in the servers panel, constructor lines 9-26: the connection may
\* fail, which leaves a window without a panel; otherwise the channels are loaded.
OpenFrame ==
  /\ up /\ gui = Idle /\ Len(frames) < MaxFrames
  /\ \E panel \in BOOLEAN :
       /\ panel => serving
       /\ frames' = Append(frames, NewFrame(panel))
       /\ gui' = IF panel THEN [Idle EXCEPT !.pc = "load", !.at = Len(frames')] ELSE Idle
  /\ UNCHANGED <<host, up, menus, presses>>

\* Mutant: the array forgets the panel of a window that is closed.
CloseFrameResets(w) ==
  /\ gui = Idle /\ w \in Shown
  /\ frames' = [frames EXCEPT ![w].shown = FALSE]
  /\ menus' = IF menus = w THEN 0 ELSE menus
  /\ UNCHANGED <<host, up, gui, presses>>

\* The panel goes with its window, the connection stays.
CloseFrame(w) ==
  /\ gui = Idle /\ w \in Shown
  /\ frames' = [frames EXCEPT ![w].shown = FALSE]
  /\ UNCHANGED <<host, up, menus, gui, presses>>

\* The only button of the menu bar.
ClickMenu(w) == gui = Idle /\ w \in Shown /\ SelectedMenuChange(w, frames)

\* LoadChannels and DrawChannelList.  The constructor goes on to SelectedMenuChange.
Draw(rows) ==
  LET w == gui.at
      f == [frames EXCEPT ![w].rows = rows]
  IN  IF frames[w].active = 0 THEN SelectedMenuChange(w, f)
      ELSE frames' = f /\ gui' = Idle /\ UNCHANGED <<host, up, menus, presses>>

\* Mutant: the list is not cleared first.
LoadAnsweredAppends ==
  gui.pc = "loaded" /\ Draw(frames[gui.at].rows \o gui.answer)

LoadAnswered == gui.pc = "loaded" /\ Draw(gui.answer)

\* Lines 89-91: the list was cleared already.
LoadTimeout == gui.pc \in {"load", "loaded"} /\ Draw(<<>>)

\* The dialog of OnAddChannel ends with Create.
PressCreate(w) ==
  /\ gui = Idle /\ Alive(w) /\ frames[w].active # 0
  /\ presses < MaxPresses
  /\ presses' = presses + 1
  /\ gui' = [Idle EXCEPT !.pc = "create", !.at = w, !.press = presses']
  /\ UNCHANGED <<host, up, frames, menus>>

Acknowledged == [frames EXCEPT ![gui.at].acked = @ \cup {gui.row}]

\* Mutant: the list is not loaded again.
CreateSucceededUnloaded ==
  /\ gui.pc = "created"
  /\ frames' = Acknowledged /\ gui' = Idle
  /\ UNCHANGED <<host, up, menus, presses>>

\* Lines 161-163 and 218.
CreateSucceeded ==
  /\ gui.pc = "created"
  /\ frames' = Acknowledged
  /\ gui' = [Idle EXCEPT !.pc = "load", !.at = gui.at]
  /\ UNCHANGED <<host, up, menus, presses>>

\* Mutant: the request is sent again until it is answered.
CreateTimeoutRetries ==
  /\ gui.pc \in {"create", "created", "failed"}
  /\ gui' = [gui EXCEPT !.pc = "create", !.row = 0]
  /\ late' = GivenUp
  /\ UNCHANGED <<channels, serving, up, frames, menus, presses>>

\* Lines 148-150, 155-158 and 214-216: FAIL, or no answer.
CreateTimeout ==
  /\ gui.pc \in {"create", "created", "failed"}
  /\ gui' = Idle
  /\ late' = GivenUp
  /\ UNCHANGED <<channels, serving, up, frames, menus, presses>>

Crash == up /\ ProcessEnds

Launch ==
  /\ ~up /\ up' = TRUE
  /\ UNCHANGED <<host, frames, menus, gui, presses>>

-----------------------------------------------------------------------------
Init ==
  /\ channels = <<>> /\ serving = FALSE /\ late = {}
  /\ up = FALSE /\ frames = <<>> /\ menus = 0 /\ gui = Idle /\ presses = 0

\* The main thread after a request.
Waited == LoadAnswered \/ LoadTimeout \/ CreateSucceeded \/ CreateTimeout

Next ==
  \/ ToggleServing \/ HandleLoadAdminMenuData \/ HandleCreateNewChannel \/ HandleLateCreate
  \/ OpenFrame \/ Waited
  \/ \E w \in DOMAIN frames : CloseFrame(w) \/ ClickMenu(w) \/ PressCreate(w)
  \/ Crash \/ Launch

Spec == Init /\ [][Next]_vars

-----------------------------------------------------------------------------
(* Properties *)

Rows == Seq(0..MaxPresses)
Frame == [shown : BOOLEAN, panel : BOOLEAN, active : 0..MaxFrames, rows : Rows,
          acked : SUBSET (1..MaxChannels)]

\* The type of every variable.
TypeOK ==
  /\ channels \in Rows /\ Len(channels) <= MaxChannels
  /\ serving \in BOOLEAN /\ up \in BOOLEAN
  /\ late \subseteq 1..MaxPresses
  /\ frames \in Seq(Frame) /\ Len(frames) <= MaxFrames
  /\ menus \in 0..MaxFrames /\ presses \in 0..MaxPresses
  /\ gui \in [pc : {"idle", "load", "loaded", "create", "created", "failed"},
              at : 0..MaxFrames, press : 0..MaxPresses, row : 0..MaxChannels,
              answer : Rows]

\* Every list drawn is the beginning of the host's table: a reload clears what was
\* listed (line 71), and a late answer is never added to a newer one.
ListIsServed == \A w \in DOMAIN frames : IsPrefix(frames[w].rows, channels)

\* A window that lists anything lists every channel whose creation was acknowledged
\* to it, however requests, timeouts and other clients' creations interleave; only an
\* unanswered reload, which leaves the list empty, hides one.
AckedIsListed ==
  gui = Idle =>
    \A w \in DOMAIN frames : frames[w].rows # <<>> =>
      \A row \in frames[w].acked : row \in DOMAIN frames[w].rows /\ frames[w].rows[row] # 0

\* One press of Create adds at most one channel, although the client may be told of a
\* failure and the host still add it; what was acknowledged is in the table.
OncePerPress ==
  /\ \A i, j \in DOMAIN channels : channels[i] = channels[j] /\ channels[i] # 0 => i = j
  /\ \A w \in DOMAIN frames : frames[w].acked \subseteq DOMAIN channels

\* While the window is open whose panel the static array holds, the active_menu of every
\* window is that panel or none yet, so that a click in any of them finds it alive.
MenusAgree ==
  menus # 0 /\ Alive(menus) => \A w \in Shown : frames[w].active \in {0, menus}
=============================================================================
