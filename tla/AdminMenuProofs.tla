--------------------------- MODULE AdminMenuProofs ---------------------------
(***************************************************************************)
(* Proofs about AdminMenu, for any number of windows, channels and presses *)
(* of Create: what is listed, what was acknowledged and whose panel is     *)
(* shown.  Menu is the inductive invariant.                                *)
(***************************************************************************)
EXTENDS AdminMenu, TLAPS

\* A list of rows that are the host's rows of the same places.
Shows(rows) == \A i \in DOMAIN rows : i \in DOMAIN channels /\ rows[i] = channels[i]

\* A press is at one place only: at the client, on its way to the host, or in the table.
PressesOK ==
  /\ late \subseteq 1..presses
  /\ \A i \in DOMAIN channels : channels[i] \in 0..presses /\ channels[i] \notin late
  /\ \A i, j \in DOMAIN channels : channels[i] = channels[j] /\ channels[i] # 0 => i = j
  /\ gui.pc = "create" =>
       /\ gui.press \in 1..presses /\ gui.press \notin late
       /\ \A i \in DOMAIN channels : channels[i] # gui.press
  /\ gui.pc = "created" => gui.row \in DOMAIN channels /\ channels[gui.row] # 0

\* A window shows rows of the table, was acknowledged rows of the table, and has the
\* panel of the static array or none.
FrameOK(frame) ==
  /\ Shows(frame.rows)
  /\ \A row \in frame.acked : row \in DOMAIN channels /\ channels[row] # 0
  /\ frame.active \in {0, menus}

\* The request under way belongs to a window, and its answer has all that the window
\* was acknowledged.
AnswerOK ==
  /\ gui.pc # "idle" => gui.at \in DOMAIN frames
  /\ gui.pc = "loaded" =>
       Shows(gui.answer) /\ frames[gui.at].acked \subseteq DOMAIN gui.answer

WindowsOK == AnswerOK /\ \A w \in DOMAIN frames : FrameOK(frames[w])

\* Only a window whose list is being loaded may lack what it was acknowledged.
ListedOK ==
  \A w \in DOMAIN frames :
    \/ gui.pc \in {"load", "loaded"} /\ gui.at = w
    \/ frames[w].rows = <<>>
    \/ frames[w].acked \subseteq DOMAIN frames[w].rows

\* The inductive invariant.
Menu == TypeOK /\ PressesOK /\ WindowsOK /\ ListedOK

-----------------------------------------------------------------------------
(* The pieces *)

Gui == [pc : {"idle", "load", "loaded", "create", "created", "failed"},
        at : 0..MaxFrames, press : 0..MaxPresses, row : 0..MaxChannels, answer : Rows]

\* Idle is a state of the main thread.
LEMMA IdleType == Idle \in Gui
  BY MenuAssumption DEF Idle, Gui, Rows

\* A window that is changed stays a window, and no other is.
LEMMA UpdateFrame ==
  ASSUME NEW f \in Seq(Frame), NEW w \in DOMAIN f, NEW x \in Frame
  PROVE  /\ [f EXCEPT ![w] = x] \in Seq(Frame)
         /\ Len([f EXCEPT ![w] = x]) = Len(f)
         /\ DOMAIN [f EXCEPT ![w] = x] = DOMAIN f
         /\ [f EXCEPT ![w] = x][w] = x
         /\ \A v \in DOMAIN f : v # w => [f EXCEPT ![w] = x][v] = f[v]
  OBVIOUS

\* Each component of a window that the code assigns.
LEMMA FrameComponents ==
  ASSUME NEW x \in Frame
  PROVE  /\ \A rows \in Rows :
              /\ [x EXCEPT !.rows = rows] \in Frame
              /\ [x EXCEPT !.rows = rows].rows = rows
              /\ [x EXCEPT !.rows = rows].acked = x.acked
              /\ [x EXCEPT !.rows = rows].active = x.active
         /\ \A w \in 0..MaxFrames :
              /\ [x EXCEPT !.active = w] \in Frame
              /\ [x EXCEPT !.active = w].active = w
              /\ [x EXCEPT !.active = w].rows = x.rows
              /\ [x EXCEPT !.active = w].acked = x.acked
         /\ /\ [x EXCEPT !.shown = FALSE] \in Frame
            /\ [x EXCEPT !.shown = FALSE].rows = x.rows
            /\ [x EXCEPT !.shown = FALSE].acked = x.acked
            /\ [x EXCEPT !.shown = FALSE].active = x.active
         /\ \A row \in 1..MaxChannels :
              /\ [x EXCEPT !.acked = @ \cup {row}] \in Frame
              /\ [x EXCEPT !.acked = @ \cup {row}].acked = x.acked \cup {row}
              /\ [x EXCEPT !.acked = @ \cup {row}].rows = x.rows
              /\ [x EXCEPT !.acked = @ \cup {row}].active = x.active
  BY DEF Frame

\* A panel that is shown belongs to a window.
LEMMA AliveIsWindow ==
  ASSUME TypeOK, NEW w, Alive(w)
  PROVE  w \in DOMAIN frames /\ w \in 1..MaxFrames
  BY MenuAssumption DEF Alive, Shown, TypeOK

\* SelectedMenuChange gives a window the panel of the static array, which is set for
\* good, or ends the process.
LEMMA SelectEffect ==
  ASSUME TypeOK, NEW f \in Seq(Frame), NEW w \in DOMAIN f, SelectedMenuChange(w, f)
  PROVE  \/ ProcessEnds
         \/ /\ menus' \in 1..MaxFrames /\ menus \in {0, menus'}
            /\ frames' = [f EXCEPT ![w] = [f[w] EXCEPT !.active = menus']]
            /\ gui' = Idle /\ UNCHANGED <<host, up, presses>>
  <1> DEFINE own == IF f[w].panel THEN w ELSE 0
             menu == IF menus = 0 THEN own ELSE menus
  <1>1. CASE ~ProcessEnds
    <2>1. /\ Alive(menu) /\ menus' = menu
          /\ frames' = [f EXCEPT ![w] = [f[w] EXCEPT !.active = menu]]
          /\ gui' = Idle /\ UNCHANGED <<host, up, presses>>
      BY <1>1 DEF SelectedMenuChange
    <2>2. menu \in 1..MaxFrames
      BY <2>1, AliveIsWindow
    <2> QED BY <2>1, <2>2
  <1> QED BY <1>1

\* The result of SelectedMenuChange on one window.
LEMMA SelectedFrames ==
  ASSUME NEW f \in Seq(Frame), NEW w \in DOMAIN f, NEW m \in 1..MaxFrames,
         NEW g, g = [f EXCEPT ![w] = [f[w] EXCEPT !.active = m]]
  PROVE  /\ g \in Seq(Frame) /\ Len(g) = Len(f) /\ DOMAIN g = DOMAIN f
         /\ \A v \in DOMAIN f :
              /\ g[v].rows = f[v].rows /\ g[v].acked = f[v].acked
              /\ g[v].active \in {m, f[v].active}
  <1>1. f[w] \in Frame /\ m \in 0..MaxFrames
    BY MenuAssumption
  <1>2. PICK x : x = [f[w] EXCEPT !.active = m]
    OBVIOUS
  <1>3. x \in Frame /\ x.rows = f[w].rows /\ x.acked = f[w].acked /\ x.active = m
    BY <1>1, <1>2, FrameComponents
  <1>4. g = [f EXCEPT ![w] = x]
    BY <1>2
  <1>5. /\ g \in Seq(Frame) /\ Len(g) = Len(f) /\ DOMAIN g = DOMAIN f
        /\ g[w] = x /\ \A v \in DOMAIN f : v # w => g[v] = f[v]
    <2>1. x \in Frame
      BY <1>3
    <2> QED BY <1>4, <2>1, UpdateFrame
  <1> QED BY <1>3, <1>5

\* What a step does to the table: nothing, or one row at its end.
LEMMA ChannelsGrow ==
  ASSUME TypeOK, NEW p \in 0..MaxPresses, InsertServerChatChannel(p)
  PROVE  /\ channels' \in Rows /\ Len(channels') <= MaxChannels
         /\ Len(channels') = Len(channels) + 1 /\ Len(channels) \in Nat
         /\ DOMAIN channels = 1..Len(channels)
         /\ DOMAIN channels' = 1..(Len(channels) + 1)
         /\ \A i \in DOMAIN channels : channels'[i] = channels[i]
         /\ channels'[Len(channels) + 1] = p
         /\ Len(channels') \in 1..MaxChannels
  <1>1. channels \in Seq(0..MaxPresses) /\ channels' = Append(channels, p)
        /\ Len(channels) < MaxChannels
    BY DEF TypeOK, Rows, InsertServerChatChannel
  <1> QED BY <1>1, MenuAssumption DEF Rows

-----------------------------------------------------------------------------
(* What the steps do *)

\* A process that ends takes its windows with it; only a creation on its way is left.
LEMMA EndsType ==
  ASSUME TypeOK, PressesOK, ProcessEnds
  PROVE  /\ frames' = <<>> /\ menus' = 0 /\ gui' = Idle /\ late' = GivenUp
         /\ late' \subseteq 1..MaxPresses
         /\ UNCHANGED <<channels, serving, presses>>
         /\ up' = FALSE
  <1>1. late' = GivenUp
    BY DEF ProcessEnds
  <1>2. GivenUp \subseteq 1..MaxPresses
    <2>1. presses \in 0..MaxPresses /\ late \subseteq 1..MaxPresses /\ MaxPresses \in Nat
      BY MenuAssumption DEF TypeOK
    <2>2. gui.pc = "create" => gui.press \in 1..presses
      BY DEF PressesOK
    <2>3. \A p \in 1..presses : p \in 1..MaxPresses
      BY <2>1
    <2>4. CASE gui.pc = "create"
      BY <2>1, <2>2, <2>3, <2>4 DEF GivenUp
    <2>5. CASE gui.pc # "create"
      BY <2>1, <2>5 DEF GivenUp
    <2> QED BY <2>4, <2>5
  <1> QED BY <1>1, <1>2 DEF ProcessEnds

\* The list that a reload or a timeout draws goes to the window that waited, which then
\* may get its panel.
LEMMA DrawEffect ==
  ASSUME TypeOK, gui.at \in DOMAIN frames, NEW rows \in Rows, Draw(rows)
  PROVE  \/ ProcessEnds
         \/ /\ gui' = Idle /\ UNCHANGED <<channels, serving, late, up, presses>>
            /\ menus' \in 0..MaxFrames /\ menus \in {0, menus'}
            /\ frames' \in Seq(Frame) /\ Len(frames') = Len(frames)
            /\ DOMAIN frames' = DOMAIN frames
            /\ frames'[gui.at].rows = rows
            /\ \A w \in DOMAIN frames :
                 /\ frames'[w].acked = frames[w].acked
                 /\ frames'[w].active \in {menus', frames[w].active}
                 /\ w # gui.at => frames'[w].rows = frames[w].rows
  <1> DEFINE w == gui.at
             x == [frames[w] EXCEPT !.rows = rows]
             drawn == [frames EXCEPT ![w] = x]
  <1>1. frames \in Seq(Frame) /\ frames[w] \in Frame /\ menus \in 0..MaxFrames
    BY DEF TypeOK
  <1>2. x \in Frame /\ x.rows = rows /\ x.acked = frames[w].acked /\ x.active = frames[w].active
    BY <1>1, FrameComponents
  <1>3. /\ drawn \in Seq(Frame) /\ Len(drawn) = Len(frames) /\ DOMAIN drawn = DOMAIN frames /\ drawn[w] = x
        /\ \A v \in DOMAIN frames : v # w => drawn[v] = frames[v]
    <2> HIDE DEF x
    <2> QED BY <1>1, <1>2, UpdateFrame
  <1>4. \/ SelectedMenuChange(w, drawn)
        \/ frames' = drawn /\ gui' = Idle /\ UNCHANGED <<host, up, menus, presses>>
    BY DEF Draw
  <1> HIDE DEF x, drawn
  <1>5. CASE frames' = drawn /\ gui' = Idle /\ UNCHANGED <<host, up, menus, presses>>
    BY <1>1, <1>2, <1>3, <1>5 DEF host
  <1>6. CASE SelectedMenuChange(w, drawn) /\ ~ProcessEnds
    <2>1. /\ menus' \in 1..MaxFrames /\ menus \in {0, menus'}
          /\ frames' = [drawn EXCEPT ![w] = [drawn[w] EXCEPT !.active = menus']]
          /\ gui' = Idle /\ UNCHANGED <<host, up, presses>>
      BY <1>3, <1>6, SelectEffect
    <2>2. /\ frames' \in Seq(Frame) /\ Len(frames') = Len(drawn) /\ DOMAIN frames' = DOMAIN drawn
          /\ \A v \in DOMAIN drawn :
               /\ frames'[v].rows = drawn[v].rows /\ frames'[v].acked = drawn[v].acked
               /\ frames'[v].active \in {menus', drawn[v].active}
      <3>1. drawn \in Seq(Frame) /\ w \in DOMAIN drawn /\ menus' \in 1..MaxFrames
        BY <1>3, <2>1
      <3>2. PICK d : d = drawn
        OBVIOUS
      <3>3. /\ d \in Seq(Frame) /\ w \in DOMAIN d
            /\ frames' = [d EXCEPT ![w] = [d[w] EXCEPT !.active = menus']]
        BY <2>1, <3>1, <3>2
      <3>4. /\ frames' \in Seq(Frame) /\ Len(frames') = Len(d) /\ DOMAIN frames' = DOMAIN d
            /\ \A v \in DOMAIN d :
                 /\ frames'[v].rows = d[v].rows /\ frames'[v].acked = d[v].acked
                 /\ frames'[v].active \in {menus', d[v].active}
        BY <3>1, <3>3, SelectedFrames
      <3> QED BY <3>2, <3>4
    <2> QED BY <1>2, <1>3, <2>1, <2>2, MenuAssumption DEF host
  <1> QED BY <1>4, <1>5, <1>6

\* What a press of the menu's button does.
LEMMA ClickEffect ==
  ASSUME TypeOK, NEW w \in DOMAIN frames, ClickMenu(w)
  PROVE  \/ ProcessEnds
         \/ /\ gui' = Idle /\ UNCHANGED <<channels, serving, late, up, presses>>
            /\ menus' \in 0..MaxFrames /\ menus \in {0, menus'}
            /\ frames' \in Seq(Frame) /\ Len(frames') = Len(frames)
            /\ DOMAIN frames' = DOMAIN frames
            /\ \A v \in DOMAIN frames :
                 /\ frames'[v].acked = frames[v].acked
                 /\ frames'[v].active \in {menus', frames[v].active}
                 /\ frames'[v].rows = frames[v].rows
  <1>1. CASE ~ProcessEnds
    <2>1. frames \in Seq(Frame)
      BY DEF TypeOK
    <2>2. /\ menus' \in 1..MaxFrames /\ menus \in {0, menus'}
          /\ frames' = [frames EXCEPT ![w] = [frames[w] EXCEPT !.active = menus']]
          /\ gui' = Idle /\ UNCHANGED <<host, up, presses>>
      BY <1>1, <2>1, SelectEffect DEF ClickMenu
    <2>3. /\ frames' \in Seq(Frame) /\ Len(frames') = Len(frames)
          /\ DOMAIN frames' = DOMAIN frames
          /\ \A v \in DOMAIN frames :
               /\ frames'[v].rows = frames[v].rows /\ frames'[v].acked = frames[v].acked
               /\ frames'[v].active \in {menus', frames[v].active}
      BY <2>1, <2>2, SelectedFrames
    <2> QED BY <2>2, <2>3, MenuAssumption DEF host
  <1> QED BY <1>1

\* A new window is shown without a list and without a panel in its place.
LEMMA OpenEffect ==
  ASSUME TypeOK, OpenFrame
  PROVE  /\ UNCHANGED <<channels, serving, late, up, menus, presses>>
         /\ frames' \in Seq(Frame) /\ Len(frames') <= MaxFrames
         /\ DOMAIN frames' = 1..(Len(frames) + 1) /\ DOMAIN frames = 1..Len(frames)
         /\ \A w \in DOMAIN frames : frames'[w] = frames[w]
         /\ LET new == frames'[Len(frames) + 1]
            IN  new.rows = <<>> /\ new.acked = {} /\ new.active = 0
         /\ gui' \in Gui /\ gui.pc = "idle"
         /\ gui'.pc = "idle" \/ (gui'.pc = "load" /\ gui'.at \in DOMAIN frames')
  <1>1. PICK panel \in BOOLEAN :
          /\ frames' = Append(frames, NewFrame(panel))
          /\ gui' = IF panel THEN [Idle EXCEPT !.pc = "load", !.at = Len(frames')] ELSE Idle
    BY DEF OpenFrame
  <1>2. frames \in Seq(Frame) /\ Len(frames) < MaxFrames
    BY DEF OpenFrame, TypeOK
  <1>3. /\ NewFrame(panel) \in Frame /\ NewFrame(panel).rows = <<>>
        /\ NewFrame(panel).acked = {} /\ NewFrame(panel).active = 0
    BY MenuAssumption DEF NewFrame, Frame, Rows
  <1>4. /\ frames' \in Seq(Frame) /\ Len(frames') = Len(frames) + 1 /\ Len(frames) \in Nat
        /\ DOMAIN frames' = 1..(Len(frames) + 1) /\ DOMAIN frames = 1..Len(frames)
        /\ \A w \in DOMAIN frames : frames'[w] = frames[w]
        /\ frames'[Len(frames) + 1] = NewFrame(panel)
    <2> HIDE DEF NewFrame
    <2> QED BY <1>1, <1>2, <1>3
  <1>5. Len(frames') \in 0..MaxFrames /\ Len(frames') \in DOMAIN frames'
    BY <1>2, <1>4, MenuAssumption
  <1>6. /\ gui' \in Gui
        /\ gui'.pc = "idle" \/ (gui'.pc = "load" /\ gui'.at \in DOMAIN frames')
    <2>1. CASE panel
      <3>1. gui' = [pc |-> "load", at |-> Len(frames'), press |-> 0, row |-> 0,
                    answer |-> <<>>]
        BY <1>1, <2>1 DEF Idle
      <3>2. <<>> \in Rows /\ 0 \in 0..MaxPresses /\ 0 \in 0..MaxChannels
        BY MenuAssumption DEF Rows
      <3> QED BY <1>5, <3>1, <3>2 DEF Gui
    <2>2. CASE ~panel
      BY <1>1, <2>2, IdleType DEF Idle
    <2> QED BY <2>1, <2>2
  <1>7. gui.pc = "idle" /\ UNCHANGED <<channels, serving, late, up, menus, presses>>
    BY DEF OpenFrame, Idle, host
  <1> QED BY <1>2, <1>3, <1>4, <1>5, <1>6, <1>7

\* A window that is closed stays in the list of windows.
LEMMA CloseEffect ==
  ASSUME TypeOK, NEW w \in DOMAIN frames, CloseFrame(w)
  PROVE  /\ UNCHANGED <<channels, serving, late, up, menus, gui, presses>> /\ gui = Idle
         /\ frames' \in Seq(Frame) /\ Len(frames') = Len(frames)
         /\ DOMAIN frames' = DOMAIN frames
         /\ \A v \in DOMAIN frames :
              /\ frames'[v].acked = frames[v].acked
              /\ frames'[v].active = frames[v].active
              /\ frames'[v].rows = frames[v].rows
  <1>1. frames \in Seq(Frame) /\ frames[w] \in Frame
    BY DEF TypeOK
  <1>2. PICK x : x = [frames[w] EXCEPT !.shown = FALSE]
    OBVIOUS
  <1>3. /\ x \in Frame /\ x.rows = frames[w].rows /\ x.acked = frames[w].acked
        /\ x.active = frames[w].active
    BY <1>1, <1>2, FrameComponents
  <1>4. frames' = [frames EXCEPT ![w] = x]
    BY <1>2 DEF CloseFrame
  <1>5. /\ frames' \in Seq(Frame) /\ Len(frames') = Len(frames)
        /\ DOMAIN frames' = DOMAIN frames /\ frames'[w] = x
        /\ \A v \in DOMAIN frames : v # w => frames'[v] = frames[v]
    <2>1. x \in Frame
      BY <1>3
    <2> QED BY <1>1, <1>4, <2>1, UpdateFrame
  <1> QED BY <1>3, <1>5 DEF CloseFrame, host

\* An acknowledged creation is noted at its window, whose list is loaded again.
LEMMA AcknowledgeEffect ==
  ASSUME TypeOK, gui.at \in DOMAIN frames, gui.row \in DOMAIN channels, CreateSucceeded
  PROVE  /\ UNCHANGED <<channels, serving, late, up, menus, presses>>
         /\ gui' \in Gui /\ gui'.pc = "load" /\ gui'.at = gui.at /\ gui.pc = "created"
         /\ frames' \in Seq(Frame) /\ Len(frames') = Len(frames)
         /\ DOMAIN frames' = DOMAIN frames
         /\ frames'[gui.at].acked = frames[gui.at].acked \cup {gui.row}
         /\ \A v \in DOMAIN frames :
              /\ v # gui.at => frames'[v].acked = frames[v].acked
              /\ frames'[v].active = frames[v].active
              /\ frames'[v].rows = frames[v].rows
  <1>1. frames \in Seq(Frame) /\ frames[gui.at] \in Frame /\ gui.at \in 0..MaxFrames
    BY DEF TypeOK
  <1>2. gui.row \in 1..MaxChannels
    BY MenuAssumption DEF TypeOK, Rows
  <1>3. PICK x : x = [frames[gui.at] EXCEPT !.acked = @ \cup {gui.row}]
    OBVIOUS
  <1>4. /\ x \in Frame /\ x.rows = frames[gui.at].rows
        /\ x.acked = frames[gui.at].acked \cup {gui.row} /\ x.active = frames[gui.at].active
    BY <1>1, <1>2, <1>3, FrameComponents
  <1>5. frames' = [frames EXCEPT ![gui.at] = x]
    BY <1>3 DEF CreateSucceeded, Acknowledged
  <1>6. /\ frames' \in Seq(Frame) /\ Len(frames') = Len(frames)
        /\ DOMAIN frames' = DOMAIN frames /\ frames'[gui.at] = x
        /\ \A v \in DOMAIN frames : v # gui.at => frames'[v] = frames[v]
    <2>1. x \in Frame
      BY <1>4
    <2> QED BY <1>1, <1>5, <2>1, UpdateFrame
  <1>7. /\ gui' \in Gui /\ gui'.pc = "load" /\ gui'.at = gui.at /\ gui.pc = "created"
    <2>1. gui' = [pc |-> "load", at |-> gui.at, press |-> 0, row |-> 0, answer |-> <<>>]
      BY DEF CreateSucceeded, Idle
    <2>2. <<>> \in Rows /\ 0 \in 0..MaxPresses /\ 0 \in 0..MaxChannels
      BY MenuAssumption DEF Rows
    <2>3. gui' \in Gui /\ gui'.pc = "load" /\ gui'.at = gui.at
      BY <1>1, <2>1, <2>2 DEF Gui
    <2> QED BY <2>3 DEF CreateSucceeded
  <1> QED BY <1>4, <1>6, <1>7 DEF CreateSucceeded, host

-----------------------------------------------------------------------------
(* Every step keeps the inductive invariant *)

\* The end of the process, from whatever it was doing.
LEMMA EndsKeep ==
  ASSUME Menu, ProcessEnds PROVE Menu'
  <1>1. /\ frames' = <<>> /\ menus' = 0 /\ gui' = Idle /\ late' = GivenUp
        /\ late' \subseteq 1..MaxPresses /\ UNCHANGED <<channels, serving, presses>>
        /\ up' = FALSE
    BY EndsType DEF Menu
  <1>2. gui'.pc = "idle"
    BY <1>1 DEF Idle
  <1>3. TypeOK'
    <2>1. frames' \in Seq(Frame) /\ Len(frames') <= MaxFrames /\ 0 \in 0..MaxFrames
      BY <1>1, MenuAssumption
    <2> QED BY <1>1, <2>1, IdleType DEF Menu, TypeOK, Gui
  <1>4. PressesOK'
    <2>1. late' \subseteq 1..presses /\ \A i \in DOMAIN channels : channels[i] \notin late'
      <3>1. CASE gui.pc = "create"
        BY <1>1, <3>1 DEF Menu, PressesOK, GivenUp
      <3>2. CASE gui.pc # "create"
        BY <1>1, <3>2 DEF Menu, PressesOK, GivenUp
      <3> QED BY <3>1, <3>2
    <2> QED BY <1>1, <1>2, <2>1 DEF Menu, PressesOK
  <1>5. WindowsOK' /\ ListedOK'
    BY <1>1, <1>2 DEF WindowsOK, AnswerOK, ListedOK
  <1> QED BY <1>3, <1>4, <1>5 DEF Menu

\* A row more at the end of the table changes nothing of what is shown.
LEMMA WindowsKept ==
  ASSUME WindowsOK, UNCHANGED <<frames, menus>>,
         DOMAIN channels \subseteq DOMAIN channels',
         \A i \in DOMAIN channels : channels'[i] = channels[i]
  PROVE  \A w \in DOMAIN frames' : FrameOK(frames[w])'
  <1>1. ASSUME NEW w \in DOMAIN frames PROVE FrameOK(frames[w])'
    <2>1. FrameOK(frames[w])
      BY DEF WindowsOK
    <2> QED BY <2>1 DEF FrameOK, Shows
  <1> QED BY <1>1

\* The host adds a row for a press that is in the table nowhere.
LEMMA InsertKeeps ==
  ASSUME Menu, NEW p \in 0..presses, InsertServerChatChannel(p),
         p # 0 => \A i \in DOMAIN channels : channels[i] # p
  PROVE  \A i, j \in DOMAIN channels' : channels'[i] = channels'[j] /\ channels'[i] # 0 => i = j
  <1>1. p \in 0..MaxPresses
    BY MenuAssumption DEF Menu, TypeOK
  <1>2. /\ DOMAIN channels = 1..Len(channels) /\ Len(channels) \in Nat
        /\ DOMAIN channels' = 1..(Len(channels) + 1)
        /\ \A i \in DOMAIN channels : channels'[i] = channels[i]
        /\ channels'[Len(channels) + 1] = p
    BY <1>1, ChannelsGrow DEF Menu
  <1>3. \A i \in DOMAIN channels' : i \in DOMAIN channels \/ i = Len(channels) + 1
    BY <1>2
  <1> QED BY <1>2, <1>3 DEF Menu, PressesOK

\* The host's steps.
LEMMA HostKeeps ==
  ASSUME Menu,
         ToggleServing \/ HandleLoadAdminMenuData \/ HandleCreateNewChannel \/ HandleLateCreate
  PROVE  Menu'
  <1>0. gui \in Gui /\ channels \in Rows /\ presses \in 0..MaxPresses /\ presses \in Nat
    BY MenuAssumption DEF Menu, TypeOK, Gui
  <1>1. CASE ToggleServing
    BY <1>1 DEF ToggleServing, Menu, TypeOK, PressesOK, WindowsOK, AnswerOK, FrameOK, Shows,
                ListedOK
  <1>2. CASE HandleLoadAdminMenuData
    <2>1. /\ gui' \in Gui /\ gui.pc = "load" /\ gui'.pc = "loaded" /\ gui'.at = gui.at
          /\ gui'.answer = channels
      BY <1>0, <1>2 DEF HandleLoadAdminMenuData, Gui
    <2>2. UNCHANGED <<channels, serving, late, up, frames, menus, presses>>
      BY <1>2 DEF HandleLoadAdminMenuData, host
    <2>3. \A w \in DOMAIN frames' : FrameOK(frames[w])'
      BY <2>2, WindowsKept DEF Menu
    <2>4. AnswerOK'
      BY <2>1, <2>2 DEF Menu, WindowsOK, AnswerOK, FrameOK, Shows
    <2>5. ListedOK'
      BY <2>1, <2>2 DEF Menu, ListedOK
    <2>6. TypeOK'
      BY <2>1, <2>2 DEF Menu, TypeOK, Gui
    <2>7. PressesOK'
      BY <2>1, <2>2 DEF Menu, PressesOK
    <2> QED BY <2>3, <2>4, <2>5, <2>6, <2>7 DEF Menu, WindowsOK
  <1>3. ASSUME HandleCreateNewChannel, UNCHANGED channels, gui' = [gui EXCEPT !.pc = "failed"]
        PROVE  Menu'
    <2>1. gui' \in Gui /\ gui.pc = "create" /\ gui'.pc = "failed" /\ gui'.at = gui.at
      BY <1>0, <1>3 DEF HandleCreateNewChannel, Gui
    <2>2. UNCHANGED <<channels, serving, late, up, frames, menus, presses>>
      BY <1>3 DEF HandleCreateNewChannel
    <2>3. \A w \in DOMAIN frames' : FrameOK(frames[w])'
      BY <2>2, WindowsKept DEF Menu
    <2>4. AnswerOK' /\ ListedOK' /\ PressesOK'
      BY <2>1, <2>2 DEF Menu, WindowsOK, AnswerOK, ListedOK, PressesOK
    <2>5. TypeOK'
      BY <2>1, <2>2 DEF Menu, TypeOK, Gui
    <2> QED BY <2>3, <2>4, <2>5 DEF Menu, WindowsOK
  <1>4. ASSUME HandleCreateNewChannel, InsertServerChatChannel(gui.press),
               gui' = [gui EXCEPT !.pc = "created", !.row = Len(channels')]
        PROVE  Menu'
    <2>0. gui.pc = "create" /\ gui.press \in 1..presses /\ gui.press \notin late
          /\ gui.press \in 0..MaxPresses /\ gui.press \in 0..presses
          /\ \A i \in DOMAIN channels : channels[i] # gui.press
      BY <1>0, <1>4 DEF HandleCreateNewChannel, Menu, PressesOK, Gui
    <2>1. /\ channels' \in Rows /\ Len(channels') <= MaxChannels
          /\ Len(channels') = Len(channels) + 1 /\ Len(channels) \in Nat
          /\ DOMAIN channels = 1..Len(channels)
          /\ DOMAIN channels' = 1..(Len(channels) + 1)
          /\ \A i \in DOMAIN channels : channels'[i] = channels[i]
          /\ channels'[Len(channels) + 1] = gui.press
          /\ Len(channels') \in 1..MaxChannels
      BY <1>4, <2>0, ChannelsGrow DEF Menu
    <2>2. /\ gui' \in Gui /\ gui'.pc = "created" /\ gui'.at = gui.at
          /\ gui'.row = Len(channels) + 1
      <3>1. PICK n : n = Len(channels')
        OBVIOUS
      <3>2. n \in 0..MaxChannels /\ n = Len(channels) + 1
        BY <2>1, <3>1
      <3>3. gui' = [gui EXCEPT !.pc = "created", !.row = n]
        BY <1>4, <3>1
      <3> QED BY <1>0, <3>2, <3>3 DEF Gui
    <2>3. UNCHANGED <<serving, late, up, frames, menus, presses>>
      BY <1>4 DEF HandleCreateNewChannel
    <2>4. \A w \in DOMAIN frames' : FrameOK(frames[w])'
      BY <2>1, <2>3, WindowsKept DEF Menu
    <2>5. AnswerOK' /\ ListedOK'
      BY <2>0, <2>2, <2>3 DEF Menu, WindowsOK, AnswerOK, ListedOK
    <2>6. TypeOK'
      BY <2>1, <2>2, <2>3 DEF Menu, TypeOK, Gui
    <2>7. PressesOK'
      <3>1. \A i \in DOMAIN channels' : channels'[i] \in 0..presses /\ channels'[i] \notin late
        BY <2>0, <2>1 DEF Menu, PressesOK
      <3>2. \A i, j \in DOMAIN channels' :
              channels'[i] = channels'[j] /\ channels'[i] # 0 => i = j
        BY <1>4, <2>0, InsertKeeps
      <3>3. gui'.row \in DOMAIN channels' /\ channels'[gui'.row] # 0
        BY <2>0, <2>1, <2>2
      <3> QED BY <2>2, <2>3, <3>1, <3>2, <3>3 DEF Menu, PressesOK
    <2> QED BY <2>4, <2>5, <2>6, <2>7 DEF Menu, WindowsOK
  <1>5. CASE HandleLateCreate
    <2>1. PICK p \in late \cup {0} : InsertServerChatChannel(p) /\ late' = late \ {p}
      BY <1>5 DEF HandleLateCreate
    <2>2. p \in 0..presses /\ p \in 0..MaxPresses
      <3>1. late \subseteq 1..presses
        BY DEF Menu, PressesOK
      <3>2. p \in 1..presses \/ p = 0
        BY <2>1, <3>1
      <3> QED BY <1>0, <3>2, MenuAssumption
    <2>3. /\ channels' \in Rows /\ Len(channels') <= MaxChannels
          /\ Len(channels) \in Nat
          /\ DOMAIN channels = 1..Len(channels)
          /\ DOMAIN channels' = 1..(Len(channels) + 1)
          /\ \A i \in DOMAIN channels : channels'[i] = channels[i]
          /\ channels'[Len(channels) + 1] = p
      BY <2>1, <2>2, ChannelsGrow DEF Menu
    <2>4. UNCHANGED <<serving, up, frames, menus, gui, presses>>
      BY <1>5 DEF HandleLateCreate
    <2>5. \A w \in DOMAIN frames' : FrameOK(frames[w])'
      BY <2>3, <2>4, WindowsKept DEF Menu
    <2>6. AnswerOK' /\ ListedOK'
      BY <2>3, <2>4 DEF Menu, WindowsOK, AnswerOK, Shows, ListedOK
    <2>7. TypeOK'
      BY <2>1, <2>3, <2>4 DEF Menu, TypeOK
    <2>8. PressesOK'
      <3>1. \A i \in DOMAIN channels' : \/ i \in DOMAIN channels /\ channels'[i] = channels[i]
                                        \/ channels'[i] = p
        BY <2>3
      <3>2. \A i \in DOMAIN channels' : channels'[i] \in 0..presses /\ channels'[i] \notin late'
        BY <2>1, <2>2, <3>1 DEF Menu, PressesOK
      <3>3. \A i, j \in DOMAIN channels' :
              channels'[i] = channels'[j] /\ channels'[i] # 0 => i = j
        BY <2>1, <2>2, InsertKeeps DEF Menu, PressesOK
      <3>4. gui.pc = "create" => /\ gui.press \notin late'
                                 /\ \A i \in DOMAIN channels' : channels'[i] # gui.press
        BY <2>1, <3>1 DEF Menu, PressesOK
      <3>5. gui.pc = "created" => gui.row \in DOMAIN channels' /\ channels'[gui.row] # 0
        BY <2>3 DEF Menu, PressesOK
      <3>6. late' \subseteq 1..presses
        BY <2>1 DEF Menu, PressesOK
      <3> QED BY <2>4, <3>2, <3>3, <3>4, <3>5, <3>6 DEF Menu, PressesOK
    <2> QED BY <2>5, <2>6, <2>7, <2>8 DEF Menu, WindowsOK
  <1> QED BY <1>1, <1>2, <1>3, <1>4, <1>5 DEF HandleCreateNewChannel

\* A step of a window that leaves its list and acknowledgements alone, or draws it.
LEMMA DrawnKeeps ==
  ASSUME Menu, UNCHANGED <<channels, serving, late, up, presses>>,
         gui' = Idle,
         menus' \in 0..MaxFrames, menus \in {0, menus'},
         frames' \in Seq(Frame), Len(frames') = Len(frames),
         DOMAIN frames' = DOMAIN frames,
         \A w \in DOMAIN frames :
           /\ frames'[w].acked = frames[w].acked
           /\ frames'[w].active \in {menus', frames[w].active}
           /\ \/ /\ frames'[w].rows = frames[w].rows
                 /\ ~(gui.pc \in {"load", "loaded"} /\ gui.at = w)
              \/ frames'[w].rows = <<>>
              \/ gui.pc = "loaded" /\ gui.at = w /\ frames'[w].rows = gui.answer
  PROVE  Menu'
  <1>1. gui'.pc = "idle"
    BY DEF Idle
  <1>2. TypeOK'
    BY IdleType DEF Menu, TypeOK, Gui
  <1>3. PressesOK'
    BY <1>1 DEF Menu, PressesOK
  <1>4. \A w \in DOMAIN frames' : FrameOK(frames[w])'
    <2>1. ASSUME NEW w \in DOMAIN frames PROVE FrameOK(frames[w])'
      <3>1. FrameOK(frames[w])
        BY DEF Menu, WindowsOK
      <3>2. Shows(frames'[w].rows)
        BY <3>1 DEF Menu, WindowsOK, AnswerOK, FrameOK, Shows
      <3>3. frames'[w].active \in {0, menus'}
        BY <3>1 DEF FrameOK
      <3> QED BY <3>1, <3>2, <3>3 DEF FrameOK, Shows
    <2> QED BY <2>1
  <1>5. AnswerOK'
    BY <1>1 DEF AnswerOK
  <1>6. ListedOK'
    <2>1. ASSUME NEW w \in DOMAIN frames
          PROVE  frames'[w].rows = <<>> \/ frames'[w].acked \subseteq DOMAIN frames'[w].rows
      BY DEF Menu, WindowsOK, AnswerOK, ListedOK
    <2> QED BY <2>1 DEF ListedOK
  <1> QED BY <1>2, <1>3, <1>4, <1>5, <1>6 DEF Menu, WindowsOK

\* The answers and the timeouts of a load, and the clicks.
LEMMA DrawsKeep ==
  ASSUME Menu,
         \/ LoadAnswered \/ LoadTimeout
         \/ \E w \in DOMAIN frames : ClickMenu(w) \/ CloseFrame(w)
  PROVE  Menu'
  <1>0. TypeOK /\ gui \in Gui
    BY DEF Menu, TypeOK, Gui
  <1>1. CASE LoadAnswered
    <2>1. gui.pc = "loaded" /\ gui.at \in DOMAIN frames /\ gui.answer \in Rows
          /\ Draw(gui.answer)
      BY <1>0, <1>1 DEF LoadAnswered, Menu, WindowsOK, AnswerOK, Gui
    <2> QED BY <1>0, <2>1, DrawEffect, EndsKeep, DrawnKeeps
  <1>2. CASE LoadTimeout
    <2>1. gui.pc \in {"load", "loaded"} /\ gui.at \in DOMAIN frames /\ <<>> \in Rows
          /\ Draw(<<>>)
      BY <1>0, <1>2 DEF LoadTimeout, Menu, WindowsOK, AnswerOK, Rows
    <2> QED BY <1>0, <2>1, DrawEffect, EndsKeep, DrawnKeeps
  <1>3. ASSUME NEW w \in DOMAIN frames, ClickMenu(w) PROVE Menu'
    <2>1. gui.pc = "idle"
      BY <1>3 DEF ClickMenu, Idle
    <2> QED BY <1>0, <1>3, <2>1, ClickEffect, EndsKeep, DrawnKeeps
  <1>4. ASSUME NEW w \in DOMAIN frames, CloseFrame(w) PROVE Menu'
    <2>1. /\ UNCHANGED <<channels, serving, late, up, menus, gui, presses>> /\ gui = Idle
          /\ frames' \in Seq(Frame) /\ Len(frames') = Len(frames)
          /\ DOMAIN frames' = DOMAIN frames
          /\ \A v \in DOMAIN frames :
              /\ frames'[v].acked = frames[v].acked
              /\ frames'[v].active = frames[v].active
              /\ frames'[v].rows = frames[v].rows
      BY <1>0, <1>4, CloseEffect
    <2>2. gui.pc = "idle" /\ menus' \in 0..MaxFrames
      BY <1>0, <2>1 DEF Idle, TypeOK
    <2> QED BY <2>1, <2>2, DrawnKeeps
  <1> QED BY <1>1, <1>2, <1>3, <1>4

\* A new window.
LEMMA OpenKeeps ==
  ASSUME Menu, OpenFrame PROVE Menu'
  <1>1. /\ UNCHANGED <<channels, serving, late, up, menus, presses>>
        /\ frames' \in Seq(Frame) /\ Len(frames') <= MaxFrames
        /\ DOMAIN frames' = 1..(Len(frames) + 1) /\ DOMAIN frames = 1..Len(frames)
        /\ \A w \in DOMAIN frames : frames'[w] = frames[w]
        /\ gui' \in Gui /\ gui.pc = "idle"
        /\ gui'.pc = "idle" \/ (gui'.pc = "load" /\ gui'.at \in DOMAIN frames')
    BY OpenEffect DEF Menu
  <1>2. PICK n : n = Len(frames) + 1
    OBVIOUS
  <1>3. frames'[n].rows = <<>> /\ frames'[n].acked = {} /\ frames'[n].active = 0
    BY <1>2, OpenEffect DEF Menu
  <1>4. Len(frames) \in Nat
    BY DEF Menu, TypeOK
  <1>5. \A w \in DOMAIN frames' : w = n \/ (w \in DOMAIN frames /\ frames'[w] = frames[w])
    BY <1>1, <1>2, <1>4
  <1>6. \A w \in DOMAIN frames' : FrameOK(frames[w])'
    BY <1>1, <1>3, <1>5 DEF Menu, WindowsOK, FrameOK, Shows
  <1>7. AnswerOK'
    BY <1>1 DEF AnswerOK
  <1>8. ListedOK'
    BY <1>1, <1>3, <1>5 DEF Menu, ListedOK
  <1>9. TypeOK'
    BY <1>1 DEF Menu, TypeOK, Gui
  <1>10. PressesOK'
    BY <1>1 DEF Menu, PressesOK
  <1> QED BY <1>6, <1>7, <1>8, <1>9, <1>10 DEF Menu, WindowsOK

\* A press of Create and the end of its request.
LEMMA CreateKeeps ==
  ASSUME Menu,
         (\E w \in DOMAIN frames : PressCreate(w)) \/ CreateSucceeded \/ CreateTimeout
  PROVE  Menu'
  <1>0. TypeOK /\ gui \in Gui /\ presses \in 0..MaxPresses /\ frames \in Seq(Frame)
        /\ Len(frames) <= MaxFrames
    BY DEF Menu, TypeOK, Gui
  <1>1. ASSUME NEW w \in DOMAIN frames, PressCreate(w) PROVE Menu'
    <2>1. /\ UNCHANGED <<channels, serving, late, up, frames, menus>>
          /\ presses' = presses + 1 /\ presses < MaxPresses /\ gui.pc = "idle"
          /\ gui' = [pc |-> "create", at |-> w, press |-> presses', row |-> 0,
                     answer |-> <<>>]
      BY <1>1 DEF PressCreate, Idle, host
    <2>2. presses' \in 0..MaxPresses /\ presses' \in 1..presses' /\ presses' \notin 0..presses
          /\ w \in 0..MaxFrames /\ 0 \in 0..MaxChannels /\ <<>> \in Rows
      BY <1>0, <2>1, MenuAssumption DEF Rows
    <2>3. gui' \in Gui
      BY <2>1, <2>2 DEF Gui
    <2>4. TypeOK'
      BY <2>1, <2>2, <2>3 DEF Menu, TypeOK, Gui
    <2>5. \A v \in DOMAIN frames' : FrameOK(frames[v])'
      BY <2>1, WindowsKept DEF Menu
    <2>6. AnswerOK' /\ ListedOK'
      BY <2>1 DEF Menu, AnswerOK, ListedOK
    <2>7. PressesOK'
      <3>1. 1..presses \subseteq 1..presses' /\ 0..presses \subseteq 0..presses'
            /\ 1..presses \subseteq 0..presses
        BY <1>0, <2>1
      <3>2. late \subseteq 1..presses' /\ presses' \notin late
        BY <2>2, <3>1 DEF Menu, PressesOK
      <3>3. \A i \in DOMAIN channels : channels[i] \in 0..presses' /\ channels[i] # presses'
        BY <2>2, <3>1 DEF Menu, PressesOK
      <3> QED BY <2>1, <2>2, <3>2, <3>3 DEF Menu, PressesOK
    <2> QED BY <2>4, <2>5, <2>6, <2>7 DEF Menu, WindowsOK
  <1>2. CASE CreateSucceeded
    <2>0. gui.at \in DOMAIN frames /\ gui.row \in DOMAIN channels /\ channels[gui.row] # 0
      BY <1>2 DEF CreateSucceeded, Menu, WindowsOK, AnswerOK, PressesOK
    <2>1. /\ UNCHANGED <<channels, serving, late, up, menus, presses>>
          /\ gui' \in Gui /\ gui'.pc = "load" /\ gui'.at = gui.at /\ gui.pc = "created"
          /\ frames' \in Seq(Frame) /\ Len(frames') = Len(frames)
          /\ DOMAIN frames' = DOMAIN frames
          /\ frames'[gui.at].acked = frames[gui.at].acked \cup {gui.row}
          /\ \A v \in DOMAIN frames :
               /\ v # gui.at => frames'[v].acked = frames[v].acked
               /\ frames'[v].active = frames[v].active
               /\ frames'[v].rows = frames[v].rows
      BY <1>0, <1>2, <2>0, AcknowledgeEffect
    <2>2. \A w \in DOMAIN frames' : FrameOK(frames[w])'
      <3>1. ASSUME NEW w \in DOMAIN frames PROVE FrameOK(frames[w])'
        <4>1. FrameOK(frames[w])
          BY DEF Menu, WindowsOK
        <4>2. \A row \in frames'[w].acked : row \in DOMAIN channels /\ channels[row] # 0
          BY <2>0, <2>1, <4>1 DEF FrameOK
        <4> QED BY <2>1, <4>1, <4>2 DEF FrameOK, Shows
      <3> QED BY <2>1, <3>1
    <2>3. AnswerOK'
      BY <2>0, <2>1 DEF AnswerOK
    <2>4. ListedOK'
      BY <2>1 DEF Menu, ListedOK
    <2>5. TypeOK' /\ PressesOK'
      BY <2>1 DEF Menu, TypeOK, Gui, PressesOK
    <2> QED BY <2>2, <2>3, <2>4, <2>5 DEF Menu, WindowsOK
  <1>3. CASE CreateTimeout
    <2>1. /\ UNCHANGED <<channels, serving, up, frames, menus, presses>>
          /\ gui.pc \in {"create", "created", "failed"} /\ gui' = Idle /\ late' = GivenUp
      BY <1>3 DEF CreateTimeout
    <2>2. gui'.pc = "idle"
      BY <2>1 DEF Idle
    <2>3. \A w \in DOMAIN frames' : FrameOK(frames[w])'
      BY <2>1, WindowsKept DEF Menu
    <2>4. AnswerOK' /\ ListedOK'
      BY <2>1, <2>2 DEF Menu, AnswerOK, ListedOK
    <2>5. late' \subseteq 1..presses /\ \A i \in DOMAIN channels : channels[i] \notin late'
      <3>1. CASE gui.pc = "create"
        BY <2>1, <3>1 DEF Menu, PressesOK, GivenUp
      <3>2. CASE gui.pc # "create"
        BY <2>1, <3>2 DEF Menu, PressesOK, GivenUp
      <3> QED BY <3>1, <3>2
    <2>6. PressesOK'
      BY <2>1, <2>2, <2>5 DEF Menu, PressesOK
    <2>7. late' \subseteq 1..MaxPresses
      <3>1. \A p \in 1..presses : p \in 1..MaxPresses
        BY <1>0, MenuAssumption
      <3> QED BY <2>5, <3>1
    <2>8. TypeOK'
      BY <2>1, <2>7, IdleType DEF Menu, TypeOK, Gui
    <2> QED BY <2>3, <2>4, <2>6, <2>8 DEF Menu, WindowsOK
  <1> QED BY <1>1, <1>2, <1>3

-----------------------------------------------------------------------------
(* The theorems *)

\* A list whose rows are the table's is the beginning of the table.
LEMMA ShownIsPrefix ==
  ASSUME NEW rows \in Rows, channels \in Rows, Shows(rows)
  PROVE  IsPrefix(rows, channels)
  <1>1. /\ Len(rows) \in Nat /\ DOMAIN rows = 1..Len(rows)
        /\ Len(channels) \in Nat /\ DOMAIN channels = 1..Len(channels)
    BY DEF Rows
  <1>2. Len(rows) <= Len(channels)
    BY <1>1 DEF Shows
  <1>3. SubSeq(rows, 1, Len(rows)) = SubSeq(channels, 1, Len(rows))
    BY <1>1, <1>2 DEF Shows, Rows
  <1> QED BY <1>2, <1>3 DEF IsPrefix

\* The inductive invariant, in every reachable state.
LEMMA MenuHolds == Spec => []Menu
  <1>1. Init => Menu
    <2> SUFFICES ASSUME Init PROVE Menu
      OBVIOUS
    <2>1. TypeOK
      <3>1. /\ <<>> \in Rows /\ <<>> \in Seq(Frame) /\ Len(<<>>) = 0
            /\ 0 \in 0..MaxFrames /\ 0 \in 0..MaxPresses
            /\ 0 <= MaxChannels /\ 0 <= MaxFrames
        BY MenuAssumption DEF Rows
      <3> QED BY <3>1, IdleType DEF Init, TypeOK, Gui
    <2> QED BY <2>1 DEF Init, Menu, PressesOK, WindowsOK, AnswerOK, ListedOK, Idle
  <1>2. Menu /\ [Next]_vars => Menu'
    <2> SUFFICES ASSUME Menu, [Next]_vars PROVE Menu'
      OBVIOUS
    <2>1. CASE Launch \/ UNCHANGED vars
      <3>1. /\ UNCHANGED <<channels, serving, late, frames, menus, gui, presses>>
            /\ up' \in {up, TRUE}
        BY <2>1 DEF Launch, vars, host
      <3>2. \A w \in DOMAIN frames' : FrameOK(frames[w])'
        BY <3>1, WindowsKept DEF Menu
      <3>3. AnswerOK' /\ ListedOK' /\ PressesOK'
        BY <3>1 DEF Menu, WindowsOK, AnswerOK, Shows, ListedOK, PressesOK
      <3>4. TypeOK'
        BY <3>1 DEF Menu, TypeOK
      <3> QED BY <3>2, <3>3, <3>4 DEF Menu, WindowsOK
    <2>2. CASE Crash
      BY <2>2, EndsKeep DEF Crash
    <2> QED BY <2>1, <2>2, HostKeeps, DrawsKeep, OpenKeeps, CreateKeeps DEF Next, Waited
  <1> QED BY <1>1, <1>2, PTL DEF Spec

\* For any number of windows, channels and presses: every variable has its type.
THEOREM TypeCorrect == Spec => []TypeOK
  <1>1. Menu => TypeOK
    BY DEF Menu
  <1> QED BY <1>1, MenuHolds, PTL

\* No window ever lists a channel that the host does not have, or in another order.
THEOREM ListsAreServed == Spec => []ListIsServed
  <1>1. Menu => ListIsServed
    <2> SUFFICES ASSUME Menu, NEW w \in DOMAIN frames
                 PROVE  IsPrefix(frames[w].rows, channels)
      BY DEF ListIsServed
    <2>1. frames[w] \in Frame /\ channels \in Rows /\ Shows(frames[w].rows)
      BY DEF Menu, TypeOK, WindowsOK, FrameOK
    <2>2. frames[w].rows \in Rows
      BY <2>1 DEF Frame
    <2> QED BY <2>1, <2>2, ShownIsPrefix
  <1> QED BY <1>1, MenuHolds, PTL

\* A list that is not empty has every channel whose creation was acknowledged to it.
THEOREM AcknowledgedAreListed == Spec => []AckedIsListed
  <1>1. Menu => AckedIsListed
    <2> SUFFICES ASSUME Menu, gui = Idle, NEW w \in DOMAIN frames, frames[w].rows # <<>>,
                        NEW row \in frames[w].acked
                 PROVE  row \in DOMAIN frames[w].rows /\ frames[w].rows[row] # 0
      BY DEF AckedIsListed
    <2>1. row \in DOMAIN frames[w].rows
      BY DEF Menu, ListedOK, Idle
    <2> QED BY <2>1 DEF Menu, WindowsOK, FrameOK, Shows
  <1> QED BY <1>1, MenuHolds, PTL

\* However requests are lost, given up and handled late, no press adds two channels.
THEOREM PressesAddOnce == Spec => []OncePerPress
  <1>1. Menu => OncePerPress
    BY DEF Menu, PressesOK, WindowsOK, FrameOK, OncePerPress
  <1> QED BY <1>1, MenuHolds, PTL

\* For any windows opened and closed in any order, all that are shown show one panel.
THEOREM WindowsShareMenus == Spec => []MenusAgree
  <1>1. Menu => MenusAgree
    BY DEF Menu, WindowsOK, FrameOK, MenusAgree, Shown
  <1> QED BY <1>1, MenuHolds, PTL
=============================================================================
