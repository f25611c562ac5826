-------------------------- MODULE ChatSystemProofs --------------------------
(***************************************************************************)
(* Proofs about ChatSystem.  Its steps are steps of HostedServer, so what  *)
(* is proved there holds here; that a panel shows no update twice follows  *)
(* from the order of the feed, because each row of its list is a row of a  *)
(* packet that was sent to this client.  The last part is about channels:  *)
(* what the host knows of the client and where it takes its user.          *)
(***************************************************************************)
EXTENDS ChatSystem, HostedServerProofs

\* The live rows of the list are rows of packets in net for the client.
ListFromNet ==
  \A x \in list :
    /\ x = [packet |-> x.packet, place |-> x.place, id |-> x.id]
    /\ x.packet # 0 =>
         /\ x.packet \in DOMAIN net /\ IpOf(net[x.packet].to) = Client
         /\ x.place \in DOMAIN net[x.packet].rows
         /\ x.id = net[x.packet].rows[x.place].id

-----------------------------------------------------------------------------
(* The host of the composition is HostedServer *)

\* Every step of the system is a step of the host or leaves it alone.
LEMMA SystemStepIsHostStep ==
  ASSUME opened \subseteq Ports \X Channels, [SystemNext]_systemVars
  PROVE  [Next]_vars
<1>1. CASE UNCHANGED systemVars
  BY <1>1 DEF systemVars, host
<1>2. ASSUME NEW port \in Ports, NEW c \in Channels, SelectChannel(port, c)
      PROVE  UNCHANGED vars
  BY <1>2 DEF SelectChannel, host
<1>3. CASE Assign \/ LoadFails \/ \E k \in DOMAIN net : HandlePeriodicChatUpdate(k)
  BY <1>3 DEF Assign, LoadFails, HandlePeriodicChatUpdate, host
<1>4. ASSUME NEW pan \in opened, HandleLoad(pan) \/ HandleSend(pan)
      PROVE  Next
  <2>1. Endpoint(pan) \in Endpoints /\ pan[2] \in Channels
    BY <1>4, ClientAssumption DEF Endpoint, Endpoints
  <2>2. PacketCallback(Endpoint(pan))
    BY <1>4, <2>1 DEF HandleLoad, HandleSend, PacketCallback
  <2>3. QED BY <2>1, <2>2 DEF Next
<1>5. CASE Reply
  BY <1>5 DEF Reply, Next, CallbackStep
<1>6. CASE Broadcast
  BY <1>6 DEF Broadcast, Next, BackgroundStep
<1>7. CASE HostStep
  <2>1. CASE \E e \in Endpoints :
               \/ JoinServerInsert(e) \/ CreateNewChannel
               \/ \E c \in Channels : LoadChannelBegin(e, c) \/ SendMessageBegin(e, c)
    BY <2>1 DEF Next, PacketCallback
  <2>2. CASE StartCreate \/ StopBegin \/ GuiStep \/ Crash \/ Launch
             \/ \E r \in DOMAIN server_users : TimePasses(r)
    BY <2>2 DEF Next
  <2>3. CASE LoadChannelActive \/ SendMessageInsert \/ SendMessageNoUsername
             \/ SendMessagePush \/ SendMessageFailed \/ SendMessageOnline
             \/ MovedUserAbort \/ MovedUserWrite \/ JoinServerAbort \/ CbNullServer
    BY <2>3 DEF Next, CallbackStep
  <2>4. CASE \/ BgLoop \/ BgClear \/ BgNullServer
             \/ \E r \in bg.todo :
                  BgUser(r) \/ BgStaleUser(r) \/ BgAnswer(r) \/ BgTimeout(r) \/ BgWipe(r)
    BY <2>4 DEF Next, BackgroundStep
  <2>5. QED BY <1>7, <2>1, <2>2, <2>3, <2>4 DEF HostStep
<1>8. QED BY <1>1, <1>2, <1>3, <1>4, <1>5, <1>6, <1>7 DEF SystemNext

\* The panels opened are panels.
LEMMA OpenedType == SystemSpec => [](opened \subseteq Ports \X Channels)
<1>1. SystemInit => opened \subseteq Ports \X Channels
  BY DEF SystemInit
<1>2. ASSUME opened \subseteq Ports \X Channels, [SystemNext]_systemVars
      PROVE  (opened \subseteq Ports \X Channels)'
  BY <1>2 DEF SystemNext, systemVars, client, SelectChannel, Assign, LoadFails,
              HandlePeriodicChatUpdate, HandleLoad, HandleSend, Reply, Broadcast, HostStep
<1>3. QED BY <1>1, <1>2, PTL DEF SystemSpec

\* For every instance: the hosted server of the composition, with its crashes and
\* restarts, behaves as HostedServer, so whatever holds there holds here.
THEOREM SystemHasHost == SystemSpec => Spec
<1>1. SystemInit => Init
  BY DEF SystemInit
<1>2. opened \subseteq Ports \X Channels /\ [SystemNext]_systemVars => [Next]_vars
  BY SystemStepIsHostStep
<1>3. QED BY <1>1, <1>2, OpenedType, PTL DEF SystemSpec, Spec

\* For every instance: what the composed host sends is a live feed of what it
\* stored, whatever the client's panels do.
THEOREM SystemFeedIsLive == SystemSpec => ImplementsLiveFeed
BY SystemHasHost, ImplementsFeed, PTL

-----------------------------------------------------------------------------
(* What the panel shows *)

\* Packets stay in net: a row of the list keeps its packet.
LEMMA PacketsStay ==
  ASSUME TypeOK, [Next]_vars, NEW k \in DOMAIN net
  PROVE  k \in DOMAIN net' /\ net'[k] = net[k]
<1>1. CASE UNCHANGED net
  BY <1>1
<1>2. CASE ~UNCHANGED net
  <2>1. /\ DOMAIN net' = 1..(Len(net) + 1) /\ DOMAIN net = 1..Len(net) /\ Len(net) \in Nat
        /\ \A l \in DOMAIN net : net'[l] = net[l]
    BY <1>2, NetStep
  <2>2. QED BY <2>1
<1>3. QED BY <1>1, <1>2

\* Every step keeps the live rows of the list rows of packets for the client.
LEMMA ListStep ==
  ASSUME TypeOK, ListFromNet, opened \subseteq Ports \X Channels, [SystemNext]_systemVars
  PROVE  ListFromNet'
<1>1. [Next]_vars
  BY SystemStepIsHostStep
<1>2. \A k \in DOMAIN net : k \in DOMAIN net' /\ net'[k] = net[k]
  BY <1>1, PacketsStay
<1>3. CASE UNCHANGED list
  BY <1>2, <1>3 DEF ListFromNet
<1>4. CASE list' = {} \/ Assign
  BY <1>4 DEF ListFromNet, Assign
<1>5. ASSUME NEW k, HandlePeriodicChatUpdate(k)
      PROVE  ListFromNet'
  <2>1. k \in DOMAIN net /\ IpOf(net[k].to) = Client
    BY <1>5 DEF HandlePeriodicChatUpdate, Unread, Endpoint, IpOf
  <2>2. net' = net
    BY <1>5 DEF HandlePeriodicChatUpdate, host, vars
  <2>3. \A x \in Inserted(k) :
          /\ x = [packet |-> x.packet, place |-> x.place, id |-> x.id]
          /\ x.packet = k /\ x.place \in DOMAIN net[k].rows
          /\ x.id = net[k].rows[x.place].id
    BY DEF Inserted
  <2>4. list' = list \cup Inserted(k)
    BY <1>5 DEF HandlePeriodicChatUpdate
  <2>5. QED BY <2>1, <2>2, <2>3, <2>4 DEF ListFromNet
<1>6. UNCHANGED list \/ list' = {} \/ Assign \/ \E k \in DOMAIN net : HandlePeriodicChatUpdate(k)
  BY DEF SystemNext, systemVars, client, SelectChannel, LoadFails, HandleLoad, HandleSend,
         Reply, Broadcast, HostStep
<1>7. QED BY <1>3, <1>4, <1>5, <1>6

\* Two live rows of one message are one row: its packets would be out of order.
LEMMA OrderedIsOnce ==
  ASSUME TypeOK, ListFromNet, FeedInOrder
  PROVE  UpdateShownOnce
<1>. SUFFICES ASSUME NEW x \in list, NEW y \in list,
                     x.packet # 0, y.packet # 0, x.id = y.id
              PROVE  x = y
  BY DEF UpdateShownOnce
<1>. DEFINE k == x.packet
            l == y.packet
<1>1. /\ k \in DOMAIN net /\ x.place \in DOMAIN net[k].rows
      /\ l \in DOMAIN net /\ y.place \in DOMAIN net[l].rows
      /\ IpOf(net[k].to) = IpOf(net[l].to)
      /\ net[k].rows[x.place].id = net[l].rows[y.place].id
  BY DEF ListFromNet
<1>2. net[k].rows[x.place].id \in Nat
  BY <1>1, IdTypes
<1>3. k \in Nat /\ l \in Nat /\ x.place \in Nat /\ y.place \in Nat
  <2>1. IsSequence(net) /\ IsPacket(net[k]) /\ IsPacket(net[l])
    BY <1>1 DEF TypeOK, NetOK
  <2>2. DOMAIN net \subseteq Nat
    BY <2>1 DEF IsSequence
  <2>3. QED BY <1>1, <2>1, <2>2 DEF IsPacket
<1>4. k = l
  <2>1. ~(k < l) /\ ~(l < k)
    BY <1>1, <1>2 DEF FeedInOrder
  <2>2. QED BY <1>3, <2>1
<1>5. x.place = y.place
  <2>1. ~(x.place < y.place) /\ ~(y.place < x.place)
    BY <1>1, <1>2, <1>4 DEF FeedInOrder
  <2>2. QED BY <1>3, <2>1
<1>6. QED BY <1>4, <1>5 DEF ListFromNet

\* For every instance: a panel never shows a message twice from its updates, whatever
\* the host's threads, crashes and restarts, the network and the other clients do.
THEOREM UpdatesShownOnce == SystemSpec => []UpdateShownOnce
<1>1. SystemInit => ListFromNet
  BY DEF SystemInit, ListFromNet
<1>2. TypeOK /\ ListFromNet /\ opened \subseteq Ports \X Channels
        /\ [SystemNext]_systemVars => ListFromNet'
  BY ListStep
<1>3. TypeOK /\ ListFromNet /\ FeedInOrder => UpdateShownOnce
  BY OrderedIsOnce
<1>4. QED
  BY <1>1, <1>2, <1>3, OpenedType, SystemHasHost, TypeCorrect, FeedIsInOrder, PTL
     DEF SystemSpec

-----------------------------------------------------------------------------
(* A message shown twice was pending when the host made its answer *)

\* What the answer of the host has brought, or will bring, into the list.
Loaded == answer \cup {x.id : x \in {y \in list : y.packet = 0}}

\* Until the constructor is done the list has live rows only.
NothingLoadedYet ==
  /\ load # "done" => \A x \in list : x.packet # 0
  /\ load # "answered" => answer = {}

\* A message can still come live.
ToCome(m) ==
  \/ m \in Queued
  \/ cb.pc = "push" /\ cb.id = m
  \/ \E k \in Unread : \E i \in DOMAIN net[k].rows : net[k].rows[i].id = m

\* What was loaded is stored, and comes live only if it was pending.
LoadedOnce ==
  /\ NothingLoadedYet
  /\ Loaded \subseteq DOMAIN messages
  /\ \A m \in Loaded \ pending : ~ToCome(m)

\* The row to be queued is the one that was inserted last.
LEMMA PushStep ==
  ASSUME TypeOK, [Next]_vars, cb'.pc = "push"
  PROVE  (cb.pc = "push" /\ cb'.id = cb.id) \/ cb'.id = Len(messages) + 1
<1>1. CASE SendMessageInsert
  BY <1>1 DEF SendMessageInsert, TypeOK, CallbackOK, CallbackRecord
<1>2. CASE ~SendMessageInsert
  <2>1. cb'.pc = cb.pc /\ cb'.id = cb.id
    BY <1>2, HandlerStep
  <2>2. QED BY <2>1
<1>3. QED BY <1>1, <1>2

\* The queue grows only by the row that a handler is about to push.
LEMMA QueuedStep ==
  ASSUME TypeOK, [Next]_vars
  PROVE  \A m \in Queued' : m \in Queued \/ (cb.pc = "push" /\ cb.id = m)
<1>1. CASE new_messages' \in {new_messages, <<>>}
  BY <1>1 DEF Queued
<1>2. CASE SendMessagePush
  <2>1. /\ cb.pc = "push" /\ new_messages' = Append(new_messages, NewMessage)
        /\ NewMessage.id = cb.id
    BY <1>2 DEF SendMessagePush, NewMessage
  <2>2. new_messages \in Seq(QueueRow) /\ NewMessage \in QueueRow
    BY <2>1, QueuedRowType DEF TypeOK
  <2>3. \A i \in DOMAIN new_messages' :
          \/ new_messages'[i] = NewMessage
          \/ i \in DOMAIN new_messages /\ new_messages'[i] = new_messages[i]
    BY <2>1, <2>2
  <2>4. QED BY <2>1, <2>3 DEF Queued
<1>3. QED BY <1>1, <1>2, QueueStep

\* A packet that the broadcast adds has rows of the queue.
LEMMA SentWasQueued ==
  ASSUME TypeOK, QueueInOrder, [Next]_vars, NEW k \in DOMAIN net' \ DOMAIN net,
         NEW i \in DOMAIN net'[k].rows
  PROVE  net'[k].rows[i].id \in Queued
<1>1. PICK r \in bg.todo :
        /\ BgSend(r) /\ k = Len(net) + 1
        /\ net'[k].rows = ActiveRows(r)
  BY NetStep
<1>2. Broadcasting
  BY <1>1 DEF BgSend, Broadcasting
<1>3. /\ Len(bg.batch) <= Len(new_messages)
      /\ \A j \in DOMAIN bg.batch : bg.batch[j] = new_messages[j]
  BY <1>2 DEF QueueInOrder
<1>4. bg.batch \in Seq(QueueRow) /\ new_messages \in Seq(QueueRow)
  BY DEF TypeOK, ThreadOK
<1>5. i \in DOMAIN bg.batch /\ net'[k].rows[i] = bg.batch[i]
  BY <1>1, ActiveRowsOfBatch
<1>6. DOMAIN bg.batch \subseteq DOMAIN new_messages
  <2>1. /\ DOMAIN bg.batch = 1..Len(bg.batch) /\ DOMAIN new_messages = 1..Len(new_messages)
        /\ Len(bg.batch) \in Nat /\ Len(new_messages) \in Nat
    BY <1>4
  <2>2. QED BY <1>3, <2>1
<1>7. QED BY <1>3, <1>5, <1>6 DEF Queued

\* A step of the host that the client has no part in brings no stored message back.
LEMMA ToComeStep ==
  ASSUME TypeOK, QueueInOrder, [Next]_vars, panel' = panel, taken \subseteq taken',
         NEW m \in DOMAIN messages, ToCome(m)'
  PROVE  ToCome(m)
<1>1. CASE m \in Queued'
  BY <1>1, QueuedStep DEF ToCome
<1>2. CASE cb'.pc = "push" /\ cb'.id = m
  <2>1. Len(messages) \in Nat /\ DOMAIN messages = 1..Len(messages)
    BY MessagesGrow
  <2>2. m # Len(messages) + 1
    BY <2>1
  <2>3. cb.pc = "push" /\ cb'.id = cb.id
    BY <1>2, <2>2, PushStep
  <2>4. QED BY <1>2, <2>3 DEF ToCome
<1>3. ASSUME NEW k \in Unread', NEW i \in DOMAIN net'[k].rows, net'[k].rows[i].id = m
      PROVE  ToCome(m)
  <2>1. panel # NoPanel /\ k \in DOMAIN net' /\ net'[k].to = Endpoint(panel) /\ k \notin taken
    BY <1>3 DEF Unread, Endpoint
  <2>2. CASE k \in DOMAIN net
    <3>1. net'[k] = net[k]
      BY <2>2, PacketsStay
    <3>2. k \in Unread
      BY <2>1, <2>2, <3>1 DEF Unread
    <3>3. QED BY <1>3, <3>1, <3>2 DEF ToCome
  <2>3. CASE k \notin DOMAIN net
    BY <1>3, <2>1, <2>3, SentWasQueued DEF ToCome
  <2>4. QED BY <2>2, <2>3
<1>4. QED BY <1>1, <1>2, <1>3 DEF ToCome

\* Every step keeps what was loaded from coming live, unless it was pending.
LEMMA LoadedStep ==
  ASSUME TypeOK, QueueInOrder, LoadedOnce, opened \subseteq Ports \X Channels,
         [SystemNext]_systemVars
  PROVE  LoadedOnce'
<1>1. [Next]_vars
  BY SystemStepIsHostStep
<1>2. DOMAIN messages \subseteq DOMAIN messages'
  <2>1. /\ Len(messages) \in Nat /\ Len(messages') \in Nat /\ Len(messages) <= Len(messages')
        /\ DOMAIN messages = 1..Len(messages) /\ DOMAIN messages' = 1..Len(messages')
    BY <1>1, MessagesGrow
  <2>2. QED BY <2>1
<1>3. ASSUME NothingLoadedYet', Loaded' \subseteq Loaded, pending' = pending,
             panel' = panel, taken \subseteq taken'
      PROVE  LoadedOnce'
  <2>1. ASSUME NEW m \in Loaded' \ pending', ToCome(m)' PROVE FALSE
    <3>1. m \in Loaded \ pending /\ m \in DOMAIN messages
      BY <1>3, <2>1 DEF LoadedOnce
    <3>2. ToCome(m)
      BY <1>1, <1>3, <2>1, <3>1, ToComeStep DEF LoadedOnce
    <3>3. QED BY <3>1, <3>2 DEF LoadedOnce
  <2>2. QED BY <1>2, <1>3, <2>1 DEF LoadedOnce
<1>4. ASSUME NEW port \in Ports, NEW c \in Channels, SelectChannel(port, c)
      PROVE  LoadedOnce'
  BY <1>4 DEF SelectChannel, LoadedOnce, NothingLoadedYet, Loaded
<1>5. CASE Assign
  <2>1. NothingLoadedYet'
    BY <1>5 DEF Assign, NothingLoadedYet
  <2>2. Loaded' \subseteq Loaded
    BY <1>5 DEF Assign, Loaded
  <2>3. QED BY <1>3, <1>5, <2>1, <2>2 DEF Assign
<1>6. CASE LoadFails
  BY <1>3, <1>6 DEF LoadFails, LoadedOnce, NothingLoadedYet, Loaded
<1>7. ASSUME NEW k \in DOMAIN net, HandlePeriodicChatUpdate(k)
      PROVE  LoadedOnce'
  <2>1. k # 0
    <3>1. IsSequence(net) BY DEF TypeOK, NetOK
    <3>2. QED BY <3>1 DEF IsSequence
  <2>2. \A x \in Inserted(k) : x.packet # 0
    BY <2>1 DEF Inserted
  <2>3. NothingLoadedYet' /\ Loaded' \subseteq Loaded
    BY <1>7, <2>2 DEF HandlePeriodicChatUpdate, NothingLoadedYet, Loaded, LoadedOnce
  <2>4. QED BY <1>3, <1>7, <2>3 DEF HandlePeriodicChatUpdate
<1>8. CASE Reply /\ UNCHANGED <<load, answer, pending>>
  BY <1>3, <1>8 DEF Reply, LoadedOnce, NothingLoadedYet, Loaded
<1>9. CASE Reply /\ ~UNCHANGED <<load, answer, pending>>
  <2>1. /\ load = "waiting" /\ load' = "answered" /\ answer' = DOMAIN ReplyMessages
        /\ pending' = Queued \cup UNION {{row.id : row \in Inserted(k)} : k \in Unread}
        /\ UNCHANGED <<panel, list, taken>>
    BY <1>9 DEF Reply
  <2>2. UNCHANGED <<messages, new_messages, net>> /\ cb' = IdleCallback
    BY <1>9 DEF Reply, LoadChannelReply, db
  <2>3. \A x \in list : x.packet # 0
    BY <2>1 DEF LoadedOnce, NothingLoadedYet
  <2>4. NothingLoadedYet' /\ Loaded' \subseteq DOMAIN messages'
    BY <2>1, <2>2, <2>3 DEF NothingLoadedYet, Loaded, ReplyMessages, SelectChannelMessages
  <2>5. ASSUME NEW m, ToCome(m)' PROVE m \in pending'
    <3>1. CASE m \in Queued'
      BY <2>1, <2>2, <3>1 DEF Queued
    <3>2. CASE cb'.pc = "push"
      BY <2>2, <3>2 DEF IdleCallback
    <3>3. ASSUME NEW k \in Unread', NEW i \in DOMAIN net'[k].rows, net'[k].rows[i].id = m
          PROVE  m \in pending'
      <4>1. k \in Unread /\ i \in DOMAIN net[k].rows /\ net[k].rows[i].id = m
        BY <2>1, <2>2, <3>3 DEF Unread, Endpoint
      <4>2. [packet |-> k, place |-> i, id |-> m] \in Inserted(k)
        BY <4>1 DEF Inserted
      <4>3. m \in {row.id : row \in Inserted(k)}
        BY <4>2
      <4>4. QED BY <2>1, <4>1, <4>3
    <3>4. QED BY <2>5, <3>1, <3>2, <3>3 DEF ToCome
  <2>6. QED BY <2>4, <2>5 DEF LoadedOnce
<1>10. CASE UNCHANGED <<panel, load, answer, list, taken, pending>>
  BY <1>3, <1>10 DEF LoadedOnce, NothingLoadedYet, Loaded
<1>11. CASE UNCHANGED systemVars \/ Broadcast \/ HostStep
            \/ \E pan \in opened : HandleLoad(pan) \/ HandleSend(pan)
  BY <1>10, <1>11 DEF systemVars, client, Broadcast, HostStep, HandleLoad, HandleSend
<1>12. QED
  BY <1>4, <1>5, <1>6, <1>7, <1>8, <1>9, <1>11 DEF SystemNext

\* A step that shows a loaded message live shows one that was pending.
LEMMA DuplicateStep ==
  ASSUME TypeOK, LoadedOnce, DuplicatesWerePending, [SystemNext]_systemVars
  PROVE  DuplicatesWerePending'
<1>1. CASE UNCHANGED <<list, pending>>
  BY <1>1 DEF DuplicatesWerePending
<1>2. CASE list' = {} \/ Assign
  BY <1>2 DEF DuplicatesWerePending, Assign
<1>3. ASSUME NEW k \in DOMAIN net, HandlePeriodicChatUpdate(k)
      PROVE  DuplicatesWerePending'
  <2>1. list' = list \cup Inserted(k) /\ pending' = pending /\ k \in Unread
    BY <1>3 DEF HandlePeriodicChatUpdate
  <2>2. k # 0
    <3>1. IsSequence(net) BY DEF TypeOK, NetOK
    <3>2. QED BY <3>1 DEF IsSequence
  <2>3. ASSUME NEW x \in list', NEW y \in list', x.packet = 0, y.packet # 0, x.id = y.id
        PROVE  x.id \in pending
    <3>1. x \in list
      BY <2>1, <2>2, <2>3 DEF Inserted
    <3>2. CASE y \in list
      BY <2>3, <3>1, <3>2 DEF DuplicatesWerePending
    <3>3. CASE y \in Inserted(k)
      <4>1. PICK i \in DOMAIN net[k].rows : y.id = net[k].rows[i].id
        BY <3>3 DEF Inserted
      <4>2. ToCome(x.id)
        BY <2>1, <2>3, <4>1 DEF ToCome
      <4>3. x.id \in Loaded
        BY <2>3, <3>1 DEF Loaded
      <4>4. QED BY <4>2, <4>3 DEF LoadedOnce
    <3>4. QED BY <2>1, <2>3, <3>2, <3>3
  <2>4. QED BY <2>1, <2>3 DEF DuplicatesWerePending
<1>4. CASE Reply
  <2>1. CASE UNCHANGED pending
    BY <1>1, <1>4, <2>1 DEF Reply
  <2>2. CASE ~UNCHANGED pending
    <3>1. load = "waiting" /\ list' = list
      BY <1>4, <2>2 DEF Reply
    <3>2. QED BY <3>1 DEF LoadedOnce, NothingLoadedYet, DuplicatesWerePending
  <2>3. QED BY <2>1, <2>2
<1>5. UNCHANGED <<list, pending>> \/ list' = {} \/ Assign \/ Reply
        \/ \E k \in DOMAIN net : HandlePeriodicChatUpdate(k)
  BY DEF SystemNext, systemVars, client, SelectChannel, LoadFails, HandleLoad, HandleSend,
         Broadcast, HostStep
<1>6. QED BY <1>1, <1>2, <1>3, <1>4, <1>5

\* For every instance: a message that is shown as history and again live was stored and
\* still to be broadcast or read when the host made its answer.
THEOREM DuplicatesArePending == SystemSpec => []DuplicatesWerePending
<1>1. SystemInit => LoadedOnce /\ DuplicatesWerePending
  BY DEF SystemInit, LoadedOnce, NothingLoadedYet, Loaded, DuplicatesWerePending
<1>2. TypeOK /\ QueueInOrder /\ LoadedOnce /\ DuplicatesWerePending
        /\ opened \subseteq Ports \X Channels /\ [SystemNext]_systemVars
        => (LoadedOnce /\ DuplicatesWerePending)'
  BY LoadedStep, DuplicateStep
<1>3. QED
  BY <1>1, <1>2, OpenedType, SystemHasHost, TypeCorrect, UsersAndOrder, PTL DEF SystemSpec

-----------------------------------------------------------------------------
(* A panel shows its own channel unless one of the two races was lost *)

\* An address of the client is the connection of a panel that was opened.
AtPanel(e) == IpOf(e) = Client => \E pan \in opened : e = Endpoint(pan)

\* So is each that the host knows; a panel is on show after the first one is opened.
KnownAddresses ==
  /\ panel = NoPanel => list = {} /\ answer = {} /\ load = "done"
  /\ panel # NoPanel => panel \in opened
  /\ \A r \in DOMAIN server_users :
       server_users[r].addr_data # NoAddr => AtPanel(server_users[r].addr_data)
  /\ \A k \in DOMAIN net : AtPanel(net[k].to)
  /\ cb.pc \in {"active", "reply"} => AtPanel(cb.from)

\* The channel that a user is at, or is being taken to.
Heading(r) ==
  IF cb.pc = "active" /\ cb.user = r THEN cb.channel_id
  ELSE server_users[r].active_channel_id

\* Without a race, whatever goes to the panel on show is about its channel.  Its user
\* is at no channel if the write of it was lost; no message is of channel 0.
OnChannel ==
  /\ \A r \in DOMAIN server_users :
       server_users[r].addr_data = Endpoint(panel) => Heading(r) \in {0, panel[2]}
  /\ \A k \in DOMAIN net : net[k].to = Endpoint(panel) =>
       \A i \in DOMAIN net[k].rows : net[k].rows[i].channel_id = panel[2]
  /\ cb.pc \in {"active", "reply"} /\ cb.from = Endpoint(panel) => cb.channel_id = panel[2]
  /\ \A m \in answer \cup {x.id : x \in list} :
       m \in DOMAIN messages /\ messages[m].channel_id = panel[2]

Followed == panel # NoPanel /\ ~strayed => OnChannel

\* The client's own user, at an address of the client.
AtClient(r) == server_users[r].addr_data # NoAddr /\ IpOf(server_users[r].addr_data) = Client

\* A step of the host without a request of the client's to load a channel moves its
\* user to no new address and to no other channel, although the write of the channel
\* may be lost.
LEMMA HeadingStep ==
  ASSUME TypeOK, UsersMatchTable, MovedUser, [Next]_vars,
         \A e \in Endpoints, c \in Channels : LoadChannelBegin(e, c) => IpOf(e) # Client,
         NEW r \in DOMAIN server_users', AtClient(r)'
  PROVE  /\ r \in DOMAIN server_users
         /\ server_users'[r].addr_data = server_users[r].addr_data
         /\ Heading(r)' \in {0, Heading(r)}
<1> DEFINE Same == /\ r \in DOMAIN server_users
                   /\ server_users'[r].addr_data = server_users[r].addr_data
                   /\ server_users'[r].active_channel_id = server_users[r].active_channel_id
           Goal == /\ r \in DOMAIN server_users
                   /\ server_users'[r].addr_data = server_users[r].addr_data
                   /\ Heading(r)' \in {0, Heading(r)}
<1>0. server_users \in [DOMAIN server_users -> UserRecord]
  BY DEF TypeOK, UsersOK
<1>1. ASSUME Same, UNCHANGED cb \/ (cb.pc # "active" /\ cb'.pc # "active") PROVE Goal
  BY <1>1 DEF Heading
<1>2. CASE StartCreate \/ StopBegin \/ (GuiStep /\ ~StartPush /\ ~StopClear)
  <2>1. UNCHANGED <<server_users, cb>>
    BY <1>2 DEF StartCreate, StopBegin, GuiStep, StartAssign, StartSelect, StartFlag,
                StartThread, StopCleanup, StopForget, StopFlag, StopJoin
  <2>2. QED BY <1>1, <2>1
<1>3. CASE StartPush
  <2>1. PICK q \in DOMAIN loading :
          /\ DOMAIN server_users' = DOMAIN server_users \cup {q}
          /\ server_users'[q] = LoadedUser(loading[q])
          /\ \A s \in DOMAIN server_users : s # q => server_users'[s] = server_users[s]
    BY <1>3, StartPushEffect
  <2>2. r # q
    BY <2>1 DEF LoadedUser, AtClient
  <2>3. Same
    BY <2>1, <2>2
  <2>4. cb'.pc = cb.pc /\ cb'.user = cb.user /\ cb'.channel_id = cb.channel_id
    BY <1>3, StartPushCallback
  <2>5. QED BY <2>3, <2>4 DEF Heading
<1>4. CASE StopClear \/ SendMessageNoUsername \/ MovedUserAbort \/ JoinServerAbort
           \/ CbNullServer \/ BgNullServer \/ Crash
  BY <1>4 DEF StopClear, SendMessageNoUsername, MovedUserAbort, JoinServerAbort, CbNullServer,
              BgNullServer, Crash, HostDown, ResetProcess, NoUsers
<1>5. CASE LoadChannelReply \/ SendMessageInsert \/ SendMessagePush \/ SendMessageFailed
  <2>1. UNCHANGED server_users /\ cb.pc \in {"reply", "insert", "push"}
    BY <1>5 DEF LoadChannelReply, SendMessageInsert, SendMessagePush, SendMessageFailed
  <2>2. cb'.pc # "active"
    <3>1. cb \in CallbackRecord
      BY DEF TypeOK, CallbackOK
    <3>2. CASE LoadChannelReply
      BY <3>2 DEF LoadChannelReply, IdleCallback
    <3>3. CASE SendMessageInsert
      BY <3>1, <3>3 DEF SendMessageInsert, CallbackRecord
    <3>4. CASE SendMessagePush \/ SendMessageFailed
      BY <3>1, <3>4 DEF SendMessagePush, SendMessageFailed, CallbackRecord
    <3>5. QED BY <1>5, <3>2, <3>3, <3>4
  <2>3. QED BY <1>1, <2>1, <2>2
<1>6. CASE SendMessageOnline
  <2>1. /\ MarkUserOnline(cb.user) /\ cb' = IdleCallback /\ cb.pc # "active"
        /\ cb.user \in DOMAIN server_users
    BY <1>6 DEF SendMessageOnline, TypeOK, CallbackOK
  <2>2. Same
    BY <1>0, <2>1 DEF MarkUserOnline, UserRecord
  <2>3. QED BY <1>1, <2>1, <2>2 DEF IdleCallback
<1>a. CASE MovedUserWrite
  <2>1. UNCHANGED server_users /\ cb.moved /\ cb.pc \in {"active", "online"}
    BY <1>a DEF MovedUserWrite
  <2>2. cb'.pc # "active"
    <3>1. CASE cb.pc = "active"
      BY <1>a, <3>1 DEF MovedUserWrite, TypeOK, CallbackOK, CallbackRecord
    <3>2. CASE cb.pc # "active"
      BY <1>a, <3>2 DEF MovedUserWrite, IdleCallback
    <3>3. QED BY <3>1, <3>2
  <2>3. cb.pc = "active" => server_users[cb.user].active_channel_id = 0
    BY <2>1 DEF MovedUser
  <2>4. QED BY <2>1, <2>2, <2>3 DEF Heading
<1>7. CASE LoadChannelActive
  <2>1. /\ cb.pc = "active" /\ cb'.pc = "reply" /\ cb.user \in DOMAIN server_users
        /\ server_users' =
             [server_users EXCEPT ![cb.user].active_channel_id = cb.channel_id]
    BY <1>7 DEF LoadChannelActive, TypeOK, CallbackOK
  <2>2. /\ r \in DOMAIN server_users
        /\ server_users'[r].addr_data = server_users[r].addr_data
        /\ r = cb.user => server_users'[r].active_channel_id = cb.channel_id
        /\ r # cb.user =>
             server_users'[r].active_channel_id = server_users[r].active_channel_id
    BY <1>0, <2>1 DEF UserRecord
  <2>3. QED BY <2>1, <2>2 DEF Heading
<1>8. CASE BgLoop \/ BgClear
  <2>1. UNCHANGED <<server_users, cb>>
    BY <1>8 DEF BgLoop, BgClear
  <2>2. QED BY <1>1, <2>1
<1>9. ASSUME NEW s \in bg.todo, BgUser(s) \/ BgStaleUser(s) \/ BgSend(s) PROVE Goal
  <2>1. UNCHANGED <<server_users, cb>>
    BY <1>9 DEF BgUser, BgStaleUser, BgSend
  <2>2. QED BY <1>1, <2>1
<1>10. ASSUME NEW s \in bg.todo, BgAnswer(s) \/ BgTimeout(s) \/ BgWipe(s) PROVE Goal
  <2>1. s \in DOMAIN server_users /\ UNCHANGED cb
    BY <1>10 DEF BgAnswer, BgTimeout, BgWipe
  <2>2. CASE BgAnswer(s)
    <3>1. MarkUserOnline(s)
      BY <2>2 DEF BgAnswer
    <3>2. Same
      BY <1>0, <2>1, <3>1 DEF MarkUserOnline, UserRecord
    <3>3. QED BY <1>1, <2>1, <3>2
  <2>3. CASE BgTimeout(s)
    <3>1. server_users' = [server_users EXCEPT ![s].status = "OFFLINE"]
      BY <2>3 DEF BgTimeout
    <3>2. Same
      BY <1>0, <2>1, <3>1 DEF UserRecord
    <3>3. QED BY <1>1, <2>1, <3>2
  <2>4. CASE BgWipe(s)
    <3>1. server_users' = [server_users EXCEPT ![s].addr_data = NoAddr]
      BY <2>4 DEF BgWipe
    <3>2. server_users'[s].addr_data = NoAddr
      BY <1>0, <2>1, <3>1 DEF UserRecord
    <3>3. r # s
      BY <3>2 DEF AtClient
    <3>4. Same
      BY <1>0, <2>1, <3>1, <3>3
    <3>5. QED BY <1>1, <2>1, <3>4
  <2>5. QED BY <1>10, <2>2, <2>3, <2>4
<1>11. ASSUME NEW e \in Endpoints, NEW c \in Channels, LoadChannelBegin(e, c) PROVE Goal
  <2>1. IpOf(e) # Client /\ cb.pc = "idle"
    BY <1>11 DEF LoadChannelBegin, CanReceive
  <2>2. PICK s \in GetUserByAddrData(e) :
          \/ /\ server_users' = [server_users EXCEPT ![s].active_channel_id = c]
             /\ cb' = [IdleCallback EXCEPT !.pc = "reply", !.from = e, !.channel_id = c]
          \/ /\ server_users' = [server_users EXCEPT ![s] =
                  [@ EXCEPT !.addr_data = e, !.status = "ONLINE", !.fresh = TRUE]]
             /\ cb' = [IdleCallback EXCEPT !.pc = "active", !.from = e,
                         !.channel_id = c, !.user = s]
    BY <1>11 DEF LoadChannelBegin
  <2>3. s \in DOMAIN server_users /\ server_users[s].data.ip_address # Client
    BY <2>1, <2>2 DEF GetUserByAddrData
  <2>4. server_users'[s].addr_data \in {server_users[s].addr_data, e}
    <3>1. server_users[s] \in UserRecord
      BY <1>0, <2>3
    <3>2. CASE server_users' = [server_users EXCEPT ![s].active_channel_id = c]
      BY <2>3, <3>1, <3>2 DEF UserRecord
    <3>3. CASE server_users' = [server_users EXCEPT ![s] =
                  [@ EXCEPT !.addr_data = e, !.status = "ONLINE", !.fresh = TRUE]]
      BY <2>3, <3>1, <3>3 DEF UserRecord
    <3>4. QED BY <2>2, <3>2, <3>3
  <2>5. r # s
    BY <2>1, <2>3, <2>4 DEF AtClient, UsersMatchTable
  <2>6. Same
    BY <1>0, <2>2, <2>3, <2>5
  <2>7. cb'.pc = "active" => cb'.user = s
    BY <2>2 DEF IdleCallback
  <2>8. QED BY <2>1, <2>5, <2>6, <2>7 DEF Heading
<1>12. ASSUME NEW e \in Endpoints,
              (\E c \in Channels : SendMessageBegin(e, c)) \/ JoinServerInsert(e)
              \/ CreateNewChannel
       PROVE  Goal
  <2>1. ASSUME NEW c \in Channels, SendMessageBegin(e, c) PROVE Goal
    <3>1. UNCHANGED server_users /\ cb.pc # "active" /\ cb'.pc # "active"
      BY <2>1 DEF SendMessageBegin, CanReceive
    <3>2. QED BY <1>1, <3>1
  <2>2. CASE JoinServerInsert(e)
    <3>1. UNCHANGED server_users /\ cb.pc # "active" /\ cb'.pc # "active"
      BY <2>2 DEF JoinServerInsert, CanReceive, IdleCallback
    <3>2. QED BY <1>1, <3>1
  <2>3. CASE CreateNewChannel
    BY <1>1, <2>3 DEF CreateNewChannel
  <2>4. QED BY <1>12, <2>1, <2>2, <2>3
<1>13. CASE Launch \/ UNCHANGED vars
  <2>1. UNCHANGED <<server_users, cb>>
    BY <1>13 DEF Launch, vars
  <2>2. QED BY <1>1, <2>1
<1>14. ASSUME NEW s \in DOMAIN server_users, TimePasses(s) PROVE Goal
  <2>1. Same /\ UNCHANGED cb
    BY <1>0, <1>14 DEF TimePasses, UserRecord
  <2>2. QED BY <1>1, <2>1
<1>15. QED
  BY <1>2, <1>3, <1>4, <1>5, <1>6, <1>a, <1>7, <1>8, <1>9, <1>10, <1>11, <1>12, <1>13,
     <1>14
     DEF Next, GuiStep, CallbackStep, BackgroundStep, PacketCallback

\* A handler that loads a channel goes on with the request it began with.
LEMMA RequestStep ==
  ASSUME TypeOK, [Next]_vars, cb'.pc \in {"active", "reply"},
         \A e \in Endpoints, c \in Channels : LoadChannelBegin(e, c) => IpOf(e) # Client,
         IpOf(cb'.from) = Client
  PROVE  cb.pc \in {"active", "reply"} /\ cb'.from = cb.from /\ cb'.channel_id = cb.channel_id
<1>1. ASSUME NEW e \in Endpoints, NEW c \in Channels, LoadChannelBegin(e, c) PROVE FALSE
  <2>1. cb'.from = e
    BY <1>1 DEF LoadChannelBegin, IdleCallback
  <2>2. QED BY <1>1, <2>1
<1>2. CASE SendMessageInsert
  BY <1>2 DEF SendMessageInsert, TypeOK, CallbackOK, CallbackRecord
<1>3. CASE ~SendMessageInsert
  BY <1>1, <1>3, HandlerStep
<1>4. QED BY <1>2, <1>3

\* The host handles no request of the client's to load a channel but in HandleLoad.
LEMMA ClientLoads ==
  ASSUME [SystemNext]_systemVars, NEW e \in Endpoints, NEW c \in Channels,
         LoadChannelBegin(e, c), IpOf(e) = Client
  PROVE  \E pan \in opened : HandleLoad(pan)
<1>1. /\ cb.pc = "idle" /\ cb'.pc \in {"active", "reply"} /\ cb'.from = e
      /\ UNCHANGED bg
  BY DEF LoadChannelBegin, CanReceive, IdleCallback
<1>2. cb' # cb
  BY <1>1
<1>3. ASSUME UNCHANGED systemVars \/ Assign \/ LoadFails
             \/ (\E port \in Ports, d \in Channels : SelectChannel(port, d))
             \/ (\E k \in DOMAIN net : HandlePeriodicChatUpdate(k))
      PROVE  FALSE
  BY <1>2, <1>3 DEF systemVars, Assign, LoadFails, SelectChannel, HandlePeriodicChatUpdate,
                    host, vars
<1>4. ASSUME NEW pan \in opened, HandleSend(pan) PROVE FALSE
  BY <1>1, <1>4 DEF HandleSend, SendMessageBegin
<1>5. ~Reply
  BY <1>1 DEF Reply, LoadChannelReply
<1>6. ~Broadcast
  BY <1>2 DEF Broadcast, BgSend
<1>7. ASSUME HostStep PROVE FALSE
  <2>1. CASE StartCreate \/ StopBegin \/ GuiStep
    BY <1>1, <1>2, <2>1
       DEF StartCreate, StopBegin, GuiStep, StartAssign, StartSelect, StartPush, StartFlag,
           StartThread, StopCleanup, StopForget, StopClear, StopFlag, StopJoin
  <2>2. CASE Crash \/ Launch \/ \E r \in DOMAIN server_users : TimePasses(r)
    BY <1>1, <1>2, <2>2 DEF Crash, Launch, TimePasses, HostDown, ResetProcess, IdleCallback
  <2>3. CASE LoadChannelActive \/ SendMessageInsert \/ SendMessageNoUsername
             \/ SendMessagePush \/ SendMessageFailed \/ SendMessageOnline
             \/ MovedUserAbort \/ MovedUserWrite \/ JoinServerAbort \/ CbNullServer
    BY <1>1, <2>3 DEF LoadChannelActive, SendMessageInsert, SendMessageNoUsername,
                      SendMessagePush, SendMessageFailed, SendMessageOnline, UsesUser,
                      MovedUserAbort, MovedUserWrite, JoinServerAbort, CbNullServer
  <2>4. CASE BgLoop \/ BgClear \/ BgNullServer
    BY <1>1, <1>2, <2>4 DEF BgLoop, BgClear, BgNullServer, HostDown, ResetProcess,
                            IdleCallback
  <2>5. ASSUME NEW r \in bg.todo,
               BgUser(r) \/ BgStaleUser(r) \/ BgAnswer(r) \/ BgTimeout(r) \/ BgWipe(r)
        PROVE  FALSE
    BY <1>2, <2>5 DEF BgUser, BgStaleUser, BgAnswer, BgTimeout, BgWipe
  <2>6. ASSUME NEW f \in Endpoints, JoinServerInsert(f) \/ CreateNewChannel PROVE FALSE
    BY <1>1, <1>2, <2>6 DEF JoinServerInsert, CreateNewChannel, IdleCallback
  <2>7. ASSUME NEW f \in Endpoints, IpOf(f) # Client, NEW d \in Channels,
               LoadChannelBegin(f, d)
        PROVE  FALSE
    <3>1. cb'.from = f
      BY <2>7 DEF LoadChannelBegin, IdleCallback
    <3>2. QED BY <1>1, <2>7, <3>1
  <2>8. ASSUME NEW f \in Endpoints, NEW d \in Channels, SendMessageBegin(f, d)
        PROVE  FALSE
    BY <1>1, <2>8 DEF SendMessageBegin
  <2>9. QED
    BY <1>7, <2>1, <2>2, <2>3, <2>4, <2>5, <2>6, <2>7, <2>8 DEF HostStep
<1>8. QED BY <1>3, <1>4, <1>5, <1>6, <1>7 DEF SystemNext

\* A request of the client's that the host begins to handle moves one user, and no other.
LEMMA LoadStep ==
  ASSUME TypeOK, NEW pan \in opened, opened \subseteq Ports \X Channels, HandleLoad(pan)
  PROVE  /\ DOMAIN server_users' = DOMAIN server_users
         /\ cb.pc = "idle" /\ cb'.from = Endpoint(pan) /\ cb'.channel_id = pan[2]
         /\ cb'.pc \in {"active", "reply"}
         /\ \E s \in DOMAIN server_users :
              /\ server_users'[s].addr_data \in {server_users[s].addr_data, Endpoint(pan)}
              /\ Heading(s)' = pan[2]
              /\ \A r \in DOMAIN server_users :
                   r # s => server_users'[r] = server_users[r] /\ Heading(r)' = Heading(r)
<1> DEFINE e == Endpoint(pan)
           c == pan[2]
<1>0. server_users \in [DOMAIN server_users -> UserRecord]
  BY DEF TypeOK, UsersOK
<1>1. LoadChannelBegin(e, c) /\ cb.pc = "idle"
  BY DEF HandleLoad, LoadChannelBegin, CanReceive
<1>2. PICK s \in GetUserByAddrData(e) :
        \/ /\ server_users' = [server_users EXCEPT ![s].active_channel_id = c]
           /\ cb' = [IdleCallback EXCEPT !.pc = "reply", !.from = e, !.channel_id = c]
        \/ /\ server_users' = [server_users EXCEPT ![s] =
                [@ EXCEPT !.addr_data = e, !.status = "ONLINE", !.fresh = TRUE]]
           /\ cb' = [IdleCallback EXCEPT !.pc = "active", !.from = e,
                       !.channel_id = c, !.user = s]
  BY <1>1 DEF LoadChannelBegin
<1>3. s \in DOMAIN server_users /\ server_users[s] \in UserRecord
  BY <1>0, <1>2 DEF GetUserByAddrData
<1>4. CASE /\ server_users' = [server_users EXCEPT ![s].active_channel_id = c]
           /\ cb' = [IdleCallback EXCEPT !.pc = "reply", !.from = e, !.channel_id = c]
  <2>1. cb'.pc = "reply" /\ cb'.from = e /\ cb'.channel_id = c
    BY <1>4 DEF IdleCallback
  <2>2. /\ DOMAIN server_users' = DOMAIN server_users
        /\ server_users'[s].addr_data = server_users[s].addr_data
        /\ server_users'[s].active_channel_id = c
        /\ \A r \in DOMAIN server_users : r # s => server_users'[r] = server_users[r]
    BY <1>0, <1>3, <1>4 DEF UserRecord
  <2>3. Heading(s)' = c
    BY <2>1, <2>2 DEF Heading
  <2>4. \A r \in DOMAIN server_users : r # s => Heading(r)' = Heading(r)
    BY <1>1, <2>1, <2>2 DEF Heading
  <2>5. QED BY <1>1, <1>3, <2>1, <2>2, <2>3, <2>4
<1>5. CASE /\ server_users' = [server_users EXCEPT ![s] =
                [@ EXCEPT !.addr_data = e, !.status = "ONLINE", !.fresh = TRUE]]
           /\ cb' = [IdleCallback EXCEPT !.pc = "active", !.from = e,
                       !.channel_id = c, !.user = s]
  <2>1. cb'.pc = "active" /\ cb'.from = e /\ cb'.channel_id = c /\ cb'.user = s
    BY <1>5 DEF IdleCallback
  <2>2. /\ DOMAIN server_users' = DOMAIN server_users
        /\ server_users'[s].addr_data = e
        /\ \A r \in DOMAIN server_users : r # s => server_users'[r] = server_users[r]
    BY <1>0, <1>3, <1>5 DEF UserRecord
  <2>3. Heading(s)' = c
    BY <2>1 DEF Heading
  <2>4. \A r \in DOMAIN server_users : r # s => Heading(r)' = Heading(r)
    BY <1>1, <2>1, <2>2 DEF Heading
  <2>5. QED BY <1>1, <1>3, <2>1, <2>2, <2>3, <2>4
<1>6. QED BY <1>2, <1>4, <1>5

\* Every step keeps the addresses of the client addresses of its panels.
LEMMA KnownStep ==
  ASSUME TypeOK, UsersMatchTable, MovedUser, KnownAddresses, opened \subseteq Ports \X Channels,
         [SystemNext]_systemVars
  PROVE  KnownAddresses'
<1>1. [Next]_vars
  BY SystemStepIsHostStep
<1>2. opened \subseteq opened'
  BY DEF SystemNext, systemVars, client, SelectChannel, Assign, LoadFails,
         HandlePeriodicChatUpdate, HandleLoad, HandleSend, Reply, Broadcast, HostStep
<1>3. ASSUME NEW e, AtPanel(e) PROVE IpOf(e) = Client => \E pan \in opened' : e = Endpoint(pan)
  BY <1>2, <1>3 DEF AtPanel
<1>4. /\ panel' = NoPanel => list' = {} /\ answer' = {} /\ load' = "done"
      /\ panel' # NoPanel => panel' \in opened'
  <2>1. ASSUME NEW port \in Ports, NEW c \in Channels, SelectChannel(port, c)
        PROVE  panel' # NoPanel /\ panel' \in opened'
    BY <2>1, ClientAssumption DEF SelectChannel
  <2>2. CASE Assign \/ LoadFails
    BY <1>2, <2>2 DEF Assign, LoadFails, KnownAddresses
  <2>3. ASSUME NEW k \in DOMAIN net, HandlePeriodicChatUpdate(k)
        PROVE  panel # NoPanel /\ panel' = panel
    BY <2>3 DEF HandlePeriodicChatUpdate, Unread
  <2>4. CASE Reply
    <3>1. UNCHANGED <<panel, list>>
      BY <2>4 DEF Reply
    <3>2. UNCHANGED <<load, answer>> \/ load = "waiting"
      BY <2>4 DEF Reply
    <3>3. QED BY <1>2, <3>1, <3>2 DEF KnownAddresses
  <2>5. CASE UNCHANGED <<panel, list, answer, load>>
    BY <1>2, <2>5 DEF KnownAddresses
  <2>6. QED
    BY <1>2, <2>1, <2>2, <2>3, <2>4, <2>5
       DEF SystemNext, systemVars, client, HandleLoad, HandleSend, Broadcast, HostStep,
           KnownAddresses
<1>5. ASSUME NEW pan \in opened, HandleLoad(pan)
      PROVE  KnownAddresses'
  <2>1. UNCHANGED net
    BY <1>5 DEF HandleLoad, LoadChannelBegin
  <2>2. AtPanel(Endpoint(pan))
    BY DEF AtPanel
  <2>3. AtPanel(cb'.from)
    BY <1>5, <2>2, LoadStep
  <2>4. ASSUME NEW r \in DOMAIN server_users', server_users'[r].addr_data # NoAddr
        PROVE  AtPanel(server_users'[r].addr_data)
    <3>1. /\ r \in DOMAIN server_users
          /\ server_users'[r].addr_data \in {server_users[r].addr_data, Endpoint(pan)}
      BY <1>5, <2>4, LoadStep
    <3>2. QED BY <2>2, <2>4, <3>1 DEF KnownAddresses
  <2>5. QED BY <1>3, <1>4, <2>1, <2>3, <2>4 DEF KnownAddresses, AtPanel, Endpoint
<1>6. CASE \A pan \in opened : ~HandleLoad(pan)
  <2>1. \A e \in Endpoints, c \in Channels : LoadChannelBegin(e, c) => IpOf(e) # Client
    BY <1>6, ClientLoads
  <2>2. ASSUME NEW r \in DOMAIN server_users', server_users'[r].addr_data # NoAddr,
               IpOf(server_users'[r].addr_data) = Client
        PROVE  AtPanel(server_users'[r].addr_data)
    <3>1. AtClient(r)'
      BY <2>2 DEF AtClient
    <3>2. r \in DOMAIN server_users /\ server_users'[r].addr_data = server_users[r].addr_data
      BY <1>1, <2>1, <3>1, HeadingStep
    <3>3. QED BY <2>2, <3>2 DEF KnownAddresses
  <2>3. ASSUME NEW k \in DOMAIN net' PROVE AtPanel(net'[k].to)
    <3>1. CASE k \in DOMAIN net
      BY <1>1, <3>1, PacketsStay DEF KnownAddresses
    <3>2. CASE k \notin DOMAIN net
      <4>1. PICK r \in DOMAIN server_users :
              server_users[r].addr_data # NoAddr /\ net'[k].to = server_users[r].addr_data
        <5>1. ~UNCHANGED net
          BY <2>3, <3>2
        <5>2. PICK r \in bg.todo :
                /\ r \in DOMAIN server_users /\ server_users[r].addr_data # NoAddr
                /\ DOMAIN net' = 1..(Len(net) + 1) /\ DOMAIN net = 1..Len(net)
                /\ Len(net) \in Nat
                /\ net'[Len(net) + 1].to = server_users[r].addr_data
          BY <1>1, <5>1, NetStep
        <5>3. k = Len(net) + 1
          BY <2>3, <3>2, <5>2
        <5>4. QED BY <5>2, <5>3
      <4>2. QED BY <4>1 DEF KnownAddresses
    <3>3. QED BY <3>1, <3>2
  <2>4. ASSUME cb'.pc \in {"active", "reply"}, IpOf(cb'.from) = Client
        PROVE  AtPanel(cb'.from)
    <3>1. cb.pc \in {"active", "reply"} /\ cb'.from = cb.from
      BY <1>1, <2>1, <2>4, RequestStep
    <3>2. QED BY <3>1 DEF KnownAddresses
  <2>5. QED BY <1>3, <1>4, <2>2, <2>3, <2>4 DEF KnownAddresses, AtPanel, Endpoint
<1>7. QED BY <1>5, <1>6

\* Only the broadcast sends an update.
LEMMA QuietStep ==
  ASSUME [SystemNext]_systemVars, ~Broadcast
  PROVE  UNCHANGED net
<1>1. ASSUME UNCHANGED systemVars \/ Assign \/ LoadFails
             \/ (\E port \in Ports, c \in Channels : SelectChannel(port, c))
             \/ (\E k \in DOMAIN net : HandlePeriodicChatUpdate(k))
      PROVE  UNCHANGED net
  BY <1>1 DEF systemVars, Assign, LoadFails, SelectChannel, HandlePeriodicChatUpdate,
              host, vars
<1>2. ASSUME NEW pan \in opened, HandleLoad(pan) \/ HandleSend(pan) PROVE UNCHANGED net
  BY <1>2 DEF HandleLoad, HandleSend, LoadChannelBegin, SendMessageBegin
<1>3. CASE Reply
  BY <1>3 DEF Reply, LoadChannelReply
<1>4. CASE HostStep
  <2>1. CASE StartCreate \/ StopBegin \/ GuiStep
    BY <2>1 DEF StartCreate, StopBegin, GuiStep, StartAssign, StartSelect, StartPush,
                StartFlag, StartThread, StopCleanup, StopForget, StopClear, StopFlag, StopJoin
  <2>2. CASE Crash \/ Launch \/ \E r \in DOMAIN server_users : TimePasses(r)
    BY <2>2 DEF Crash, Launch, TimePasses
  <2>3. CASE LoadChannelActive \/ SendMessageInsert \/ SendMessageNoUsername
             \/ SendMessagePush \/ SendMessageFailed \/ SendMessageOnline
             \/ MovedUserAbort \/ MovedUserWrite \/ JoinServerAbort \/ CbNullServer
    BY <2>3 DEF LoadChannelActive, SendMessageInsert, SendMessageNoUsername,
                SendMessagePush, SendMessageFailed, SendMessageOnline, MovedUserAbort,
                MovedUserWrite, JoinServerAbort, CbNullServer
  <2>4. CASE BgLoop \/ BgClear \/ BgNullServer
    BY <2>4 DEF BgLoop, BgClear, BgNullServer
  <2>5. ASSUME NEW r \in bg.todo,
               BgUser(r) \/ BgStaleUser(r) \/ BgAnswer(r) \/ BgTimeout(r) \/ BgWipe(r)
        PROVE  UNCHANGED net
    BY <2>5 DEF BgUser, BgStaleUser, BgAnswer, BgTimeout, BgWipe
  <2>6. ASSUME NEW e \in Endpoints,
               \/ JoinServerInsert(e) \/ CreateNewChannel
               \/ \E c \in Channels : LoadChannelBegin(e, c) \/ SendMessageBegin(e, c)
        PROVE  UNCHANGED net
    BY <2>6 DEF JoinServerInsert, CreateNewChannel, LoadChannelBegin, SendMessageBegin
  <2>7. QED BY <1>4, <2>1, <2>2, <2>3, <2>4, <2>5, <2>6 DEF HostStep
<1>5. QED BY <1>1, <1>2, <1>3, <1>4 DEF SystemNext

\* What comes into the list or the answer is about the channel of the panel.
LEMMA ShownStep ==
  ASSUME TypeOK, KnownAddresses, FeedPersisted, panel # NoPanel, OnChannel, [Next]_vars,
         panel' = panel, [SystemNext]_systemVars
  PROVE  \A m \in answer' \cup {x.id : x \in list'} :
           m \in DOMAIN messages' /\ messages'[m].channel_id = panel[2]
<1> DEFINE Right(m) == m \in DOMAIN messages /\ messages[m].channel_id = panel[2]
<1>1. \A m : Right(m) => m \in DOMAIN messages' /\ messages'[m].channel_id = panel[2]
  <2>1. /\ Len(messages) \in Nat /\ Len(messages') \in Nat /\ Len(messages) <= Len(messages')
        /\ DOMAIN messages = 1..Len(messages) /\ DOMAIN messages' = 1..Len(messages')
        /\ \A m \in DOMAIN messages : messages'[m] = messages[m]
    BY MessagesGrow
  <2>2. QED BY <2>1
<1>2. \A m \in answer \cup {x.id : x \in list} : Right(m)
  BY DEF OnChannel
<1>3. \A m \in answer' \cup {x.id : x \in list'} : Right(m)
  <2>1. CASE UNCHANGED <<answer, list>>
    BY <1>2, <2>1
  <2>2. CASE answer' = {} /\ UNCHANGED list
    BY <1>2, <2>2
  <2>3. CASE answer' = {} /\ list' = {}
    BY <2>3
  <2>4. CASE Assign
    <3>1. answer' = {} /\ \A x \in list' : x.id \in answer
      BY <2>4 DEF Assign
    <3>2. QED BY <1>2, <3>1
  <2>5. ASSUME NEW k \in DOMAIN net, HandlePeriodicChatUpdate(k)
        PROVE  \A m \in answer' \cup {x.id : x \in list'} : Right(m)
    <3>1. net[k].to = Endpoint(panel) /\ answer' = answer /\ list' = list \cup Inserted(k)
      BY <2>5 DEF HandlePeriodicChatUpdate, Unread
    <3>2. ASSUME NEW x \in Inserted(k) PROVE Right(x.id)
      <4>1. PICK i \in DOMAIN net[k].rows : x.id = net[k].rows[i].id
        BY DEF Inserted
      <4>2. net[k].rows[i].channel_id = panel[2]
        BY <3>1 DEF OnChannel
      <4>3. Stored(net[k].rows[i])
        BY DEF FeedPersisted
      <4>4. QED BY <4>1, <4>2, <4>3 DEF Stored, SelectChannelMessages
    <3>3. QED BY <1>2, <3>1, <3>2
  <2>6. CASE Reply
    <3>1. CASE UNCHANGED <<load, answer, pending>>
      BY <1>2, <2>6, <3>1 DEF Reply
    <3>2. CASE cb.from = Endpoint(panel) /\ answer' = DOMAIN ReplyMessages
      <4>1. cb.pc = "reply" /\ list' = list
        BY <2>6 DEF Reply, LoadChannelReply
      <4>2. cb.channel_id = panel[2]
        BY <3>2, <4>1 DEF OnChannel
      <4>3. QED
        BY <1>2, <3>2, <4>1, <4>2 DEF ReplyMessages, SelectChannelMessages
    <3>3. QED BY <2>6, <3>1, <3>2 DEF Reply
  <2>7. QED
    BY <2>1, <2>2, <2>3, <2>4, <2>5, <2>6
       DEF SystemNext, systemVars, client, SelectChannel, LoadFails, HandleLoad, HandleSend,
           Broadcast, HostStep
<1>4. QED BY <1>1, <1>3

\* A packet sent without a race is about the channel its user is at.
LEMMA UpdateStep ==
  ASSUME TypeOK, panel # NoPanel, OnChannel, [Next]_vars, panel' = panel, ~strayed',
         [SystemNext]_systemVars
  PROVE  \A k \in DOMAIN net' : net'[k].to = Endpoint(panel) =>
           \A i \in DOMAIN net'[k].rows : net'[k].rows[i].channel_id = panel[2]
<1>1. CASE UNCHANGED net
  BY <1>1 DEF OnChannel
<1>2. CASE ~UNCHANGED net
  <2>1. Broadcast
    BY <1>2, QuietStep
  <2>2. PICK r \in bg.todo : BgSend(r) /\ ~Overtaken(r)
    BY <2>1 DEF Broadcast
  <2>3. PICK s \in bg.todo :
          /\ BgSend(s) /\ s \in DOMAIN server_users
          /\ DOMAIN net' = 1..(Len(net) + 1) /\ DOMAIN net = 1..Len(net)
          /\ Len(net) \in Nat
          /\ \A k \in DOMAIN net : net'[k] = net[k]
          /\ net'[Len(net) + 1].to = server_users[s].addr_data
          /\ net'[Len(net) + 1].rows = ActiveRows(s)
    BY <1>2, NetStep
  <2>4. s = r
    <3>1. r \in Nat /\ s \in Nat
      BY DEF TypeOK, ThreadOK
    <3>2. r <= s /\ s <= r
      BY <2>2, <2>3 DEF BgSend, AtUser
    <3>3. QED BY <3>1, <3>2
  <2>5. ASSUME server_users[s].addr_data = Endpoint(panel), NEW i \in DOMAIN ActiveRows(s)
        PROVE  ActiveRows(s)[i].channel_id = panel[2]
    <3>1. ActiveRows(s)[i].channel_id = server_users[s].active_channel_id
      BY ActiveRowsOfBatch
    <3>2. Heading(s) = server_users[s].active_channel_id
      BY <2>2, <2>4 DEF Heading, Overtaken
    <3>3. ActiveRows(s)[i].channel_id \in Nat \ {0}
      <4>1. i \in DOMAIN bg.batch /\ ActiveRows(s)[i] = bg.batch[i]
        BY ActiveRowsOfBatch
      <4>2. bg.batch[i] \in QueueRow
        BY <4>1 DEF TypeOK, ThreadOK
      <4>3. QED BY <4>1, <4>2, ServerAssumption DEF QueueRow
    <3>4. QED BY <2>3, <2>5, <3>1, <3>2, <3>3 DEF OnChannel
  <2>6. ASSUME NEW k \in DOMAIN net', net'[k].to = Endpoint(panel),
               NEW i \in DOMAIN net'[k].rows
        PROVE  net'[k].rows[i].channel_id = panel[2]
    <3>1. CASE k \in DOMAIN net
      BY <2>3, <2>6, <3>1 DEF OnChannel
    <3>2. CASE k = Len(net) + 1
      BY <2>3, <2>5, <2>6, <3>2
    <3>3. QED BY <2>3, <2>6, <3>1, <3>2
  <2>7. QED BY <2>6
<1>3. QED BY <1>1, <1>2

\* Every step without a race keeps what goes to the panel about its channel.
LEMMA FollowedStep ==
  ASSUME TypeOK, UsersMatchTable, MovedUser, FeedPersisted, KnownAddresses, Followed,
         opened \subseteq Ports \X Channels, [SystemNext]_systemVars
  PROVE  Followed'
<1>1. [Next]_vars
  BY SystemStepIsHostStep
<1>2. SUFFICES ASSUME panel' # NoPanel, ~strayed' PROVE OnChannel'
  BY DEF Followed
<1>3. ASSUME NEW port \in Ports, NEW c \in Channels, SelectChannel(port, c)
      PROVE  OnChannel'
  <2>1. /\ UNCHANGED <<server_users, net, cb>> /\ answer' = {} /\ list' = {}
        /\ panel' = <<port, c>> /\ \A pan \in opened : pan[1] # port
    BY <1>3 DEF SelectChannel, host, vars
  <2>2. Endpoint(panel') = <<Client, port>>
    BY <2>1 DEF Endpoint
  <2>3. ~AtPanel(Endpoint(panel'))
    BY <2>1, <2>2 DEF AtPanel, IpOf, Endpoint
  <2>4. NoAddr # Endpoint(panel')
    BY <2>2, ServerAssumption, ClientAssumption DEF Endpoints
  <2>5. /\ \A r \in DOMAIN server_users : server_users[r].addr_data # Endpoint(panel')
        /\ \A k \in DOMAIN net : net[k].to # Endpoint(panel')
        /\ cb.pc \in {"active", "reply"} => cb.from # Endpoint(panel')
    BY <2>3, <2>4 DEF KnownAddresses
  <2>6. QED BY <2>1, <2>5 DEF OnChannel, Endpoint
<1>4. CASE \A port \in Ports, c \in Channels : ~SelectChannel(port, c)
  <2>1. panel' = panel /\ (strayed => strayed')
    <3>1. ASSUME NEW pan \in opened, HandleLoad(pan) PROVE panel' = panel /\ (strayed => strayed')
      BY <3>1, Zenon DEF HandleLoad
    <3>2. CASE Broadcast
      BY <3>2, Zenon DEF Broadcast
    <3>3. CASE ~Broadcast /\ \A pan \in opened : ~HandleLoad(pan)
      <4>1. UNCHANGED <<panel, strayed>>
        BY <1>4, <3>3 DEF SystemNext, systemVars, client, Assign, LoadFails,
           HandlePeriodicChatUpdate, HandleSend, Reply, HostStep
      <4>2. QED BY <4>1, Zenon
    <3>4. QED BY <3>1, <3>2, <3>3
  <2>2. panel # NoPanel /\ OnChannel
    BY <1>2, <2>1 DEF Followed
  <2>3. \A m \in answer' \cup {x.id : x \in list'} :
          m \in DOMAIN messages' /\ messages'[m].channel_id = panel[2]
    BY <1>1, <2>1, <2>2, ShownStep
  <2>4. \A k \in DOMAIN net' : net'[k].to = Endpoint(panel) =>
          \A i \in DOMAIN net'[k].rows : net'[k].rows[i].channel_id = panel[2]
    BY <1>1, <1>2, <2>1, <2>2, UpdateStep
  <2>5. ASSUME NEW pan \in opened, HandleLoad(pan)
        PROVE  /\ \A r \in DOMAIN server_users' :
                    server_users'[r].addr_data = Endpoint(panel) =>
                      Heading(r)' \in {0, panel[2]}
               /\ cb'.pc \in {"active", "reply"} /\ cb'.from = Endpoint(panel) =>
                    cb'.channel_id = panel[2]
    <3>1. pan = panel
      BY <1>2, <2>5 DEF HandleLoad
    <3>2. /\ DOMAIN server_users' = DOMAIN server_users
          /\ cb'.channel_id = pan[2]
      BY <2>5, LoadStep
    <3>3. PICK s \in DOMAIN server_users :
            /\ Heading(s)' = pan[2]
            /\ \A r \in DOMAIN server_users :
                 r # s => server_users'[r] = server_users[r] /\ Heading(r)' = Heading(r)
      BY <2>5, LoadStep
    <3>4. QED BY <2>2, <3>1, <3>2, <3>3 DEF OnChannel
  <2>6. ASSUME \A pan \in opened : ~HandleLoad(pan)
        PROVE  /\ \A r \in DOMAIN server_users' :
                    server_users'[r].addr_data = Endpoint(panel) =>
                      Heading(r)' \in {0, panel[2]}
               /\ cb'.pc \in {"active", "reply"} /\ cb'.from = Endpoint(panel) =>
                    cb'.channel_id = panel[2]
    <3>1. \A e \in Endpoints, c \in Channels : LoadChannelBegin(e, c) => IpOf(e) # Client
      BY <2>6, ClientLoads
    <3>2. panel \in Ports \X Channels
      BY <2>2 DEF KnownAddresses
    <3>3. IpOf(Endpoint(panel)) = Client /\ NoAddr # Endpoint(panel)
      BY <3>2, ServerAssumption, ClientAssumption DEF IpOf, Endpoint, Endpoints
    <3>4. ASSUME NEW r \in DOMAIN server_users', server_users'[r].addr_data = Endpoint(panel)
          PROVE  Heading(r)' \in {0, panel[2]}
      <4>1. AtClient(r)'
        BY <3>3, <3>4 DEF AtClient
      <4>2. /\ r \in DOMAIN server_users
            /\ server_users'[r].addr_data = server_users[r].addr_data
            /\ Heading(r)' \in {0, Heading(r)}
        BY <1>1, <3>1, <4>1, HeadingStep
      <4>3. QED BY <2>2, <3>4, <4>2 DEF OnChannel
    <3>5. ASSUME cb'.pc \in {"active", "reply"}, cb'.from = Endpoint(panel)
          PROVE  cb'.channel_id = panel[2]
      <4>1. /\ cb.pc \in {"active", "reply"} /\ cb'.from = cb.from
            /\ cb'.channel_id = cb.channel_id
        BY <1>1, <3>1, <3>3, <3>5, RequestStep
      <4>2. QED BY <2>2, <3>5, <4>1 DEF OnChannel
    <3>6. QED BY <3>4, <3>5
  <2>7. QED BY <2>1, <2>3, <2>4, <2>5, <2>6 DEF OnChannel, Endpoint
<1>5. QED BY <1>3, <1>4

\* For every instance: a panel shows a message of another channel only after the host
\* sent between a user's new address and its new channel, or served a panel that was gone.
THEOREM ForeignNeedsRace == SystemSpec => []ForeignOnlyAfterRace
<1>1. SystemInit => KnownAddresses /\ Followed
  BY DEF SystemInit, Init, KnownAddresses, Followed, NoUsers, IdleCallback
<1>2. TypeOK /\ UsersMatchTable /\ MovedUser /\ FeedPersisted /\ KnownAddresses /\ Followed
        /\ opened \subseteq Ports \X Channels /\ [SystemNext]_systemVars
        => (KnownAddresses /\ Followed)'
  BY KnownStep, FollowedStep
<1>3. KnownAddresses /\ Followed => ForeignOnlyAfterRace
  BY DEF KnownAddresses, Followed, OnChannel, ForeignOnlyAfterRace
<1>4. QED
  BY <1>1, <1>2, <1>3, OpenedType, SystemHasHost, TypeCorrect, UsersAndOrder,
     MovedUsers, FeedIsPersisted, PTL DEF SystemSpec
=============================================================================
