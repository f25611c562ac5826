----------------------------- MODULE ChatSystem -----------------------------
(***************************************************************************)
(* A hosted server together with one client host: HostedServer, and the    *)
(* panels that the client opens one after the other (chat_panel.cpp), each *)
(* on a connection, and so a port, of its own.                             *)
(*                                                                         *)
(* A panel asks once for its channel, LOAD_CHANNEL_DATA, and shows the     *)
(* answer and then every update that reaches it.  The request may be       *)
(* handled after the client gave up, or after the panel is gone; the       *)
(* answer may be lost; updates may be lost or overtake each other.  What   *)
(* the host sends is in net already; a packet is read at most once.        *)
(*                                                                         *)
(* What the client's two threads do to the list meanwhile is in ChatRoom;  *)
(* here each of their inserts is one step, and the order of the rows on    *)
(* show is left out.                                                       *)
(***************************************************************************)
EXTENDS HostedServer

CONSTANTS
  Client,   \* the client host
  NoPanel

ASSUME ClientAssumption == Client \in IPs /\ NoPanel \notin Ports \X Channels

VARIABLES
  opened,    \* every panel opened so far, as <<port, channel>>
  requests,  \* the panels whose LOAD_CHANNEL_DATA the host has not handled
  panel,     \* the panel on show
  load,      \* what its constructor is at
  answer,    \* the ids in the answer, once it has come
  list,      \* ChatPanel::channel_messages
  taken,     \* the places in net of the packets its handler has read
  pending,   \* history: stored when the answer was made, still to be sent or read
  strayed    \* history: an update was sent under another panel's channel

client == <<opened, requests, panel, load, answer, list, taken, pending, strayed>>
host == vars
systemVars == <<host, client>>

Endpoint(pan) == <<Client, pan[1]>>

-----------------------------------------------------------------------------
(* The client *)

\* A channel's button: the panel on show is deleted with its connection, its list and
\* its handler, and another built, which sends its request.
SelectChannel(port, c) ==
  /\ load = "done"
  /\ \A pan \in opened : pan[1] # port
  /\ panel' = <<port, c>>
  /\ opened' = opened \cup {panel'} /\ requests' = requests \cup {panel'}
  /\ load' = "waiting" /\ answer' = {} /\ list' = {} /\ taken' = {} /\ pending' = {}
  /\ UNCHANGED <<strayed, host>>

\* Mutant: the answer is added to the list.
AssignAppends ==
  /\ load = "answered" /\ load' = "done"
  /\ list' = list \cup {[packet |-> 0, place |-> m, id |-> m] : m \in answer}
  /\ answer' = {}
  /\ UNCHANGED <<opened, requests, panel, taken, pending, strayed, host>>

\* HandleLoadChannelDataRequest, lines 181-185: the answer replaces the list.
Assign ==
  /\ load = "answered" /\ load' = "done"
  /\ list' = {[packet |-> 0, place |-> m, id |-> m] : m \in answer}
  /\ answer' = {}
  /\ UNCHANGED <<opened, requests, panel, taken, pending, strayed, host>>

\* Lines 272-276, or an answer that is not SUCCESS: what came in live stays.
LoadFails ==
  /\ load # "done" /\ load' = "done" /\ answer' = {}
  /\ UNCHANGED <<opened, requests, panel, list, taken, pending, strayed, host>>

\* The packets sent to the panel on show that have not been read.
Unread ==
  IF panel = NoPanel THEN {}
  ELSE {k \in DOMAIN net : net[k].to = Endpoint(panel)} \ taken

Inserted(k) ==
  {[packet |-> k, place |-> i, id |-> net[k].rows[i].id] : i \in DOMAIN net[k].rows}

\* HandlePeriodicChatUpdate, lines 241-243.
HandlePeriodicChatUpdate(k) ==
  /\ k \in Unread
  /\ list' = list \cup Inserted(k) /\ taken' = taken \cup {k}
  /\ UNCHANGED <<opened, requests, panel, load, answer, pending, strayed, host>>

-----------------------------------------------------------------------------
(* The host, as far as the client has a part in it *)

\* A request that comes in late takes the user to the channel of a panel that is gone.
HandleLoad(pan) ==
  /\ pan \in requests /\ requests' = requests \ {pan}
  /\ LoadChannelBegin(Endpoint(pan), pan[2])
  /\ strayed' = (strayed \/ pan # panel)
  /\ UNCHANGED <<opened, panel, load, answer, list, taken, pending>>

Queued == {new_messages[i].id : i \in DOMAIN new_messages}

\* The answer may come too late for the constructor.
Reply ==
  /\ LoadChannelReply
  /\ LET wanted == load = "waiting" /\ cb.from = Endpoint(panel)
     IN  IF wanted
         THEN /\ load' = "answered" /\ answer' = DOMAIN ReplyMessages
              /\ pending' = Queued \cup UNION {{row.id : row \in Inserted(k)} : k \in Unread}
         ELSE UNCHANGED <<load, answer, pending>>
  /\ UNCHANGED <<opened, requests, panel, list, taken, strayed>>

\* SendMessage (202-223) only sends; the packet may come in after its panel is gone.
HandleSend(pan) ==
  /\ pan \in opened /\ SendMessageBegin(Endpoint(pan), pan[2])
  /\ UNCHANGED client

\* Between lines 157 and 160 the user has the new address and the old channel.
Overtaken(r) == cb.pc = "active" /\ cb.user = r

Broadcast ==
  /\ \E r \in bg.todo :
       /\ BgSend(r)
       /\ strayed' = (strayed \/ Overtaken(r))
  /\ UNCHANGED <<opened, requests, panel, load, answer, list, taken, pending>>

\* Everything else the host does without the client.
HostStep ==
  /\ \/ StartCreate \/ StopBegin \/ GuiStep \/ Crash \/ Launch
     \/ LoadChannelActive \/ SendMessageInsert \/ SendMessageNoUsername
     \/ SendMessagePush \/ SendMessageFailed \/ SendMessageOnline
     \/ MovedUserAbort \/ MovedUserWrite \/ JoinServerAbort \/ CbNullServer
     \/ BgLoop \/ BgClear \/ BgNullServer
     \/ \E r \in bg.todo :
          BgUser(r) \/ BgStaleUser(r) \/ BgAnswer(r) \/ BgTimeout(r) \/ BgWipe(r)
     \/ \E r \in DOMAIN server_users : TimePasses(r)
     \/ \E e \in Endpoints :
          \/ JoinServerInsert(e) \/ CreateNewChannel
          \/ /\ IpOf(e) # Client
             /\ \E c \in Channels : LoadChannelBegin(e, c) \/ SendMessageBegin(e, c)
  /\ UNCHANGED client

-----------------------------------------------------------------------------
SystemInit ==
  /\ Init
  /\ opened = {} /\ requests = {} /\ panel = NoPanel
  /\ load = "done" /\ answer = {} /\ list = {} /\ taken = {} /\ pending = {}
  /\ strayed = FALSE

SystemNext ==
  \/ \E port \in Ports, c \in Channels : SelectChannel(port, c)
  \/ Assign \/ LoadFails
  \/ \E k \in DOMAIN net : HandlePeriodicChatUpdate(k)
  \/ \E pan \in opened : HandleLoad(pan) \/ HandleSend(pan)
  \/ Reply \/ Broadcast \/ HostStep

SystemSpec == SystemInit /\ [][SystemNext]_systemVars

-----------------------------------------------------------------------------
(* Properties *)

\* A panel shows no message twice from its updates, although updates overtake each
\* other, the host crashes and restarts under it, and the queue outlives a stop.
UpdateShownOnce ==
  \A x, y \in list : x.packet # 0 /\ y.packet # 0 /\ x.id = y.id => x = y

\* A message that a panel shows twice, as history and live, was stored but not yet
\* broadcast, or broadcast but not yet read, when the host made its answer (163-197):
\* insert, queue and answer are not one step.
DuplicatesWerePending ==
  \A x, y \in list : x.packet = 0 /\ y.packet # 0 /\ x.id = y.id => x.id \in pending

\* A panel shows only messages of its own channel, except after one of two races of
\* the host: it sent between lines 157 and 160, with the user's new address and old
\* channel, or it handled the request of a panel that was gone.
ForeignOnlyAfterRace ==
  (\E x \in list : messages[x.id].channel_id # panel[2]) => strayed
=============================================================================
