---------------------------- MODULE HostingPanel ----------------------------
(***************************************************************************)
(* The hosting panel (panels/hosting_panel.cpp): the list of the servers   *)
(* this process hosts, the rows drawn for it, and the pointers into the    *)
(* list that other threads hold.                                           *)
(*                                                                         *)
(* The list is a std::vector of HostedServer objects.  push_back copies    *)
(* them into a buffer of twice the size when the vector is full and frees  *)
(* the old buffer, while                                                   *)
(*   - the background thread of a running server keeps the this pointer it *)
(*     was started with,                                                   *)
(*   - a handler on the SwiftNet callback thread keeps the pointer that    *)
(*     GetServerById gave it, and                                          *)
(*   - each row's buttons keep a reference to the element they were drawn  *)
(*     for.                                                                *)
(* An address is a buffer and an index.  The vector only grows, so a       *)
(* buffer is told from the others of its process by its capacity.  The     *)
(* build enables AddressSanitizer: a use of a freed buffer ends the        *)
(* process.                                                                *)
(*                                                                         *)
(* What a server does while it runs is HostedServer's: here StartServer    *)
(* and StopServer are one step each, and a handler is its two ends.        *)
(***************************************************************************)
EXTENDS InvitationCode, FiniteSets

CONSTANTS
  Ids,        \* the ids that rand() yields
  PublicIp,   \* the four bytes of what get_public_ip returns
  MaxServers  \* bound on the objects in the list

ASSUME HostingAssumption ==
  /\ \A id \in Ids : id \in Nat /\ id < 65536
  /\ PublicIp \in [1..4 -> Byte]
  /\ MaxServers \in Nat

VARIABLES
  up,       \* the process is running
  hosted,   \* the ids in the table hosted_servers
  servers,  \* hosted_servers, the vector of HostedServer objects
  threads,  \* the this pointers of the background threads that have not ended
  handler,  \* the packet that the callback thread handles
  rows      \* the rows that DrawServers has drawn

vars == <<up, hosted, servers, threads, handler, rows>>

NoThread == <<0, 0>>
NoHandler == [port |-> -1, server |-> NoThread]

-----------------------------------------------------------------------------
(* The vector *)

\* libc++ doubles a full vector, from nothing to one element first.
Capacity(n) ==
  IF n = 0 THEN 0 ELSE CHOOSE c \in {2 ^ k : k \in 0..n} : n <= c /\ c < 2 * n

Address(i) == <<Capacity(Len(servers)), i>>

Dangling(address) == address[1] # Capacity(Len(servers))

\* A HostedServer that was just constructed.
HostedServer(id) == [id |-> id, status |-> "STOPPED", thread |-> NoThread]

Objects(ids) == [i \in DOMAIN ids |-> HostedServer(ids[i])]

\* Mutant: the first object is taken for any id.
FirstServer(id) == {1} \cap DOMAIN servers

\* The first object that has the id.
GetServerById(id) ==
  {i \in DOMAIN servers : servers[i].id = id /\ \A j \in 1..(i - 1) : servers[j].id # id}

-----------------------------------------------------------------------------
(* DrawServers: every row is destroyed and drawn again *)

\* A row shows the code and the button's text of the element it refers to.
Row(list, i) ==
  [code |-> InvitationCode(PublicIp, list[i].id),
   button |-> IF list[i].status = "RUNNING" THEN "Stop" ELSE "Start",
   server |-> <<Capacity(Len(list)), i>>]

\* Mutant: the rows are left as they are.
KeepRows(list) == rows' = rows

DrawServers(list) == rows' = [i \in DOMAIN list |-> Row(list, i)]

-----------------------------------------------------------------------------
(* The process *)

ProcessEnds ==
  /\ up' = FALSE /\ servers' = <<>> /\ threads' = {} /\ handler' = NoHandler
  /\ rows' = <<>>
  /\ UNCHANGED hosted

\* Also the exit() calls: get_public_ip without a network, at every DrawServers.
Crash == up /\ ProcessEnds

\* HostingPanel's constructor and OnInit's DrawServers: the table in the order of
\* its primary key.
Launch ==
  /\ ~up /\ up' = TRUE
  /\ \E ids \in [1..Cardinality(hosted) -> hosted] :
       /\ \A i, j \in DOMAIN ids : i < j => ids[i] < ids[j]
       /\ servers' = Objects(ids) /\ DrawServers(Objects(ids))
  /\ UNCHANGED <<hosted, threads, handler>>

-----------------------------------------------------------------------------
(* The main thread: the panel's buttons *)

\* Mutant: rand() is not cut to sixteen bits.
CreateNewServerWide(id) ==
  /\ up /\ Len(servers) < MaxServers
  /\ hosted' \in {hosted, hosted \cup {id}}
  /\ servers' = Append(servers, HostedServer(id + 65536))
  /\ DrawServers(servers')
  /\ UNCHANGED <<up, threads, handler>>

\* Lines 142-155.  rand() is cut to sixteen bits and may repeat an id; the insert
\* then fails on the primary key, or for another reason, and nobody looks.
CreateNewServer(id) ==
  /\ up /\ Len(servers) < MaxServers
  /\ hosted' \in {hosted, hosted \cup {id}}
  /\ servers' = Append(servers, HostedServer(id))
  /\ DrawServers(servers')
  /\ UNCHANGED <<up, threads, handler>>

\* SwiftNet, which is external, refuses a port that another object of this process
\* listens on: swiftnet_create_server then returns nullptr.
PortTaken(i) == \E j \in DOMAIN servers \ {i} :
  servers[j].id = servers[i].id /\ servers[j].status = "RUNNING"

\* Started(i) and Stopped(i): the object, with its thread's handle.
Started(i) == [servers[i] EXCEPT !.status = "RUNNING", !.thread = Address(i)]
Stopped(i) == [servers[i] EXCEPT !.status = "STOPPED", !.thread = NoThread]

\* StartServer for each of some stopped objects, in the order of the list: the
\* process exits (hosted_server.cpp:444-448) when one gets nullptr because its port is
\* taken, by then or before.  That it gets nullptr for another reason is a Crash.
StartServers(start) ==
  IF \E i \in start : PortTaken(i) \/ \E j \in start \ {i} : servers[j].id = servers[i].id
  THEN ProcessEnds
  ELSE /\ servers' = [i \in DOMAIN servers |->
                        IF i \in start THEN Started(i) ELSE servers[i]]
       /\ threads' = threads \cup {Address(i) : i \in start}
       /\ DrawServers(servers')
       /\ UNCHANGED <<up, hosted, handler>>

\* Mutant: the thread is not joined.
StopUnjoined(halt) ==
  /\ \A i \in halt : handler.port # servers[i].id
  /\ servers' = [i \in DOMAIN servers |-> IF i \in halt THEN Stopped(i) ELSE servers[i]]
  /\ DrawServers(servers')
  /\ UNCHANGED <<up, hosted, threads, handler>>

\* StopServer for each of some running objects.  It waits for the handler of a
\* packet of that server.  The stop flag is set in the object; a thread that
\* still looks at the object's old place does not see it.
StopServers(halt) ==
  /\ \A i \in halt : handler.port # servers[i].id
  /\ IF \E i \in halt : Dangling(servers[i].thread)
     THEN ProcessEnds
     ELSE /\ servers' = [i \in DOMAIN servers |->
                           IF i \in halt THEN Stopped(i) ELSE servers[i]]
          /\ threads' = threads \ {servers[i].thread : i \in halt}
          /\ DrawServers(servers')
          /\ UNCHANGED <<up, hosted, handler>>

Running == {i \in DOMAIN servers : servers[i].status = "RUNNING"}

\* The button of a row, line 121, asks the element it refers to.
PressStartStop(r) ==
  /\ up
  /\ IF Dangling(rows[r].server) THEN ProcessEnds
     ELSE LET i == rows[r].server[2]
          IN  IF i \in Running THEN StopServers({i}) ELSE StartServers({i})

StartAll == up /\ StartServers(DOMAIN servers \ Running)
StopAll == up /\ StopServers(Running)

-----------------------------------------------------------------------------
(* The other threads *)

\* The background thread looks at its object five times a second.
UseFreedServer ==
  /\ \E address \in threads : Dangling(address)
  /\ ProcessEnds

\* PacketCallback looks up the object by the port that the packet came to.
PacketCallback(port) ==
  /\ up /\ handler = NoHandler
  /\ \E i \in Running : servers[i].id = port
  /\ \E i \in GetServerById(port) : handler' = [port |-> port, server |-> Address(i)]
  /\ UNCHANGED <<up, hosted, servers, threads, rows>>

\* The handler ends with SwiftNet calls on its object's server member, which is
\* nullptr when the object is not running.
HandlerReturns ==
  /\ handler # NoHandler
  /\ IF Dangling(handler.server) \/ handler.server[2] \notin Running THEN ProcessEnds
     ELSE handler' = NoHandler /\ UNCHANGED <<up, hosted, servers, threads, rows>>

-----------------------------------------------------------------------------
Init ==
  /\ up = FALSE /\ hosted = {} /\ servers = <<>> /\ threads = {}
  /\ handler = NoHandler /\ rows = <<>>

Next ==
  \/ Launch \/ Crash
  \/ \E id \in Ids : CreateNewServer(id) \/ PacketCallback(id)
  \/ \E r \in DOMAIN rows : PressStartStop(r)
  \/ StartAll \/ StopAll
  \/ UseFreedServer \/ HandlerReturns

Spec == Init /\ [][Next]_vars

-----------------------------------------------------------------------------
(* Properties *)

Addresses == {Capacity(n) : n \in 0..MaxServers} \X (0..MaxServers)
Object == [id : Ids, status : {"STOPPED", "RUNNING"}, thread : Addresses]

\* The type of every variable.
TypeOK ==
  /\ up \in BOOLEAN
  /\ hosted \subseteq Ids /\ Cardinality(hosted) <= MaxServers
  /\ servers \in Seq(Object) /\ Len(servers) <= MaxServers
  /\ threads \subseteq Addresses
  /\ handler \in [port : Ids \cup {-1}, server : Addresses]
  /\ DOMAIN rows = DOMAIN servers

\* Every row acts on the element it was drawn for and says what its button will
\* do: whatever changes the list, its buffer or a status draws the rows again.
RowsAreCurrent ==
  DOMAIN rows = DOMAIN servers /\
  \A r \in DOMAIN servers :
    /\ rows[r].server = Address(r)
    /\ rows[r].button = IF r \in Running THEN "Stop" ELSE "Start"

\* What AddServer reads from a code.
InvitedTo(code) ==
  LET decoded == base32_decode(code)
  IN  IF TooShort(decoded) THEN {} ELSE {<<AddressIn(decoded), ServerIdIn(decoded)>>}

\* A row's code leads a client to this host and to the server that the row starts,
\* and there is such a row for every server of the table (97-107).
InvitationsLead ==
  /\ \A r \in DOMAIN servers : InvitedTo(rows[r].code) = {<<PublicIp, servers[r].id>>}
  /\ up => \A id \in hosted : \E r \in DOMAIN rows :
       InvitedTo(rows[r].code) = {<<PublicIp, id>>}

\* A running object and no other has a thread, started for its own place in the
\* list, and holds the handle to join it, also after it was copied to another
\* buffer: a thread without a handle would outlive StopAll.
ThreadsHaveHandles ==
  /\ threads = {servers[i].thread : i \in Running}
  /\ \A i \in Running : servers[i].thread[2] = i

\* A packet is handled by the object that listens on its port, unless an id occurs
\* twice in the list, while its handler holds the pointer across the clicks.
PacketsFindTheirServer ==
  handler # NoHandler =>
    \/ handler.server[2] \in Running /\ servers[handler.server[2]].id = handler.port
    \/ \E i, j \in DOMAIN servers :
         i # j /\ servers[i].id = handler.port /\ servers[j].id = handler.port
=============================================================================
