------------------------- MODULE HostingPanelProofs -------------------------
(***************************************************************************)
(* Proofs about HostingPanel, for any number of servers and any ids: the   *)
(* rows always act on what they show, no two servers run on one port, and  *)
(* every thread can be joined.  Hosting is the inductive invariant.        *)
(***************************************************************************)
EXTENDS HostingPanel, InvitationCodeProofs, FiniteSetTheorems, TLAPS

\* The list is bounded although it is built from the table at a launch: the table
\* is finite and never holds more ids than the list.
Bounded ==
  /\ IsFiniteSet(hosted) /\ Cardinality(hosted) <= MaxServers
  /\ up => Cardinality(hosted) <= Len(servers)

\* Nothing is left of a process that has ended.
EndedIsEmpty ==
  ~up => servers = <<>> /\ threads = {} /\ handler = NoHandler /\ rows = <<>>

\* What a handler holds is the place of an object of its port, running or with a
\* double.
HandlerOK ==
  handler # NoHandler =>
    /\ handler.server[2] \in DOMAIN servers
    /\ servers[handler.server[2]].id = handler.port
    /\ \/ handler.server[2] \in Running
       \/ \E j \in DOMAIN servers : j # handler.server[2] /\ servers[j].id = handler.port

\* The inductive invariant.
Hosting ==
  /\ TypeOK /\ Bounded /\ EndedIsEmpty /\ RowsAreCurrent
  /\ ThreadsHaveHandles /\ HandlerOK

-----------------------------------------------------------------------------
(* The pieces an action changes *)

\* The address of a place in the list is an address.
LEMMA AddressType ==
  ASSUME TypeOK, NEW i \in DOMAIN servers
  PROVE  Address(i) \in Addresses /\ Address(i)[2] = i
<1>0. servers \in Seq(Object) /\ Len(servers) <= MaxServers /\ MaxServers \in Nat
  BY HostingAssumption DEF TypeOK
<1>1. Len(servers) \in 0..MaxServers /\ i \in 0..MaxServers
  BY <1>0
<1>2. QED BY <1>1 DEF Address, Addresses

\* The zero address is one, so that an object without a thread has a handle.
LEMMA NoThreadType == NoThread \in Addresses
<1>1. 0 \in 0..MaxServers BY HostingAssumption
<1>2. Capacity(0) = 0 BY DEF Capacity
<1>3. QED BY <1>1, <1>2 DEF NoThread, Addresses

\* DrawServers of the new list leaves every row current.
LEMMA DrawnIsCurrent ==
  ASSUME DrawServers(servers')
  PROVE  RowsAreCurrent'
BY DEF DrawServers, Row, RowsAreCurrent, Running, Address

\* A process that ends leaves the empty state, whatever it was doing.
LEMMA EndKeepsHosting ==
  ASSUME Hosting, ProcessEnds
  PROVE  Hosting'
<1>. USE DEF ProcessEnds
<1>1. TypeOK'
  <2>1. servers' \in Seq(Object) /\ Len(servers') <= MaxServers BY HostingAssumption
  <2>2. handler' \in [port : Ids \cup {-1}, server : Addresses]
    BY NoThreadType DEF NoHandler
  <2>3. QED BY <2>1, <2>2 DEF Hosting, TypeOK
<1>2. Bounded' /\ EndedIsEmpty' BY DEF Hosting, Bounded, EndedIsEmpty
<1>3. RowsAreCurrent' BY DEF RowsAreCurrent
<1>4. ThreadsHaveHandles'
  BY DEF ThreadsHaveHandles, Running
<1>5. HandlerOK' BY DEF HandlerOK
<1>6. QED BY <1>1, <1>2, <1>3, <1>4, <1>5 DEF Hosting

-----------------------------------------------------------------------------
(* One lemma for each kind of step *)

\* The first state: no process, nothing hosted.
LEMMA HostingInit == Init => Hosting
<1>. SUFFICES ASSUME Init PROVE Hosting OBVIOUS
<1>. USE DEF Init
<1>1. IsFiniteSet(hosted) /\ Cardinality(hosted) = 0 BY FS_EmptySet
<1>2. Cardinality(hosted) <= MaxServers
  <2>1. MaxServers \in Nat BY HostingAssumption
  <2>2. QED BY <1>1, <2>1
<1>3. TypeOK
  <2>1. servers \in Seq(Object) /\ Len(servers) <= MaxServers BY HostingAssumption
  <2>2. handler \in [port : Ids \cup {-1}, server : Addresses]
    BY NoThreadType DEF NoHandler
  <2>3. QED BY <1>2, <2>1, <2>2 DEF TypeOK
<1>4. Bounded /\ EndedIsEmpty BY <1>1, <1>2 DEF Bounded, EndedIsEmpty
<1>5. RowsAreCurrent BY DEF RowsAreCurrent
<1>6. ThreadsHaveHandles /\ HandlerOK
  BY DEF ThreadsHaveHandles, Running, HandlerOK
<1>7. QED BY <1>3, <1>4, <1>5, <1>6 DEF Hosting

\* A launch lists the table: as many stopped objects as there are ids.
LEMMA HostingLaunch ==
  ASSUME Hosting, Launch
  PROVE  Hosting'
<1>1. PICK ids \in [1..Cardinality(hosted) -> hosted] :
        servers' = Objects(ids) /\ DrawServers(Objects(ids))
  BY DEF Launch
<1>2. Cardinality(hosted) \in Nat BY FS_CardinalityType DEF Hosting, Bounded
<1>3. ids \in Seq(hosted) /\ Len(ids) = Cardinality(hosted) BY <1>1, <1>2
<1>4. /\ \A id \in hosted : HostedServer(id) \in Object
      /\ \A i \in DOMAIN ids : HostedServer(ids[i]) \in Object
  BY <1>1, NoThreadType DEF HostedServer, Object, Hosting, TypeOK
<1>5. /\ servers' \in Seq(Object) /\ Len(servers') = Cardinality(hosted)
      /\ \A i \in DOMAIN servers' : servers'[i].status = "STOPPED"
  <2>1. servers' = [i \in 1..Cardinality(hosted) |-> HostedServer(ids[i])]
    BY <1>1 DEF Objects
  <2>2. QED BY <2>1, <1>1, <1>2, <1>4 DEF HostedServer
<1>6. RowsAreCurrent'
  <2>1. DrawServers(servers') BY <1>1
  <2>2. QED BY <2>1, DrawnIsCurrent
<1>7. up' /\ hosted' = hosted /\ threads' = {} /\ handler' = NoHandler
  BY DEF Launch, Hosting, EndedIsEmpty
<1>8. TypeOK'
  <2>1. DOMAIN rows' = DOMAIN servers' BY <1>6 DEF RowsAreCurrent
  <2>2. QED
    BY <1>2, <1>5, <1>7, <2>1, NoThreadType DEF Hosting, TypeOK, NoHandler, Launch
<1>9. Bounded' /\ EndedIsEmpty'
  BY <1>2, <1>5, <1>7 DEF Hosting, Bounded, EndedIsEmpty
<1>10. ThreadsHaveHandles' /\ HandlerOK'
  BY <1>5, <1>7 DEF ThreadsHaveHandles, Running, HandlerOK
<1>11. QED BY <1>6, <1>8, <1>9, <1>10 DEF Hosting

\* A new object is added behind the others, and everything is drawn again.
LEMMA HostingCreate ==
  ASSUME Hosting, NEW id \in Ids, CreateNewServer(id)
  PROVE  Hosting'
<1>. DEFINE n == Len(servers) + 1
<1>1. /\ servers \in Seq(Object) /\ HostedServer(id) \in Object
      /\ servers' = Append(servers, HostedServer(id))
  BY NoThreadType DEF CreateNewServer, HostedServer, Object, Hosting, TypeOK
<1>2. /\ servers' \in Seq(Object) /\ Len(servers') = n /\ DOMAIN servers' = 1..n
      /\ DOMAIN servers = 1..(n - 1) /\ n \in Nat
      /\ \A i \in DOMAIN servers : servers'[i] = servers[i] /\ i \in DOMAIN servers'
      /\ servers'[n] = HostedServer(id)
  BY <1>1
<1>3. Running' = Running /\ \A i \in Running : i \in DOMAIN servers
  BY <1>2 DEF Running, HostedServer
<1>4. RowsAreCurrent' BY DrawnIsCurrent DEF CreateNewServer
<1>5. IsFiniteSet(hosted') /\ Cardinality(hosted') <= Cardinality(hosted) + 1
  <2>1. IsFiniteSet(hosted) /\ Cardinality(hosted) \in Nat
    BY FS_CardinalityType DEF Hosting, Bounded
  <2>2. /\ IsFiniteSet(hosted \cup {id})
        /\ Cardinality(hosted \cup {id}) <= Cardinality(hosted) + 1
    BY <2>1, FS_AddElement
  <2>3. hosted' = hosted \/ hosted' = hosted \cup {id} BY DEF CreateNewServer
  <2>4. CASE hosted' = hosted BY <2>1, <2>4
  <2>5. CASE hosted' = hosted \cup {id} BY <2>2, <2>5
  <2>6. QED BY <2>3, <2>4, <2>5
<1>6. Cardinality(hosted') \in Nat /\ Cardinality(hosted) \in Nat
  BY <1>5, FS_CardinalityType DEF Hosting, Bounded
<1>7. Cardinality(hosted') <= n /\ n <= MaxServers /\ Cardinality(hosted') <= MaxServers
  <2>1. /\ up /\ Len(servers) < MaxServers /\ Cardinality(hosted) <= Len(servers)
        /\ MaxServers \in Nat
    <3>1. MaxServers \in Nat BY HostingAssumption
    <3>2. QED BY <3>1 DEF CreateNewServer, Hosting, Bounded
  <2>2. QED BY <1>2, <1>5, <1>6, <2>1
<1>8. TypeOK'
  <2>1. hosted' \subseteq Ids BY DEF CreateNewServer, Hosting, TypeOK
  <2>2. DOMAIN rows' = DOMAIN servers' BY <1>4 DEF RowsAreCurrent
  <2>3. QED BY <1>2, <1>7, <2>1, <2>2 DEF CreateNewServer, Hosting, TypeOK
<1>9. Bounded' /\ EndedIsEmpty'
  BY <1>2, <1>5, <1>7 DEF CreateNewServer, Hosting, Bounded, EndedIsEmpty
<1>10. ThreadsHaveHandles'
  BY <1>2, <1>3 DEF CreateNewServer, Hosting, ThreadsHaveHandles
<1>11. HandlerOK'
  BY <1>2, <1>3 DEF CreateNewServer, Hosting, HandlerOK
<1>12. QED BY <1>4, <1>8, <1>9, <1>10, <1>11 DEF Hosting

\* StartServer for stopped objects: each gets a thread for its own place.
LEMMA HostingStart ==
  ASSUME Hosting, up, NEW start \in SUBSET (DOMAIN servers \ Running), StartServers(start)
  PROVE  Hosting'
<1>1. CASE ProcessEnds BY <1>1, EndKeepsHosting
<1>2. CASE ~ProcessEnds
  <2>1. /\ ~\E i \in start : PortTaken(i) \/ \E j \in start \ {i} : servers[j].id = servers[i].id
        /\ servers' = [i \in DOMAIN servers |-> IF i \in start THEN Started(i) ELSE servers[i]]
        /\ threads' = threads \cup {Address(i) : i \in start}
        /\ DrawServers(servers')
        /\ UNCHANGED <<up, hosted, handler>>
    BY <1>2 DEF StartServers
  <2>2. /\ servers \in Seq(Object)
        /\ \A i \in DOMAIN servers : servers[i] \in Object
    BY DEF Hosting, TypeOK
  <2>3. \A i \in start : /\ Address(i) \in Addresses /\ Address(i)[2] = i
                        /\ Started(i) \in Object
                        /\ Started(i).id = servers[i].id
                        /\ Started(i).status = "RUNNING"
                        /\ Started(i).thread = Address(i)
    BY <2>2, AddressType DEF Started, Object, Hosting
  <2>4. /\ servers' \in Seq(Object) /\ Len(servers') = Len(servers)
        /\ DOMAIN servers' = DOMAIN servers
        /\ \A i \in DOMAIN servers : servers'[i].id = servers[i].id
    BY <2>1, <2>2, <2>3
  <2>5. Running' = Running \cup start
    BY <2>1, <2>3, <2>4 DEF Running
  <2>6. RowsAreCurrent' BY <2>1, DrawnIsCurrent
  <2>7. TypeOK'
    <3>1. threads' \subseteq Addresses BY <2>1, <2>3 DEF Hosting, TypeOK
    <3>2. DOMAIN rows' = DOMAIN servers' BY <2>6 DEF RowsAreCurrent
    <3>3. QED BY <2>1, <2>4, <3>1, <3>2 DEF Hosting, TypeOK
  <2>8. Bounded' /\ EndedIsEmpty' BY <2>1, <2>4 DEF Hosting, Bounded, EndedIsEmpty
  <2>10. ThreadsHaveHandles'
    <3>1. /\ \A i \in Running : servers'[i] = servers[i]
          /\ \A i \in start : servers'[i].thread = Address(i)
      BY <2>1, <2>3 DEF Running
    <3>2. QED BY <2>1, <2>3, <2>5, <3>1 DEF Hosting, ThreadsHaveHandles
  <2>11. HandlerOK' BY <2>1, <2>4, <2>5 DEF Hosting, HandlerOK
  <2>12. QED BY <2>6, <2>7, <2>8, <2>10, <2>11 DEF Hosting
<1>3. QED BY <1>1, <1>2

\* StopServer for running objects: their threads are joined, the handler of none of
\* them is under way.
LEMMA HostingStop ==
  ASSUME Hosting, up, NEW halt \in SUBSET Running, StopServers(halt)
  PROVE  Hosting'
<1>1. CASE ProcessEnds BY <1>1, EndKeepsHosting
<1>2. CASE ~ProcessEnds
  <2>1. /\ \A i \in halt : handler.port # servers[i].id
        /\ servers' = [i \in DOMAIN servers |-> IF i \in halt THEN Stopped(i) ELSE servers[i]]
        /\ threads' = threads \ {servers[i].thread : i \in halt}
        /\ DrawServers(servers')
        /\ UNCHANGED <<up, hosted, handler>>
    BY <1>2 DEF StopServers
  <2>2. /\ servers \in Seq(Object) /\ Running \subseteq DOMAIN servers
        /\ \A i \in DOMAIN servers : servers[i] \in Object
    BY DEF Hosting, TypeOK, Running
  <2>3. \A i \in halt : /\ Stopped(i) \in Object
                       /\ Stopped(i).id = servers[i].id
                       /\ Stopped(i).status = "STOPPED"
    BY <2>2, NoThreadType DEF Stopped, Object
  <2>4. /\ servers' \in Seq(Object) /\ Len(servers') = Len(servers)
        /\ DOMAIN servers' = DOMAIN servers
        /\ \A i \in DOMAIN servers : servers'[i].id = servers[i].id
    BY <2>1, <2>2, <2>3
  <2>5. Running' = Running \ halt
    BY <2>1, <2>2, <2>3, <2>4 DEF Running
  <2>6. RowsAreCurrent' BY <2>1, DrawnIsCurrent
  <2>7. TypeOK'
    <3>1. threads' \subseteq Addresses BY <2>1 DEF Hosting, TypeOK
    <3>2. DOMAIN rows' = DOMAIN servers' BY <2>6 DEF RowsAreCurrent
    <3>3. QED BY <2>1, <2>4, <3>1, <3>2 DEF Hosting, TypeOK
  <2>8. Bounded' /\ EndedIsEmpty' BY <2>1, <2>4 DEF Hosting, Bounded, EndedIsEmpty
  <2>10. ThreadsHaveHandles'
    <3>1. \A i \in Running \ halt : servers'[i] = servers[i] BY <2>1, <2>2
    <3>2. \A i, j \in Running : servers[i].thread = servers[j].thread => i = j
      BY DEF Hosting, ThreadsHaveHandles
    <3>3. threads' = {servers[i].thread : i \in Running \ halt}
      BY <2>1, <3>2 DEF Hosting, ThreadsHaveHandles
    <3>4. QED BY <2>5, <3>1, <3>3 DEF Hosting, ThreadsHaveHandles
  <2>11. HandlerOK' BY <2>1, <2>2, <2>4, <2>5 DEF Hosting, HandlerOK
  <2>12. QED BY <2>6, <2>7, <2>8, <2>10, <2>11 DEF Hosting
<1>3. QED BY <1>1, <1>2

\* The buttons: by RowsAreCurrent a row's reference is to its own element.
LEMMA HostingButtons ==
  ASSUME Hosting, (\E r \in DOMAIN rows : PressStartStop(r)) \/ StartAll \/ StopAll
  PROVE  Hosting'
<1>1. ASSUME NEW r \in DOMAIN rows, PressStartStop(r) PROVE Hosting'
  <2>1. r \in DOMAIN servers /\ rows[r].server = Address(r)
    BY DEF Hosting, RowsAreCurrent
  <2>2. rows[r].server[2] = r BY <2>1 DEF Address
  <2>3. CASE Dangling(rows[r].server)
    BY <1>1, <2>3, EndKeepsHosting DEF PressStartStop
  <2>4. CASE ~Dangling(rows[r].server) /\ r \in Running
    <3>1. up /\ StopServers({r}) BY <1>1, <2>2, <2>4 DEF PressStartStop
    <3>2. {r} \in SUBSET Running BY <2>4
    <3>3. QED BY <3>1, <3>2, HostingStop
  <2>5. CASE ~Dangling(rows[r].server) /\ r \notin Running
    <3>1. up /\ StartServers({r}) BY <1>1, <2>2, <2>5 DEF PressStartStop
    <3>2. {r} \in SUBSET (DOMAIN servers \ Running) BY <2>1, <2>5
    <3>3. QED BY <3>1, <3>2, HostingStart
  <2>6. QED BY <2>3, <2>4, <2>5
<1>2. CASE StartAll BY <1>2, HostingStart DEF StartAll
<1>3. CASE StopAll BY <1>3, HostingStop DEF StopAll
<1>4. QED BY <1>1, <1>2, <1>3

\* The callback thread looks an object up, and later returns.
LEMMA HostingHandler ==
  ASSUME Hosting, HandlerReturns \/ \E port \in Ids : PacketCallback(port)
  PROVE  Hosting'
<1>1. ASSUME NEW port \in Ids, PacketCallback(port) PROVE Hosting'
  <2>1. PICK k \in Running : servers[k].id = port BY <1>1 DEF PacketCallback
  <2>2. PICK i \in GetServerById(port) : handler' = [port |-> port, server |-> Address(i)]
    BY <1>1 DEF PacketCallback
  <2>3. i \in DOMAIN servers /\ servers[i].id = port BY <2>2 DEF GetServerById
  <2>4. Address(i) \in Addresses /\ Address(i)[2] = i
    BY <2>3, AddressType DEF Hosting
  <2>5. TypeOK'
    BY <1>1, <2>2, <2>4 DEF PacketCallback, Hosting, TypeOK
  <2>6. HandlerOK'
    BY <1>1, <2>1, <2>2, <2>3, <2>4 DEF PacketCallback, HandlerOK, Running
  <2>7. QED
    BY <1>1, <2>5, <2>6
       DEF PacketCallback, Hosting, Bounded, EndedIsEmpty, RowsAreCurrent,
           ThreadsHaveHandles, Running, Address
<1>2. CASE HandlerReturns
  <2>1. CASE ProcessEnds BY <2>1, EndKeepsHosting
  <2>2. CASE ~ProcessEnds
    <3>1. handler' = NoHandler /\ UNCHANGED <<up, hosted, servers, threads, rows>>
      BY <1>2, <2>2 DEF HandlerReturns
    <3>2. TypeOK' BY <3>1, NoThreadType DEF Hosting, TypeOK, NoHandler
    <3>3. HandlerOK' BY <3>1 DEF HandlerOK
    <3>4. QED
      BY <3>1, <3>2, <3>3
         DEF Hosting, Bounded, EndedIsEmpty, RowsAreCurrent,
             ThreadsHaveHandles, Running, Address
  <2>3. QED BY <2>1, <2>2
<1>3. QED BY <1>1, <1>2

-----------------------------------------------------------------------------
(* The theorems *)

\* Hosting holds in every state: one case per kind of step.
LEMMA HostingInvariant == Spec => []Hosting
<1>1. Hosting /\ [Next]_vars => Hosting'
  <2>. SUFFICES ASSUME Hosting, [Next]_vars PROVE Hosting' OBVIOUS
  <2>1. CASE Launch BY <2>1, HostingLaunch
  <2>2. CASE Crash \/ UseFreedServer
    BY <2>2, EndKeepsHosting DEF Crash, UseFreedServer
  <2>3. CASE \E id \in Ids : CreateNewServer(id) BY <2>3, HostingCreate
  <2>4. CASE (\E r \in DOMAIN rows : PressStartStop(r)) \/ StartAll \/ StopAll
    BY <2>4, HostingButtons
  <2>5. CASE HandlerReturns \/ \E port \in Ids : PacketCallback(port)
    BY <2>5, HostingHandler
  <2>6. CASE UNCHANGED vars
    BY <2>6 DEF vars, Hosting, TypeOK, Bounded, EndedIsEmpty, RowsAreCurrent,
                ThreadsHaveHandles, HandlerOK, Running, Address
  <2>7. QED BY <2>1, <2>2, <2>3, <2>4, <2>5, <2>6 DEF Next
<1>2. QED BY HostingInit, <1>1, PTL DEF Spec

\* The variables keep their types, and the list its bound, through any number of
\* launches, crashes and repeated ids.
THEOREM PanelTypes == Spec => []TypeOK
<1>1. Hosting => TypeOK BY DEF Hosting
<1>2. QED BY HostingInvariant, <1>1, PTL

\* Whatever happened to the list and to its buffer, a row's buttons act on the
\* element that the row shows.
THEOREM RowsStayCurrent == Spec => []RowsAreCurrent
<1>1. Hosting => RowsAreCurrent BY DEF Hosting
<1>2. QED BY HostingInvariant, <1>1, PTL

\* Every background thread can be joined through exactly one listed object, although
\* the objects were copied under the threads.
THEOREM ThreadsStayJoinable == Spec => []ThreadsHaveHandles
<1>1. Hosting => ThreadsHaveHandles BY DEF Hosting
<1>2. QED BY HostingInvariant, <1>1, PTL

\* A packet reaches the object that listens on its port, or an id is listed twice.
THEOREM PacketsAreRouted == Spec => []PacketsFindTheirServer
<1>1. Hosting => PacketsFindTheirServer
  BY DEF Hosting, HandlerOK, PacketsFindTheirServer
<1>2. QED BY HostingInvariant, <1>1, PTL

-----------------------------------------------------------------------------
(* The invitations *)

\* Each row shows the code of its element's id.
RowsCarryCodes ==
  \A r \in DOMAIN servers : rows[r].code = InvitationCode(PublicIp, servers[r].id)

\* The list holds the whole table, and perhaps doubles and ids that the table refused.
TableIsListed == up => \A id \in hosted : \E i \in DOMAIN servers : servers[i].id = id

\* The inductive invariant of the invitations, next to Hosting.
Inviting == RowsCarryCodes /\ TableIsListed

\* What AddServer reads from the code of an id that rand() yields.
LEMMA CodeLeads ==
  ASSUME NEW id \in Ids
  PROVE  InvitedTo(InvitationCode(PublicIp, id)) = {<<PublicIp, id>>}
<1>1. id \in Nat /\ id < 65536
  BY HostingAssumption
<1>2. PublicIp \in Seq(Byte) /\ Len(PublicIp) = 4
  <2>1. PublicIp \in [1..4 -> Byte]
    BY HostingAssumption
  <2>2. ASSUME NEW n \in Nat, NEW s \in [1..n -> Byte] PROVE s \in Seq(Byte) /\ Len(s) = n
    OBVIOUS
  <2>3. 4 \in Nat
    OBVIOUS
  <2> QED BY <2>1, <2>2, <2>3, Zenon
<1> DEFINE decoded == base32_decode(InvitationCode(PublicIp, id))
<1>3. ~TooShort(decoded) /\ AddressIn(decoded) = PublicIp /\ ServerIdIn(decoded) = id
  BY <1>1, <1>2, InvitationRead
<1> QED BY <1>3, Zenon DEF InvitedTo

\* Rows that are drawn for the new list carry the codes of the new list.
LEMMA DrawnCarryCodes ==
  ASSUME DrawServers(servers')
  PROVE  RowsCarryCodes'
BY DEF DrawServers, Row, RowsCarryCodes

\* An enumeration in rising order, as long as the table, leaves no id out.
LEMMA WholeTable ==
  ASSUME TypeOK, IsFiniteSet(hosted), NEW ids \in [1..Cardinality(hosted) -> hosted],
         \A i, j \in DOMAIN ids : i < j => ids[i] < ids[j]
  PROVE  \A id \in hosted : \E i \in DOMAIN ids : ids[i] = id
<1> DEFINE n == Cardinality(hosted)
<1>1. n \in Nat
  BY FS_CardinalityType
<1>2. \A id \in hosted : id \in Nat
  BY HostingAssumption DEF TypeOK
<1>3. \A i, j \in 1..n : i # j => ids[i] # ids[j]
  <2> TAKE i, j \in 1..n
  <2> HAVE i # j
  <2>1. i < j \/ j < i
    BY <1>1
  <2>2. ids[i] < ids[j] \/ ids[j] < ids[i]
    BY <2>1
  <2>3. ids[i] \in Nat /\ ids[j] \in Nat
    BY <1>2
  <2> QED BY <2>2, <2>3
<1>4. ids \in Injection(1..n, hosted)
  BY <1>3 DEF Injection, IsInjective
<1>5. IsFiniteSet(1..n) /\ Cardinality(1..n) = n
  <2>1. 1 \in Int /\ n \in Int
    BY <1>1
  <2>2. /\ IsFiniteSet(1..n)
        /\ Cardinality(1..n) = IF 1 > n THEN 0 ELSE n - 1 + 1
    BY <2>1, FS_Interval
  <2> QED BY <1>1, <2>2
<1>6. ids \in Surjection(1..n, hosted)
  <2> HIDE DEF n
  <2>1. Cardinality(1..n) = Cardinality(hosted)
    BY <1>5 DEF n
  <2> QED BY <1>4, <2>1, FS_Injection
<1> QED BY <1>6 DEF Surjection

\* A process that ends has no rows to show.
LEMMA EndKeepsInviting ==
  ASSUME ProcessEnds
  PROVE  Inviting'
BY DEF ProcessEnds, Inviting, RowsCarryCodes, TableIsListed

\* A start or a stop changes no id of the list.
LEMMA SameIdsInviting ==
  ASSUME Hosting, Inviting, DrawServers(servers'), DOMAIN servers' = DOMAIN servers,
         \A i \in DOMAIN servers : servers'[i].id = servers[i].id,
         UNCHANGED <<up, hosted>>
  PROVE  Inviting'
<1>1. RowsCarryCodes'
  BY DrawnCarryCodes
<1>2. TableIsListed'
  BY DEF Inviting, TableIsListed
<1> QED BY <1>1, <1>2 DEF Inviting

\* A start keeps the invitations.
LEMMA StartKeepsInviting ==
  ASSUME Hosting, Inviting, NEW start, StartServers(start)
  PROVE  Inviting'
<1>1. CASE ProcessEnds
  BY <1>1, EndKeepsInviting
<1>2. CASE ~ProcessEnds
  <2>1. /\ servers' = [i \in DOMAIN servers |-> IF i \in start THEN Started(i) ELSE servers[i]]
        /\ DrawServers(servers') /\ UNCHANGED <<up, hosted>>
    BY <1>2 DEF StartServers
  <2>2. \A i \in DOMAIN servers : servers[i] \in Object
    BY DEF Hosting, TypeOK
  <2>3. DOMAIN servers' = DOMAIN servers
    BY <2>1
  <2>4. \A i \in DOMAIN servers : Started(i).id = servers[i].id
    BY <2>2 DEF Started, Object
  <2>5. \A i \in DOMAIN servers : servers'[i].id = servers[i].id
    BY <2>1, <2>4
  <2> QED BY <2>1, <2>3, <2>5, SameIdsInviting
<1> QED BY <1>1, <1>2

\* So does a stop.
LEMMA StopKeepsInviting ==
  ASSUME Hosting, Inviting, NEW halt, StopServers(halt)
  PROVE  Inviting'
<1>1. CASE ProcessEnds
  BY <1>1, EndKeepsInviting
<1>2. CASE ~ProcessEnds
  <2>1. /\ servers' = [i \in DOMAIN servers |-> IF i \in halt THEN Stopped(i) ELSE servers[i]]
        /\ DrawServers(servers') /\ UNCHANGED <<up, hosted>>
    BY <1>2 DEF StopServers
  <2>2. \A i \in DOMAIN servers : servers[i] \in Object
    BY DEF Hosting, TypeOK
  <2>3. DOMAIN servers' = DOMAIN servers
    BY <2>1
  <2>4. \A i \in DOMAIN servers : Stopped(i).id = servers[i].id
    BY <2>2 DEF Stopped, Object
  <2>5. \A i \in DOMAIN servers : servers'[i].id = servers[i].id
    BY <2>1, <2>4
  <2> QED BY <2>1, <2>3, <2>5, SameIdsInviting
<1> QED BY <1>1, <1>2

\* A launch lists the whole table and draws it.
LEMMA LaunchInvites ==
  ASSUME Hosting, Launch
  PROVE  Inviting'
<1>1. PICK ids \in [1..Cardinality(hosted) -> hosted] :
        /\ \A i, j \in DOMAIN ids : i < j => ids[i] < ids[j]
        /\ servers' = Objects(ids) /\ DrawServers(Objects(ids))
  BY DEF Launch
<1>2. hosted' = hosted /\ DrawServers(servers')
  BY <1>1 DEF Launch
<1>3. /\ DOMAIN servers' = DOMAIN ids
      /\ \A i \in DOMAIN ids : servers'[i].id = ids[i]
  BY <1>1 DEF Objects, HostedServer
<1>4. \A id \in hosted : \E i \in DOMAIN ids : ids[i] = id
  BY <1>1, WholeTable DEF Hosting, Bounded
<1>5. TableIsListed'
  BY <1>2, <1>3, <1>4 DEF TableIsListed
<1> QED BY <1>2, <1>5, DrawnCarryCodes DEF Inviting

\* A new object comes behind the others, with the id that the table may have taken.
LEMMA CreateInvites ==
  ASSUME Hosting, Inviting, NEW id \in Ids, CreateNewServer(id)
  PROVE  Inviting'
<1> DEFINE n == Len(servers) + 1
<1>1. /\ servers' = Append(servers, HostedServer(id)) /\ DrawServers(servers')
      /\ hosted' \in {hosted, hosted \cup {id}} /\ up
  BY DEF CreateNewServer
<1>2. servers \in Seq(Object)
  BY DEF Hosting, TypeOK
<1>3. /\ \A i \in DOMAIN servers : i \in DOMAIN servers' /\ servers'[i] = servers[i]
      /\ n \in DOMAIN servers' /\ servers'[n] = HostedServer(id)
  BY <1>1, <1>2
<1>4. servers'[n].id = id
  BY <1>3 DEF HostedServer
<1>5. TableIsListed'
  BY <1>1, <1>3, <1>4 DEF Inviting, TableIsListed
<1> QED BY <1>1, <1>5, DrawnCarryCodes DEF Inviting

\* Every step keeps the invitations.
LEMMA InvitingStep ==
  ASSUME Hosting, Inviting, [Next]_vars
  PROVE  Inviting'
<1>1. CASE Launch
  BY <1>1, LaunchInvites
<1>2. CASE Crash \/ UseFreedServer
  BY <1>2, EndKeepsInviting DEF Crash, UseFreedServer
<1>3. CASE \E id \in Ids : CreateNewServer(id)
  BY <1>3, CreateInvites
<1>4. CASE (\E r \in DOMAIN rows : PressStartStop(r)) \/ StartAll \/ StopAll
  BY <1>4, EndKeepsInviting, StartKeepsInviting, StopKeepsInviting
     DEF PressStartStop, StartAll, StopAll
<1>5. CASE UNCHANGED <<up, hosted, servers, rows>>
  BY <1>5 DEF Inviting, RowsCarryCodes, TableIsListed
<1>6. CASE HandlerReturns \/ \E port \in Ids : PacketCallback(port)
  BY <1>5, <1>6, EndKeepsInviting DEF HandlerReturns, PacketCallback
<1> QED BY <1>1, <1>2, <1>3, <1>4, <1>5, <1>6 DEF Next, vars

\* Whoever types in the code of a row reaches this host and the server that the row
\* starts; no code is cut short or leads elsewhere, whatever the address and the id
\* are, and every server of the table has a row.
THEOREM InvitationsAreGood == Spec => []InvitationsLead
<1>1. Init => Inviting
  BY DEF Init, Inviting, RowsCarryCodes, TableIsListed
<1>2. Hosting /\ Inviting => InvitationsLead
  <2> SUFFICES ASSUME Hosting, Inviting PROVE InvitationsLead
    OBVIOUS
  <2>1. DOMAIN rows = DOMAIN servers /\ \A r \in DOMAIN servers : servers[r].id \in Ids
    <3>1. DOMAIN rows = DOMAIN servers /\ servers \in Seq(Object)
      BY DEF Hosting, TypeOK
    <3>2. \A r \in DOMAIN servers : servers[r] \in Object
      BY <3>1
    <3> QED BY <3>1, <3>2 DEF Object
  <2>2. \A r \in DOMAIN servers : InvitedTo(rows[r].code) = {<<PublicIp, servers[r].id>>}
    BY <2>1, CodeLeads DEF Inviting, RowsCarryCodes
  <2>3. up => \A id \in hosted : \E r \in DOMAIN rows :
          InvitedTo(rows[r].code) = {<<PublicIp, id>>}
    BY <2>1, <2>2 DEF Inviting, TableIsListed
  <2> QED BY <2>2, <2>3 DEF InvitationsLead
<1> QED BY HostingInvariant, InvitingStep, <1>1, <1>2, PTL DEF Spec
=============================================================================
