------------------------- MODULE HostedServerProofs -------------------------
(***************************************************************************)
(* Proofs about HostedServer, for every set of hosts, ports and channels   *)
(* and every bound.                                                        *)
(***************************************************************************)
EXTENDS HostedServer, TLAPS

USE UserIdModulusAssumption, ServerAssumption, InitialUsersAssumption

\* A user id that is cut to sixteen bits is still no larger than the row.
LEMMA TruncatedId ==
  ASSUME NEW r \in Nat PROVE r % UserIdModulus \in 0..r
  OBVIOUS

\* One that fits is not changed.
LEMMA SmallIdKept ==
  ASSUME NEW r \in Nat, r < UserIdModulus PROVE r % UserIdModulus = r
  OBVIOUS

\* What a start reads from the table has the type of loading.
LEMMA SelectedUsersType ==
  ASSUME TablesOK
  PROVE  LET rows == SelectHostedServerUsers(users, ServerId)
         IN  /\ DOMAIN rows \subseteq Nat
             /\ rows \in [DOMAIN rows -> UserData]
  <1> DEFINE rows == SelectHostedServerUsers(users, ServerId)
  <1>1. DOMAIN rows \subseteq DOMAIN users
    BY DEF SelectHostedServerUsers, MemberRows
  <1>2. ASSUME NEW r \in DOMAIN rows PROVE rows[r] \in UserData
    <2>1. r \in 1..Len(users) /\ users[r] \in UserRows
      BY <1>1, <1>2 DEF TablesOK
    <2>2. r % UserIdModulus \in UserIds
      <3>1. r \in Nat /\ r <= MaxUsers
        BY <2>1 DEF TablesOK
      <3> QED BY <3>1, TruncatedId DEF UserIds
    <2>3. rows[r] = [id |-> r % UserIdModulus, ip_address |-> users[r].ip_address,
                     user_type |-> users[r].user_type]
      BY <1>2 DEF SelectHostedServerUsers
    <2> QED BY <2>1, <2>2, <2>3 DEF UserData, UserRows
  <1>3. DOMAIN rows \subseteq Nat
    BY <1>1 DEF TablesOK
  <1>4. rows = [r \in DOMAIN rows |-> rows[r]]
    BY DEF SelectHostedServerUsers
  <1> HIDE DEF rows
  <1>5. rows \in [DOMAIN rows -> UserData]
    BY <1>2, <1>4
  <1> QED BY <1>3, <1>5 DEF rows

\* One push_back: one user more, with its selected row; the callback's pointer may
\* be left behind, and nothing else of the handler changes.
LEMMA StartPushEffect ==
  ASSUME TypeOK, StartPush
  PROVE  \E r \in DOMAIN loading :
           /\ NextToLoad(r) /\ r \in Nat /\ loading[r] \in UserData
           /\ server_users' = [s \in DOMAIN server_users \cup {r} |->
                                 IF s = r THEN LoadedUser(loading[r]) ELSE server_users[s]]
           /\ DOMAIN server_users' = DOMAIN server_users \cup {r}
           /\ server_users'[r] = LoadedUser(loading[r])
           /\ \A s \in DOMAIN server_users : s # r => server_users'[s] = server_users[s]
           /\ loading' = [s \in DOMAIN loading \ {r} |-> loading[s]]
           /\ DOMAIN loading' = DOMAIN loading \ {r}
           /\ \A s \in DOMAIN loading' : loading'[s] = loading[s]
  BY DEF StartPush, TypeOK, UsersOK

LEMMA StartPushCallback ==
  ASSUME TypeOK, StartPush
  PROVE  /\ cb'.pc = cb.pc /\ cb'.from = cb.from /\ cb'.channel_id = cb.channel_id
         /\ cb'.user = cb.user /\ cb'.id = cb.id
         /\ cb' \in CallbackRecord
         /\ cb' = cb \/ cb.pc \in {"active", "insert", "push", "online"}
  BY DEF StartPush, TypeOK, CallbackOK, CallbackRecord

\* A new process has the type of every variable it sets.
LEMMA ResetType ==
  ASSUME ResetProcess, up' \in BOOLEAN
  PROVE  ObjectOK' /\ UsersOK' /\ new_messages' \in Seq(QueueRow) /\ CallbackOK' /\ ThreadOK'
  <1>1. ObjectOK'
    BY DEF ResetProcess, ObjectOK
  <1>2. UsersOK'
    BY DEF ResetProcess, UsersOK, NoUsers
  <1>3. new_messages' \in Seq(QueueRow)
    BY DEF ResetProcess
  <1>4. CallbackOK'
    BY DEF ResetProcess, CallbackOK, CallbackRecord, IdleCallback
  <1>5. ThreadOK'
    BY DEF ResetProcess, ThreadOK, NoThread
  <1> QED BY <1>1, <1>2, <1>3, <1>4, <1>5

\* The record of a loaded user.
LEMMA LoadedRecord ==
  ASSUME TypeOK, NEW r \in DOMAIN server_users
  PROVE  server_users[r] \in UserRecord
  BY DEF TypeOK, UsersOK

\* Appending to a sequence of anything.
LEMMA AppendRange ==
  ASSUME NEW s, NEW x, NEW t,
         IsSequence(s), t = Append(s, x)
  PROVE  /\ IsSequence(t)
         /\ Len(s) \in Nat /\ Len(t) = Len(s) + 1
         /\ DOMAIN s = 1..Len(s) /\ DOMAIN t = 1..(Len(s) + 1)
         /\ t[Len(s) + 1] = x
         /\ \A k \in DOMAIN s : t[k] = s[k]
  <1> DEFINE S == {s[k] : k \in DOMAIN s}
             T == {t[k] : k \in DOMAIN t}
  <1>1. s \in Seq(S \cup {x})
    BY DEF IsSequence
  <1>2. /\ Len(s) \in Nat /\ Len(t) = Len(s) + 1
        /\ DOMAIN s = 1..Len(s) /\ DOMAIN t = 1..(Len(s) + 1)
        /\ t[Len(s) + 1] = x
        /\ \A k \in DOMAIN s : t[k] = s[k]
    BY <1>1
  <1>3. S \cup {x} \subseteq T
    BY <1>2
  <1>4. s \in Seq(T) /\ x \in T
    BY <1>1, <1>2, <1>3
  <1>5. t \in Seq(T)
    BY <1>4
  <1> QED BY <1>2, <1>5 DEF IsSequence

\* The step of one user's record keeps the type of server_users.
LEMMA UserUpdateType ==
  ASSUME UsersOK, NEW r \in DOMAIN server_users, NEW u \in UserRecord,
         server_users' = [server_users EXCEPT ![r] = u], UNCHANGED loading
  PROVE  UsersOK' /\ DOMAIN server_users' = DOMAIN server_users
  BY DEF UsersOK

\* The initial values have their types.
LEMMA TypeInit == Init => TypeOK
  <1> SUFFICES ASSUME Init PROVE TypeOK
    OBVIOUS
  <1>1. TablesOK
    BY DEF Init, TablesOK
  <1>2. ObjectOK
    BY DEF Init, ObjectOK
  <1>3. UsersOK /\ new_messages \in Seq(QueueRow)
    BY DEF Init, UsersOK, NoUsers
  <1>4. CallbackOK
    BY DEF Init, CallbackOK, CallbackRecord, IdleCallback
  <1>5. ThreadOK
    BY DEF Init, ThreadOK, NoThread
  <1>6. NetOK
    BY DEF Init, NetOK, IsSequence
  <1> QED BY <1>1, <1>2, <1>3, <1>4, <1>5, <1>6 DEF TypeOK

\* What a step leaves alone keeps its type.
LEMMA TypeKept ==
  ASSUME TypeOK
  PROVE  /\ UNCHANGED <<users, messages, channels>> => TablesOK'
         /\ UNCHANGED <<up, status, listening, server, stop, gui>> => ObjectOK'
         /\ UNCHANGED <<server_users, loading>> => UsersOK'
         /\ UNCHANGED new_messages => new_messages' \in Seq(QueueRow)
         /\ UNCHANGED <<cb, messages>> /\ DOMAIN server_users \subseteq DOMAIN server_users'
              => CallbackOK'
         /\ UNCHANGED bg => ThreadOK'
         /\ UNCHANGED net => NetOK'
  <1>1. UNCHANGED <<users, messages, channels>> => TablesOK'
    BY DEF TypeOK, TablesOK
  <1>2. UNCHANGED <<up, status, listening, server, stop, gui>> => ObjectOK'
    BY DEF TypeOK, ObjectOK
  <1>3. UNCHANGED <<server_users, loading>> => UsersOK'
    BY DEF TypeOK, UsersOK
  <1>4. UNCHANGED <<cb, messages>> /\ DOMAIN server_users \subseteq DOMAIN server_users'
          => CallbackOK'
    BY DEF TypeOK, CallbackOK
  <1>5. UNCHANGED bg => ThreadOK'
    BY DEF TypeOK, ThreadOK
  <1>6. UNCHANGED net => NetOK'
    BY DEF TypeOK, NetOK
  <1> QED BY <1>1, <1>2, <1>3, <1>4, <1>5, <1>6 DEF TypeOK

\* StartServer and StopServer.
LEMMA TypeGui ==
  ASSUME TypeOK, Lifecycle, StartCreate \/ StopBegin \/ GuiStep
  PROVE  TypeOK'
  <1>1. CASE StartCreate
    <2>1. ObjectOK'
      BY <1>1 DEF StartCreate, TypeOK, ObjectOK
    <2> QED BY <1>1, <2>1, TypeKept DEF StartCreate, db, TypeOK
  <1>2. CASE StartAssign
    <2>1. ObjectOK'
      BY <1>2 DEF StartAssign, TypeOK, ObjectOK
    <2> QED BY <1>2, <2>1, TypeKept DEF StartAssign, db, TypeOK
  <1>3. CASE StartSelect
    <2>1. ObjectOK'
      BY <1>3 DEF StartSelect, TypeOK, ObjectOK
    <2>2. UsersOK'
      BY <1>3, SelectedUsersType DEF StartSelect, TypeOK, UsersOK
    <2> QED BY <1>3, <2>1, <2>2, TypeKept DEF StartSelect, db, TypeOK
  <1>10. CASE StartPush
    <2>1. PICK r \in DOMAIN loading :
            /\ r \in Nat /\ loading[r] \in UserData
            /\ server_users' = [s \in DOMAIN server_users \cup {r} |->
                                  IF s = r THEN LoadedUser(loading[r]) ELSE server_users[s]]
            /\ loading' = [s \in DOMAIN loading \ {r} |-> loading[s]]
      BY <1>10, StartPushEffect
    <2>2. UsersOK'
      <3>1. LoadedUser(loading[r]) \in UserRecord
        BY <2>1 DEF LoadedUser, UserRecord
      <3>2. server_users' \in [DOMAIN server_users' -> UserRecord]
            /\ DOMAIN server_users' \subseteq Nat
        BY <2>1, <3>1 DEF TypeOK, UsersOK
      <3>3. loading' \in [DOMAIN loading' -> UserData] /\ DOMAIN loading' \subseteq Nat
        BY <2>1 DEF TypeOK, UsersOK
      <3> QED BY <3>2, <3>3 DEF UsersOK
    <2>3. CallbackOK'
      <3>1. DOMAIN server_users \subseteq DOMAIN server_users' /\ UNCHANGED messages
        BY <1>10, <2>1 DEF StartPush, db
      <3> QED BY <1>10, <3>1, StartPushCallback DEF TypeOK, CallbackOK, IdleCallback
    <2>4. UNCHANGED <<up, users, messages, channels, status, listening, server, stop, gui,
                      new_messages, bg, net>>
      BY <1>10 DEF StartPush, db
    <2> QED BY <2>2, <2>3, <2>4, TypeKept DEF TypeOK
  <1>11. CASE StartFlag
    <2>1. ObjectOK'
      BY <1>11 DEF StartFlag, TypeOK, ObjectOK
    <2> QED BY <1>11, <2>1, TypeKept DEF StartFlag, db, TypeOK
  <1>12. CASE StartThread
    <2>1. ObjectOK'
      BY <1>12 DEF StartThread, TypeOK, ObjectOK
    <2>2. ThreadOK'
      <3>1. bg' = [pc |-> "loop", todo |-> {}, batch |-> <<>>]
        BY <1>12 DEF StartThread, NoThread
      <3> QED BY <3>1 DEF ThreadOK
    <2> QED BY <1>12, <2>1, <2>2, TypeKept DEF StartThread, db, TypeOK
  <1>4. CASE StopBegin
    <2>1. ObjectOK'
      BY <1>4 DEF StopBegin, TypeOK, ObjectOK
    <2> QED BY <1>4, <2>1, TypeKept DEF StopBegin, db, TypeOK
  <1>5. CASE StopCleanup
    <2>1. ObjectOK'
      BY <1>5 DEF StopCleanup, TypeOK, ObjectOK
    <2> QED BY <1>5, <2>1, TypeKept DEF StopCleanup, db, TypeOK
  <1>6. CASE StopForget
    <2>1. ObjectOK'
      BY <1>6 DEF StopForget, TypeOK, ObjectOK
    <2> QED BY <1>6, <2>1, TypeKept DEF StopForget, db, TypeOK
  <1>7. CASE StopClear
    <2>1. ObjectOK'
      BY <1>7 DEF StopClear, TypeOK, ObjectOK
    <2>2. UsersOK'
      BY <1>7 DEF StopClear, UsersOK, NoUsers, TypeOK
    <2>3. CallbackOK'
      BY <1>7 DEF StopClear, Lifecycle, Stopping, TypeOK, CallbackOK, IdleCallback
    <2> QED BY <1>7, <2>1, <2>2, <2>3, TypeKept DEF StopClear, db, TypeOK
  <1>8. CASE StopFlag
    <2>1. ObjectOK'
      BY <1>8 DEF StopFlag, TypeOK, ObjectOK
    <2> QED BY <1>8, <2>1, TypeKept DEF StopFlag, db, TypeOK
  <1>9. CASE StopJoin
    <2>1. ObjectOK'
      BY <1>9 DEF StopJoin, TypeOK, ObjectOK
    <2>2. ThreadOK'
      BY <1>9 DEF StopJoin, ThreadOK, NoThread
    <2> QED BY <1>9, <2>1, <2>2, TypeKept DEF StopJoin, db, TypeOK
  <1> QED BY <1>1, <1>2, <1>3, <1>4, <1>5, <1>6, <1>7, <1>8, <1>9, <1>10, <1>11, <1>12
          DEF GuiStep

\* A handler that ends the process, the crash of any thread.
LEMMA TypeHostDown ==
  ASSUME TypeOK, ResetProcess, up' \in BOOLEAN, TablesOK', UNCHANGED net
  PROVE  TypeOK'
  BY ResetType, TypeKept DEF TypeOK

\* The handlers of PacketCallback up to their first access, and JoinServer.
LEMMA TypePacket ==
  ASSUME TypeOK, NEW e \in Endpoints, PacketCallback(e)
  PROVE  TypeOK'
  <1>1. ASSUME NEW c \in Channels, LoadChannelBegin(e, c) PROVE TypeOK'
    <2>1. PICK r \in GetUserByAddrData(e) :
            \/ /\ server_users' = [server_users EXCEPT ![r].active_channel_id = c]
               /\ cb' = [IdleCallback EXCEPT !.pc = "reply", !.from = e, !.channel_id = c]
            \/ /\ server_users' = [server_users EXCEPT ![r] =
                     [@ EXCEPT !.addr_data = e, !.status = "ONLINE", !.fresh = TRUE]]
               /\ cb' = [IdleCallback EXCEPT !.pc = "active", !.from = e,
                           !.channel_id = c, !.user = r]
      BY <1>1 DEF LoadChannelBegin
    <2>2. r \in DOMAIN server_users /\ r \in Nat /\ server_users[r] \in UserRecord
      BY <2>1 DEF GetUserByAddrData, TypeOK, UsersOK
    <2>3. UsersOK' /\ DOMAIN server_users' = DOMAIN server_users
      <3>1. [server_users[r] EXCEPT !.active_channel_id = c] \in UserRecord
        BY <2>2 DEF UserRecord
      <3>2. [server_users[r] EXCEPT !.addr_data = e, !.status = "ONLINE", !.fresh = TRUE]
              \in UserRecord
        BY <2>2 DEF UserRecord
      <3>3. UNCHANGED loading
        BY <1>1 DEF LoadChannelBegin, control
      <3> QED BY <2>1, <2>2, <3>1, <3>2, <3>3, UserUpdateType DEF TypeOK
    <2>4. CallbackOK'
      <3>1. \/ cb' = [pc |-> "reply", from |-> e, channel_id |-> c, user |-> 0,
                      moved |-> FALSE, id |-> 0]
            \/ cb' = [pc |-> "active", from |-> e, channel_id |-> c, user |-> r,
                      moved |-> FALSE, id |-> 0]
        BY <2>1 DEF IdleCallback
      <3>2. r \in DOMAIN server_users' /\ r \in Nat /\ c \in Channels /\ e \in Endpoints
        BY <2>2, <2>3
      <3>3. CASE cb' = [pc |-> "reply", from |-> e, channel_id |-> c, user |-> 0,
                        moved |-> FALSE, id |-> 0]
        BY <3>2, <3>3 DEF CallbackRecord, CallbackOK
      <3>4. CASE cb' = [pc |-> "active", from |-> e, channel_id |-> c, user |-> r,
                        moved |-> FALSE, id |-> 0]
        BY <3>2, <3>4 DEF CallbackRecord, CallbackOK
      <3> QED BY <3>1, <3>3, <3>4
    <2> QED BY <1>1, <2>3, <2>4, TypeKept DEF LoadChannelBegin, db, control, TypeOK
  <1>2. ASSUME NEW c \in Channels, SendMessageBegin(e, c) PROVE TypeOK'
    <2>1. CallbackOK'
      <3>1. PICK r \in GetUserByAddrData(e) :
              cb' = [pc |-> "insert", from |-> e, channel_id |-> c, user |-> r,
                     moved |-> FALSE, id |-> 0]
        BY <1>2 DEF SendMessageBegin, IdleCallback
      <3>2. r \in DOMAIN server_users' /\ r \in Nat
        BY <1>2, <3>1 DEF SendMessageBegin, GetUserByAddrData, TypeOK, UsersOK
      <3> QED BY <3>1, <3>2 DEF CallbackOK, CallbackRecord
    <2> QED BY <1>2, <2>1, TypeKept DEF SendMessageBegin, db, control, TypeOK
  <1>3. CASE JoinServerInsert(e)
    <2>1. TablesOK'
      <3>1. NewUser(ServerId, IpOf(e)) \in UserRows
        BY DEF NewUser, UserRows, IpOf, Endpoints
      <3>2. users' = users \/ users' = Append(users, NewUser(ServerId, IpOf(e)))
        BY <1>3 DEF JoinServerInsert, InsertHostedServerUser
      <3>3. Len(users) < MaxUsers /\ UNCHANGED <<messages, channels>>
        BY <1>3 DEF JoinServerInsert
      <3>4. users' \in Seq(UserRows) /\ Len(users') <= MaxUsers
        <4>1. users \in Seq(UserRows) /\ Len(users) <= MaxUsers
          BY DEF TypeOK, TablesOK
        <4> HIDE DEF UserRows
        <4> QED BY <3>1, <3>2, <3>3, <4>1
      <3> QED BY <3>3, <3>4 DEF TypeOK, TablesOK
    <2>2. CallbackOK'
      BY <1>3 DEF JoinServerInsert, CallbackOK, CallbackRecord, IdleCallback
    <2> QED BY <1>3, <2>1, <2>2, TypeKept DEF JoinServerInsert, control, TypeOK
  <1>4. CASE CreateNewChannel
    <2>1. TablesOK'
      BY <1>4 DEF CreateNewChannel, InsertServerChatChannel, TypeOK, TablesOK
    <2> QED BY <1>4, <2>1, TypeKept DEF CreateNewChannel, control, TypeOK
  <1> QED BY <1>1, <1>2, <1>3, <1>4 DEF PacketCallback

\* The row a handler inserts.
LEMMA NewRowType ==
  ASSUME TypeOK, cb.pc \in {"insert", "push", "online"}
  PROVE  /\ cb.user \in DOMAIN server_users
         /\ server_users[cb.user] \in UserRecord
         /\ server_users[cb.user].data.id \in UserIds
         /\ cb.from \in Endpoints /\ cb.channel_id \in Channels
         /\ InsertChannelMessage(messages, cb.from, cb.channel_id,
                                 server_users[cb.user].data.id) \in Seq(MessageRow)
  <1>1. cb.user \in DOMAIN server_users /\ cb.from \in Endpoints /\ cb.channel_id \in Channels
    BY DEF TypeOK, CallbackOK
  <1>2. server_users[cb.user] \in UserRecord
    BY <1>1 DEF TypeOK, UsersOK
  <1>3. server_users[cb.user].data.id \in UserIds
    BY <1>2 DEF UserRecord, UserData
  <1> QED BY <1>1, <1>2, <1>3 DEF InsertChannelMessage, TypeOK, TablesOK, MessageRow

\* The row it queues.
LEMMA QueuedRowType ==
  ASSUME TypeOK, cb.pc = "push"
  PROVE  NewMessage \in QueueRow
  <1>1. cb.id \in Nat \ {0} /\ cb.from \in Endpoints /\ cb.channel_id \in Channels
    BY DEF TypeOK, TablesOK, CallbackOK, CallbackRecord
  <1>2. messages[cb.id] \in MessageRow
    BY DEF TypeOK, TablesOK, CallbackOK
  <1>3. messages[cb.id].sender_id \in UserIds
    BY <1>2 DEF MessageRow
  <1> QED BY <1>1, <1>3 DEF NewMessage, QueueRow

\* MarkUserOnline changes one record and no type.
LEMMA MarkUserOnlineType ==
  ASSUME TypeOK, NEW r \in DOMAIN server_users, MarkUserOnline(r), UNCHANGED loading
  PROVE  UsersOK' /\ DOMAIN server_users' = DOMAIN server_users
  <1>1. server_users[r] \in UserRecord
    BY DEF TypeOK, UsersOK
  <1>2. [server_users[r] EXCEPT !.status = "ONLINE", !.fresh = TRUE] \in UserRecord
    BY <1>1 DEF UserRecord
  <1> QED BY <1>2, UserUpdateType DEF MarkUserOnline, TypeOK

\* The later steps of the handlers.
LEMMA TypeCallback ==
  ASSUME TypeOK, CallbackStep
  PROVE  TypeOK'
  <1>1. CASE LoadChannelActive
    <2>1. UsersOK' /\ DOMAIN server_users' = DOMAIN server_users
      <3>1. cb.user \in DOMAIN server_users /\ cb.channel_id \in Channels
        BY <1>1 DEF LoadChannelActive, TypeOK, CallbackOK
      <3>2. server_users[cb.user] \in UserRecord
        BY <3>1, LoadedRecord
      <3>3. [server_users[cb.user] EXCEPT !.active_channel_id = cb.channel_id] \in UserRecord
        BY <3>1, <3>2 DEF UserRecord
      <3> QED BY <1>1, <3>1, <3>3, UserUpdateType DEF LoadChannelActive, control, TypeOK
    <2>2. CallbackOK'
      BY <1>1 DEF LoadChannelActive, TypeOK, CallbackOK, CallbackRecord
    <2> QED BY <1>1, <2>1, <2>2, TypeKept DEF LoadChannelActive, db, control, TypeOK
  <1>2. CASE LoadChannelReply
    <2>1. CallbackOK'
      BY <1>2 DEF LoadChannelReply, CallbackOK, CallbackRecord, IdleCallback
    <2> QED BY <1>2, <2>1, TypeKept DEF LoadChannelReply, db, control, TypeOK
  <1>3. CASE SendMessageInsert
    <2>1. TablesOK'
      BY <1>3, NewRowType DEF SendMessageInsert, TypeOK, TablesOK
    <2>2. CallbackOK'
      <3>1. Len(messages) \in Nat /\ Len(messages) + 1 \in DOMAIN messages'
        <4>1. messages \in Seq(MessageRow)
          BY DEF TypeOK, TablesOK
        <4>2. [message |-> cb.from, channel_id |-> cb.channel_id,
               sender_id |-> server_users[cb.user].data.id] \in MessageRow
          BY <1>3, NewRowType DEF SendMessageInsert, MessageRow
        <4> QED BY <1>3, <4>1, <4>2 DEF SendMessageInsert, InsertChannelMessage
      <3>2. cb' = [cb EXCEPT !.pc = "push", !.id = Len(messages) + 1]
        BY <1>3 DEF SendMessageInsert
      <3>3. cb' = [pc |-> "push", from |-> cb.from, channel_id |-> cb.channel_id,
                   user |-> cb.user, moved |-> cb.moved, id |-> Len(messages) + 1]
        BY <3>2 DEF TypeOK, CallbackOK, CallbackRecord
      <3>4. /\ cb.from \in Endpoints /\ cb.channel_id \in Channels
            /\ cb.user \in DOMAIN server_users
        BY <1>3, NewRowType DEF SendMessageInsert
      <3>5. cb.user \in Nat /\ cb.moved \in BOOLEAN
        BY DEF TypeOK, CallbackOK, CallbackRecord
      <3>6. UNCHANGED server_users
        BY <1>3 DEF SendMessageInsert
      <3> QED BY <3>1, <3>3, <3>4, <3>5, <3>6 DEF CallbackOK, CallbackRecord
    <2> QED BY <1>3, <2>1, <2>2, TypeKept DEF SendMessageInsert, control, TypeOK
  <1>4. CASE SendMessagePush
    <2>1. NewMessage \in QueueRow
      BY <1>4, QueuedRowType DEF SendMessagePush
    <2>2. new_messages' \in Seq(QueueRow)
      BY <1>4, <2>1 DEF SendMessagePush, TypeOK
    <2>3. CallbackOK'
      BY <1>4 DEF SendMessagePush, TypeOK, CallbackOK, CallbackRecord
    <2> QED BY <1>4, <2>2, <2>3, TypeKept DEF SendMessagePush, db, control, TypeOK
  <1>5. CASE SendMessageFailed
    <2>1. CallbackOK'
      BY <1>5 DEF SendMessageFailed, TypeOK, CallbackOK, CallbackRecord
    <2> QED BY <1>5, <2>1, TypeKept DEF SendMessageFailed, db, control, TypeOK
  <1>6. CASE SendMessageOnline
    <2>1. UsersOK' /\ DOMAIN server_users' = DOMAIN server_users
      BY <1>6, NewRowType, MarkUserOnlineType DEF SendMessageOnline, control
    <2>2. CallbackOK'
      BY <1>6 DEF SendMessageOnline, CallbackOK, CallbackRecord, IdleCallback
    <2> QED BY <1>6, <2>1, <2>2, TypeKept DEF SendMessageOnline, db, control, TypeOK
  <1>7. CASE MovedUserWrite
    <2>1. CallbackOK'
      <3>1. CASE cb.pc = "active"
        <4>1. cb' = [cb EXCEPT !.pc = "reply", !.user = 0, !.moved = FALSE]
          BY <1>7, <3>1 DEF MovedUserWrite
        <4> QED BY <3>1, <4>1 DEF TypeOK, CallbackOK, CallbackRecord
      <3>2. CASE cb.pc = "online"
        BY <1>7, <3>2 DEF MovedUserWrite, CallbackOK, CallbackRecord, IdleCallback
      <3> QED BY <1>7, <3>1, <3>2 DEF MovedUserWrite
    <2> QED BY <1>7, <2>1, TypeKept DEF MovedUserWrite, db, control, TypeOK
  <1>8. CASE SendMessageNoUsername \/ MovedUserAbort \/ JoinServerAbort \/ CbNullServer
    BY <1>8, TypeHostDown, TypeKept
       DEF SendMessageNoUsername, MovedUserAbort, JoinServerAbort, CbNullServer, HostDown, db
  <1> QED BY <1>1, <1>2, <1>3, <1>4, <1>5, <1>6, <1>7, <1>8 DEF CallbackStep

\* The background thread.
LEMMA TypeBackground ==
  ASSUME TypeOK, BackgroundStep
  PROVE  TypeOK'
  <1>1. CASE BgLoop
    <2>1. ThreadOK'
      BY <1>1 DEF BgLoop, TypeOK, ThreadOK, UsersOK
    <2> QED BY <1>1, <2>1, TypeKept DEF BgLoop, db, control, TypeOK
  <1>2. CASE BgClear
    <2>1. ThreadOK'
      <3>1. bg' = [pc |-> "loop", todo |-> {}, batch |-> <<>>]
        BY <1>2 DEF BgClear, NoThread
      <3> QED BY <3>1 DEF ThreadOK
    <2> QED BY <1>2, <2>1, TypeKept DEF BgClear, db, control, TypeOK
  <1>3. CASE BgNullServer
    BY <1>3, TypeHostDown, TypeKept DEF BgNullServer, HostDown, db
  <1>4. ASSUME NEW r \in bg.todo, BgUser(r) PROVE TypeOK'
    <2>1. ThreadOK'
      BY <1>4 DEF BgUser, Continue, TypeOK, ThreadOK
    <2> QED BY <1>4, <2>1, TypeKept DEF BgUser, db, control, TypeOK
  <1>5. ASSUME NEW r \in bg.todo, BgStaleUser(r) PROVE TypeOK'
    <2>1. ThreadOK'
      BY <1>5 DEF BgStaleUser, Continue, TypeOK, ThreadOK
    <2> QED BY <1>5, <2>1, TypeKept DEF BgStaleUser, db, control, TypeOK
  <1>6. ASSUME NEW r \in bg.todo, BgAnswer(r) PROVE TypeOK'
    <2>1. ThreadOK'
      BY <1>6 DEF BgAnswer, TypeOK, ThreadOK
    <2>2. UsersOK' /\ DOMAIN server_users' = DOMAIN server_users
      BY <1>6, MarkUserOnlineType DEF BgAnswer, control
    <2> QED BY <1>6, <2>1, <2>2, TypeKept DEF BgAnswer, db, control, TypeOK
  <1>7. ASSUME NEW r \in bg.todo, BgTimeout(r) PROVE TypeOK'
    <2>1. ThreadOK'
      BY <1>7 DEF BgTimeout, TypeOK, ThreadOK
    <2>2. UsersOK' /\ DOMAIN server_users' = DOMAIN server_users
      <3>1. [server_users[r] EXCEPT !.status = "OFFLINE"] \in UserRecord
        BY <1>7, LoadedRecord DEF BgTimeout, UserRecord
      <3> QED BY <1>7, <3>1, UserUpdateType DEF BgTimeout, control, TypeOK
    <2> QED BY <1>7, <2>1, <2>2, TypeKept DEF BgTimeout, db, control, TypeOK
  <1>8. ASSUME NEW r \in bg.todo, BgWipe(r) PROVE TypeOK'
    <2>1. ThreadOK'
      BY <1>8 DEF BgWipe, Continue, TypeOK, ThreadOK
    <2>2. UsersOK' /\ DOMAIN server_users' = DOMAIN server_users
      <3>1. [server_users[r] EXCEPT !.addr_data = NoAddr] \in UserRecord
        BY <1>8, LoadedRecord DEF BgWipe, UserRecord
      <3> QED BY <1>8, <3>1, UserUpdateType DEF BgWipe, control, TypeOK
    <2> QED BY <1>8, <2>1, <2>2, TypeKept DEF BgWipe, db, control, TypeOK
  <1>9. ASSUME NEW r \in bg.todo, BgSend(r) PROVE TypeOK'
    <2>1. ThreadOK'
      BY <1>9 DEF BgSend, Continue, TypeOK, ThreadOK
    <2>2. NetOK'
      <3> DEFINE packet == [to |-> server_users[r].addr_data, rows |-> ActiveRows(r)]
      <3>1. CASE net' = Append(net, packet) /\ server_users[r].addr_data # NoAddr
        <4>1. server_users[r].addr_data \in Endpoints
          BY <1>9, <3>1 DEF BgSend, TypeOK, UsersOK, UserRecord
        <4>2. /\ DOMAIN ActiveRows(r) \subseteq DOMAIN bg.batch
              /\ \A i \in DOMAIN ActiveRows(r) : ActiveRows(r)[i] = bg.batch[i]
          BY DEF ActiveRows, ChannelRows
        <4>3. bg.batch \in Seq(QueueRow)
          BY DEF TypeOK, ThreadOK
        <4>4. IsPacket(packet)
          BY <4>1, <4>2, <4>3 DEF IsPacket
        <4>5. \A k \in DOMAIN net' : IsPacket(net'[k])
          BY <3>1, <4>4, AppendRange DEF TypeOK, NetOK
        <4>6. IsSequence(net')
          <5>1. IsSequence(net)
            BY DEF TypeOK, NetOK
          <5> HIDE DEF packet
          <5> QED BY <3>1, <5>1, AppendRange
        <4> QED BY <4>5, <4>6 DEF NetOK
      <3>2. CASE net' = net
        BY <3>2, TypeKept
      <3> QED BY <1>9, <3>1, <3>2 DEF BgSend
    <2> QED BY <1>9, <2>1, <2>2, TypeKept DEF BgSend, db, control, TypeOK
  <1> QED BY <1>1, <1>2, <1>3, <1>4, <1>5, <1>6, <1>7, <1>8, <1>9 DEF BackgroundStep

\* Every step of the host keeps the types.
LEMMA TypeStep == TypeOK /\ Lifecycle /\ [Next]_vars => TypeOK'
  <1> SUFFICES ASSUME TypeOK, Lifecycle, [Next]_vars PROVE TypeOK'
    OBVIOUS
  <1>1. CASE StartCreate \/ StopBegin \/ GuiStep
    BY <1>1, TypeGui
  <1>2. CASE CallbackStep
    BY <1>2, TypeCallback
  <1>3. CASE BackgroundStep
    BY <1>3, TypeBackground
  <1>4. ASSUME NEW e \in Endpoints, PacketCallback(e) PROVE TypeOK'
    BY <1>4, TypePacket
  <1>5. CASE Crash
    BY <1>5, TypeHostDown, TypeKept DEF Crash, HostDown, db
  <1>6. CASE Launch
    <2>1. ObjectOK'
      BY <1>6 DEF Launch, control, TypeOK, ObjectOK
    <2> QED BY <1>6, <2>1, TypeKept DEF Launch, db, control, TypeOK
  <1>7. ASSUME NEW r \in DOMAIN server_users, TimePasses(r) PROVE TypeOK'
    <2>1. UsersOK' /\ DOMAIN server_users' = DOMAIN server_users
      <3>1. [server_users[r] EXCEPT !.fresh = FALSE] \in UserRecord
        BY <1>7, LoadedRecord DEF UserRecord
      <3> QED BY <1>7, <3>1, UserUpdateType DEF TimePasses, control, TypeOK
    <2> QED BY <1>7, <2>1, TypeKept DEF TimePasses, db, control, TypeOK
  <1>8. CASE UNCHANGED vars
    BY <1>8, TypeKept DEF vars, db, control, TypeOK
  <1> QED BY <1>1, <1>2, <1>3, <1>4, <1>5, <1>6, <1>7, <1>8 DEF Next

-----------------------------------------------------------------------------
(* The life cycle of the server: stopped, starting, whole, stopping. *)

\* The program starts with the object gone.
LEMMA LifecycleInit == Init => Lifecycle
  BY DEF Init, Lifecycle, IdleIsWhole, Gone

\* A new process is stopped and idle.
LEMMA LifecycleReset ==
  ASSUME ResetProcess
  PROVE  Lifecycle'
  BY DEF ResetProcess, Lifecycle, IdleIsWhole, Gone

\* Handlers and broadcasts run inside a phase and leave its shape alone.
LEMMA LifecycleKept ==
  ASSUME Lifecycle, UNCHANGED <<up, status, listening, server, stop, gui>>,
         server_users = NoUsers => server_users' = NoUsers,
         cb = IdleCallback /\ ~(up /\ listening) => cb' = IdleCallback,
         cb.pc \in {"idle", "join"} /\ server_users = NoUsers => cb'.pc \in {"idle", "join"},
         bg = NoThread => bg' = NoThread,
         bg.pc # "none" => bg'.pc # "none",
         ~stop /\ bg.pc # "exited" => bg'.pc # "exited"
  PROVE  Lifecycle'
  <1>1. IdleIsWhole'
    BY DEF Lifecycle, IdleIsWhole, Gone, Whole
  <1>2. gui \in {"created", "select", "push", "thread"} => Starting'
    BY DEF Lifecycle, Starting
  <1>3. gui \in {"cleanup", "forget", "clear", "flag", "join"} => Stopping'
    BY DEF Lifecycle, Stopping
  <1> QED BY <1>1, <1>2, <1>3 DEF Lifecycle

\* StartServer and StopServer take the object through the lifecycle step by step.
LEMMA LifecycleGui ==
  ASSUME TypeOK, Lifecycle, StartCreate \/ StopBegin \/ GuiStep
  PROVE  Lifecycle'
  <1> USE DEF Lifecycle, IdleIsWhole, Gone, Whole, Starting, Stopping
  <1>1. CASE StartCreate
    BY <1>1 DEF StartCreate, IdleCallback
  <1>2. CASE StartAssign
    BY <1>2 DEF StartAssign, TypeOK, ObjectOK
  <1>3. CASE StartSelect \/ StartFlag
    BY <1>3 DEF StartSelect, StartFlag, TypeOK, ObjectOK
  <1>10. CASE StartPush
    BY <1>10 DEF StartPush
  <1>11. CASE StartThread
    <2>1. bg' = [pc |-> "loop", todo |-> {}, batch |-> <<>>]
      BY <1>11 DEF StartThread, NoThread
    <2>2. Starting /\ gui = "thread"
      BY <1>11 DEF StartThread, Lifecycle
    <2>3. Whole'
      BY <1>11, <2>1, <2>2 DEF StartThread, Starting, Whole
    <2> QED BY <1>11, <2>2, <2>3 DEF StartThread, Starting, Lifecycle, IdleIsWhole
  <1>4. CASE StopBegin
    BY <1>4 DEF StopBegin, TypeOK, ObjectOK
  <1>5. CASE StopCleanup
    <2>1. Stopping /\ gui = "cleanup" /\ cb = IdleCallback
      BY <1>5 DEF StopCleanup, Lifecycle, TypeOK, CallbackOK
    <2>2. Stopping'
      BY <1>5, <2>1 DEF StopCleanup, Stopping
    <2> QED BY <1>5, <2>1, <2>2 DEF StopCleanup, Stopping, Lifecycle, IdleIsWhole
  <1>6. CASE StopForget
    BY <1>6 DEF StopForget, TypeOK, ObjectOK
  <1>7. CASE StopClear
    BY <1>7 DEF StopClear, TypeOK, ObjectOK
  <1>8. CASE StopFlag
    BY <1>8 DEF StopFlag, TypeOK, ObjectOK
  <1>9. CASE StopJoin
    BY <1>9 DEF StopJoin, TypeOK, ObjectOK
  <1> QED BY <1>1, <1>2, <1>3, <1>4, <1>5, <1>6, <1>7, <1>8, <1>9, <1>10, <1>11 DEF GuiStep

\* The handlers neither start nor stop anything, unless the process ends.
LEMMA LifecycleCallback ==
  ASSUME TypeOK, Lifecycle, CallbackStep \/ \E e \in Endpoints : PacketCallback(e)
  PROVE  Lifecycle'
  <1>1. ASSUME NEW e \in Endpoints, NEW c \in Channels,
               LoadChannelBegin(e, c) \/ SendMessageBegin(e, c)
        PROVE  Lifecycle'
    <2>1. up /\ listening /\ server_users # NoUsers
      BY <1>1 DEF LoadChannelBegin, SendMessageBegin, CanReceive, GetUserByAddrData, NoUsers
    <2> QED BY <1>1, <2>1, LifecycleKept DEF LoadChannelBegin, SendMessageBegin, control
  <1>2. ASSUME NEW e \in Endpoints, JoinServerInsert(e) PROVE Lifecycle'
    <2>1. up /\ listening /\ cb'.pc = "join"
      BY <1>2 DEF JoinServerInsert, CanReceive, IdleCallback
    <2> QED BY <1>2, <2>1, LifecycleKept DEF JoinServerInsert, control
  <1>3. CASE CreateNewChannel
    BY <1>3, LifecycleKept DEF CreateNewChannel, control
  <1>4. CASE \/ LoadChannelActive \/ SendMessagePush \/ SendMessageFailed
             \/ SendMessageOnline \/ MovedUserWrite
    <2>1. server_users # NoUsers /\ cb # IdleCallback
      BY <1>4 DEF LoadChannelActive, SendMessagePush, SendMessageFailed, SendMessageOnline,
                  MovedUserWrite, TypeOK, CallbackOK, NoUsers, IdleCallback
    <2> QED BY <1>4, <2>1, LifecycleKept
            DEF LoadChannelActive, SendMessagePush, SendMessageFailed, SendMessageOnline,
                MovedUserWrite, control
  <1>5. CASE LoadChannelReply
    <2>1. cb'.pc = "idle" /\ cb' = IdleCallback
      BY <1>5 DEF LoadChannelReply, IdleCallback
    <2> QED BY <1>5, <2>1, LifecycleKept DEF LoadChannelReply, control
  <1>6. CASE SendMessageInsert
    <2>1. cb # IdleCallback /\ cb.pc = "insert"
      BY <1>6 DEF SendMessageInsert, IdleCallback
    <2> QED BY <1>6, <2>1, LifecycleKept DEF SendMessageInsert, control
  <1>7. CASE SendMessageNoUsername \/ MovedUserAbort \/ JoinServerAbort \/ CbNullServer
    BY <1>7, LifecycleReset
       DEF SendMessageNoUsername, MovedUserAbort, JoinServerAbort, CbNullServer, HostDown
  <1> QED BY <1>1, <1>2, <1>3, <1>4, <1>5, <1>6, <1>7 DEF CallbackStep, PacketCallback

\* The background thread leaves its loop only when StopServer told it to.
LEMMA LifecycleBackground ==
  ASSUME TypeOK, Lifecycle, BackgroundStep
  PROVE  Lifecycle'
  <1>1. CASE BgLoop
    <2>1. bg # NoThread /\ bg'.pc # "none" /\ (~stop => bg'.pc # "exited")
      BY <1>1 DEF BgLoop, NoThread, TypeOK, ThreadOK
    <2> QED BY <1>1, <2>1, LifecycleKept DEF BgLoop, control
  <1>2. CASE BgClear
    <2>1. bg # NoThread /\ bg'.pc = "loop"
      BY <1>2 DEF BgClear, NoThread
    <2> QED BY <1>2, <2>1, LifecycleKept DEF BgClear, control
  <1>3. CASE BgNullServer
    BY <1>3, LifecycleReset DEF BgNullServer, HostDown
  <1>4. ASSUME NEW r \in bg.todo,
               \/ BgUser(r) \/ BgStaleUser(r) \/ BgAnswer(r) \/ BgTimeout(r) \/ BgWipe(r)
               \/ BgSend(r)
        PROVE  Lifecycle'
    <2>1. bg # NoThread
      BY <1>4 DEF NoThread
    <2>2. bg'.pc \in {"users", "check", "wipe", "send"}
      BY <1>4 DEF BgUser, BgStaleUser, BgAnswer, BgTimeout, BgWipe, BgSend, Continue,
                  TypeOK, ThreadOK
    <2>3. /\ UNCHANGED <<up, status, listening, server, stop, gui, cb>>
          /\ server_users = NoUsers => UNCHANGED server_users
      BY <1>4 DEF BgUser, BgStaleUser, BgAnswer, BgTimeout, BgWipe, BgSend, control, NoUsers
    <2> QED BY <2>1, <2>2, <2>3, LifecycleKept
  <1> QED BY <1>1, <1>2, <1>3, <1>4 DEF BackgroundStep

\* Every step keeps the lifecycle.
LEMMA LifecycleStep == TypeOK /\ Lifecycle /\ [Next]_vars => Lifecycle'
  <1> SUFFICES ASSUME TypeOK, Lifecycle, [Next]_vars PROVE Lifecycle'
    OBVIOUS
  <1>1. CASE StartCreate \/ StopBegin \/ GuiStep
    BY <1>1, LifecycleGui
  <1>2. CASE CallbackStep \/ \E e \in Endpoints : PacketCallback(e)
    BY <1>2, LifecycleCallback
  <1>3. CASE BackgroundStep
    BY <1>3, LifecycleBackground
  <1>4. CASE Crash
    BY <1>4, LifecycleReset DEF Crash, HostDown
  <1>5. CASE Launch
    BY <1>5 DEF Launch, control, Lifecycle, IdleIsWhole, Gone, Whole
  <1>6. ASSUME NEW r \in DOMAIN server_users, TimePasses(r) PROVE Lifecycle'
    <2>1. server_users # NoUsers
      BY DEF NoUsers
    <2> QED BY <1>6, <2>1, LifecycleKept DEF TimePasses, control
  <1>7. CASE UNCHANGED vars
    BY <1>7, LifecycleKept DEF vars, control
  <1> QED BY <1>1, <1>2, <1>3, <1>4, <1>5, <1>6, <1>7 DEF Next

\* Every variable of the host always has its type, and StartServer, StopServer,
\* the handlers and the broadcasts keep to the life cycle.
LEMMA TypeAndLifecycle == Spec => [](TypeOK /\ Lifecycle)
  <1>1. Init => TypeOK /\ Lifecycle
    BY TypeInit, LifecycleInit
  <1>2. TypeOK /\ Lifecycle /\ [Next]_vars => (TypeOK /\ Lifecycle)'
    BY TypeStep, LifecycleStep
  <1> QED BY <1>1, <1>2, PTL DEF Spec

\* Every variable of the host always has its type: in particular a handler's user
\* is loaded until the handler is done, whatever the main thread does meanwhile.
THEOREM TypeCorrect == Spec => []TypeOK
  BY TypeAndLifecycle, PTL

\* Between two button presses the hosted server is whole: it is stopped with no
\* thread, no SwiftNet server and no user left over, or it runs with all of them.
THEOREM IdleServerIsWhole == Spec => []IdleIsWhole
  <1>1. Lifecycle => IdleIsWhole
    BY DEF Lifecycle
  <1> QED BY <1>1, TypeAndLifecycle, PTL

-----------------------------------------------------------------------------
(* The tables only grow, and the loaded users are the users of the table. *)

\* Handlers other than a join leave the users' table alone.
LEMMA UsersTableKept ==
  ASSUME [Next]_vars, \A e \in Endpoints : ~JoinServerInsert(e)
  PROVE  UNCHANGED users
  <1>1. CASE StartCreate \/ StopBegin \/ GuiStep
    BY <1>1 DEF StartCreate, StopBegin, GuiStep, StartAssign, StartSelect, StartPush,
                StartFlag, StartThread, StopCleanup, StopForget, StopClear, StopFlag, StopJoin, db
  <1>2. CASE CallbackStep
    BY <1>2 DEF CallbackStep, LoadChannelActive, LoadChannelReply, SendMessageInsert,
                SendMessageNoUsername, SendMessagePush, SendMessageFailed, SendMessageOnline,
                MovedUserAbort, MovedUserWrite, JoinServerAbort, CbNullServer, db
  <1>3. CASE BackgroundStep
    BY <1>3 DEF BackgroundStep, BgLoop, BgClear, BgNullServer, BgUser, BgStaleUser,
                BgAnswer, BgTimeout, BgWipe, BgSend, db
  <1>4. ASSUME NEW e \in Endpoints, PacketCallback(e) PROVE UNCHANGED users
    BY <1>4 DEF PacketCallback, LoadChannelBegin, SendMessageBegin, CreateNewChannel, db
  <1>5. CASE Crash \/ Launch \/ UNCHANGED vars
    BY <1>5 DEF Crash, Launch, vars, db
  <1>6. ASSUME NEW r \in DOMAIN server_users, TimePasses(r) PROVE UNCHANGED users
    BY <1>6 DEF TimePasses, db
  <1> QED BY <1>1, <1>2, <1>3, <1>4, <1>5, <1>6 DEF Next

\* No row of hosted_server_users ever changes or goes, and addresses stay unique.
LEMMA UsersTableGrows ==
  ASSUME TypeOK, UniqueAddresses, [Next]_vars
  PROVE  /\ UniqueAddresses'
         /\ DOMAIN users \subseteq DOMAIN users'
         /\ \A r \in DOMAIN users : users'[r] = users[r]
  <1>1. ASSUME NEW e \in Endpoints, JoinServerInsert(e)
        PROVE  /\ UniqueAddresses'
               /\ DOMAIN users \subseteq DOMAIN users'
               /\ \A r \in DOMAIN users : users'[r] = users[r]
    <2>1. users \in Seq(UserRows)
      BY DEF TypeOK, TablesOK
    <2>2. CASE UNCHANGED users
      BY <2>2 DEF UniqueAddresses
    <2>3. CASE ~UNCHANGED users
      <3>1. users' = Append(users, NewUser(ServerId, IpOf(e)))
        BY <1>1, <2>3 DEF JoinServerInsert, InsertHostedServerUser
      <3>2. NewUser(ServerId, IpOf(e)) \in UserRows
        BY DEF NewUser, UserRows, IpOf, Endpoints
      <3>3. /\ Len(users) \in Nat /\ DOMAIN users = 1..Len(users)
            /\ DOMAIN users' = 1..(Len(users) + 1)
            /\ \A r \in DOMAIN users : users'[r] = users[r]
            /\ users'[Len(users) + 1].ip_address = IpOf(e)
        BY <2>1, <3>1, <3>2 DEF NewUser
      <3>4. \A r \in DOMAIN users : users[r].ip_address # IpOf(e)
        BY <1>1, <2>3 DEF JoinServerInsert, InsertHostedServerUser, IpTaken
      <3>5. UniqueAddresses'
        BY <3>3, <3>4 DEF UniqueAddresses
      <3> QED BY <3>3, <3>5
    <2> QED BY <2>2, <2>3
  <1>2. CASE UNCHANGED users
    BY <1>2 DEF UniqueAddresses
  <1> QED BY <1>1, <1>2, UsersTableKept

\* What a step may do to the loaded users: forget them all, load one, or change
\* fields of some of them; a user's own row never changes, and its address
\* changes to none or to one of its own host.
LEMMA LoadedUsersStep ==
  ASSUME TypeOK, [Next]_vars
  PROVE  \/ server_users' = NoUsers /\ (status' = "STOPPED" \/ gui' = "flag")
         \/ StartPush
         \/ /\ DOMAIN server_users' = DOMAIN server_users
            /\ \A r \in DOMAIN server_users :
                 /\ server_users'[r].data = server_users[r].data
                 /\ \/ server_users'[r].addr_data \in {server_users[r].addr_data, NoAddr}
                    \/ IpOf(server_users'[r].addr_data) = server_users[r].data.ip_address
  <1> DEFINE Changed ==
        /\ DOMAIN server_users' = DOMAIN server_users
        /\ \A r \in DOMAIN server_users :
             /\ server_users'[r].data = server_users[r].data
             /\ \/ server_users'[r].addr_data \in {server_users[r].addr_data, NoAddr}
                \/ IpOf(server_users'[r].addr_data) = server_users[r].data.ip_address
  <1>0. UNCHANGED server_users => Changed
    OBVIOUS
  <1>a. ASSUME NEW r \in DOMAIN server_users, NEW u \in UserRecord,
               server_users' = [server_users EXCEPT ![r] = u],
               u.data = server_users[r].data,
               \/ u.addr_data \in {server_users[r].addr_data, NoAddr}
               \/ IpOf(u.addr_data) = server_users[r].data.ip_address
        PROVE  Changed
    BY <1>a DEF TypeOK, UsersOK
  <1> HIDE DEF Changed
  <1>1. CASE StartCreate \/ StopBegin \/ GuiStep
    BY <1>0, <1>1 DEF StartCreate, StopBegin, GuiStep, StartAssign, StartSelect, StartFlag,
                      StartThread, StopCleanup, StopForget, StopClear, StopFlag, StopJoin
  <1>2. CASE LoadChannelActive
    <2>1. cb.user \in DOMAIN server_users /\ server_users[cb.user] \in UserRecord
          /\ cb.channel_id \in Channels
      BY <1>2, LoadedRecord DEF LoadChannelActive, TypeOK, CallbackOK
    <2> QED BY <1>2, <1>a, <2>1 DEF LoadChannelActive, UserRecord
  <1>3. CASE SendMessageOnline
    <2>1. /\ cb.user \in DOMAIN server_users /\ server_users[cb.user] \in UserRecord
          /\ MarkUserOnline(cb.user)
      BY <1>3, NewRowType DEF SendMessageOnline
    <2> QED BY <1>a, <2>1 DEF MarkUserOnline, UserRecord
  <1>4. CASE \/ LoadChannelReply \/ SendMessageInsert \/ SendMessagePush
             \/ SendMessageFailed \/ MovedUserWrite
             \/ SendMessageNoUsername \/ MovedUserAbort \/ JoinServerAbort \/ CbNullServer
    BY <1>0, <1>4 DEF LoadChannelReply, SendMessageInsert, SendMessagePush,
                      SendMessageFailed, MovedUserWrite, SendMessageNoUsername,
                      MovedUserAbort, JoinServerAbort, CbNullServer, HostDown, ResetProcess
  <1>5. CASE BgLoop \/ BgClear \/ BgNullServer
    BY <1>0, <1>5 DEF BgLoop, BgClear, BgNullServer, HostDown, ResetProcess
  <1>6. ASSUME NEW r \in bg.todo, BgUser(r) \/ BgStaleUser(r) \/ BgSend(r)
        PROVE  Changed
    BY <1>0, <1>6 DEF BgUser, BgStaleUser, BgSend
  <1>7. ASSUME NEW r \in bg.todo, BgAnswer(r) \/ BgTimeout(r) \/ BgWipe(r)
        PROVE  Changed
    <2>1. r \in DOMAIN server_users /\ server_users[r] \in UserRecord
      BY <1>7, LoadedRecord DEF BgAnswer, BgTimeout, BgWipe
    <2> QED BY <1>7, <1>a, <2>1 DEF BgAnswer, BgTimeout, BgWipe, MarkUserOnline, UserRecord
  <1>8. ASSUME NEW e \in Endpoints, NEW c \in Channels, LoadChannelBegin(e, c)
        PROVE  Changed
    <2>1. PICK r \in GetUserByAddrData(e) :
            \/ server_users' = [server_users EXCEPT ![r].active_channel_id = c]
            \/ server_users' = [server_users EXCEPT ![r] =
                 [@ EXCEPT !.addr_data = e, !.status = "ONLINE", !.fresh = TRUE]]
      BY <1>8 DEF LoadChannelBegin
    <2>2. /\ r \in DOMAIN server_users /\ server_users[r] \in UserRecord
          /\ server_users[r].data.ip_address = IpOf(e)
      BY <2>1, LoadedRecord DEF GetUserByAddrData
    <2> QED BY <1>a, <2>1, <2>2 DEF UserRecord
  <1>9. ASSUME NEW e \in Endpoints,
               \/ \E c \in Channels : SendMessageBegin(e, c)
               \/ JoinServerInsert(e) \/ CreateNewChannel
        PROVE  Changed
    BY <1>0, <1>9 DEF SendMessageBegin, JoinServerInsert, CreateNewChannel
  <1>10. CASE Crash \/ Launch \/ UNCHANGED vars
    BY <1>0, <1>10 DEF Crash, Launch, HostDown, ResetProcess, vars
  <1>11. ASSUME NEW r \in DOMAIN server_users, TimePasses(r) PROVE Changed
    <2>1. server_users[r] \in UserRecord
      BY LoadedRecord
    <2> QED BY <1>11, <1>a, <2>1 DEF TimePasses, UserRecord
  <1> QED
    BY <1>1, <1>2, <1>3, <1>4, <1>5, <1>6, <1>7, <1>8, <1>9, <1>10, <1>11
       DEF Next, CallbackStep, BackgroundStep, PacketCallback, Changed

\* At first nobody is loaded and the stored addresses are unique.
LEMMA UsersMatchInit == Init => UsersMatchTable
  BY DEF Init, UsersMatchTable, UniqueAddresses, NoUsers

\* Every step keeps the loaded users in agreement with their rows.
LEMMA UsersMatchStep ==
  ASSUME TypeOK, UsersMatchTable, Loading, [Next]_vars
  PROVE  UsersMatchTable'
  <1>1. /\ UniqueAddresses'
        /\ DOMAIN users \subseteq DOMAIN users'
        /\ \A r \in DOMAIN users : users'[r] = users[r]
    BY UsersTableGrows DEF UsersMatchTable
  <1>2. CASE server_users' = NoUsers
    BY <1>1, <1>2 DEF UsersMatchTable, NoUsers
  <1>3. CASE StartPush
    <2>1. PICK r \in DOMAIN loading :
            /\ DOMAIN server_users' = DOMAIN server_users \cup {r}
            /\ server_users'[r] = LoadedUser(loading[r])
            /\ \A s \in DOMAIN server_users : s # r => server_users'[s] = server_users[s]
      BY <1>3, StartPushEffect
    <2>2. /\ r \in MemberRows(users, ServerId)
          /\ loading[r].id = r % UserIdModulus /\ loading[r].ip_address = users[r].ip_address
      <3>1. r \in MemberRows(users, ServerId)
            /\ loading[r] = SelectHostedServerUsers(users, ServerId)[r]
        BY DEF Loading
      <3>2. SelectHostedServerUsers(users, ServerId)[r] =
              [id |-> r % UserIdModulus, ip_address |-> users[r].ip_address,
               user_type |-> users[r].user_type]
        BY <3>1 DEF SelectHostedServerUsers
      <3> QED BY <3>1, <3>2
    <2>3. UNCHANGED users
      BY <1>3 DEF StartPush, db
    <2> QED BY <1>1, <2>1, <2>2, <2>3 DEF UsersMatchTable, LoadedUser
  <1>4. CASE /\ DOMAIN server_users' = DOMAIN server_users
             /\ \A r \in DOMAIN server_users :
                  /\ server_users'[r].data = server_users[r].data
                  /\ \/ server_users'[r].addr_data \in {server_users[r].addr_data, NoAddr}
                     \/ IpOf(server_users'[r].addr_data) = server_users[r].data.ip_address
    BY <1>1, <1>4 DEF UsersMatchTable, MemberRows
  <1> QED BY <1>2, <1>3, <1>4, LoadedUsersStep

\* Outside StartServer nothing is being loaded.
LEMMA LoadingInit == Init => Loading
  BY DEF Init, Loading, NoUsers

\* What the loading and the loaded users' rows depend on changes in few steps: the rows
\* are selected, pushed and cleared by the main thread, and all is gone in a new process.
LEMMA LoadingSteps ==
  ASSUME TypeOK, [Next]_vars
  PROVE  \/ StartCreate \/ StopBegin \/ GuiStep
         \/ ResetProcess
         \/ /\ UNCHANGED <<loading, gui, status>>
            /\ DOMAIN server_users' = DOMAIN server_users
            /\ \/ cb.pc = "join" => UNCHANGED cb
               \/ \E e \in Endpoints : JoinServerInsert(e)
  <1> DEFINE Same ==
        /\ UNCHANGED <<loading, gui, status>>
        /\ DOMAIN server_users' = DOMAIN server_users
        /\ cb.pc = "join" => UNCHANGED cb
  <1>1. ASSUME CallbackStep PROVE Same \/ ResetProcess
    BY <1>1 DEF CallbackStep, LoadChannelActive, LoadChannelReply, SendMessageInsert,
                SendMessageNoUsername, SendMessagePush, SendMessageFailed, SendMessageOnline,
                MarkUserOnline, MovedUserAbort, MovedUserWrite, JoinServerAbort, CbNullServer,
                HostDown, control
  <1>2. ASSUME BackgroundStep PROVE Same \/ ResetProcess
    BY <1>2 DEF BackgroundStep, BgLoop, BgClear, BgNullServer, BgUser, BgStaleUser,
                BgAnswer, BgTimeout, BgWipe, BgSend, MarkUserOnline, HostDown, control
  <1>3. ASSUME NEW e \in Endpoints, NEW c \in Channels,
               LoadChannelBegin(e, c) \/ SendMessageBegin(e, c)
        PROVE  Same
    <2>1. DOMAIN server_users' = DOMAIN server_users
      BY <1>3 DEF LoadChannelBegin, SendMessageBegin
    <2> QED BY <1>3, <2>1 DEF LoadChannelBegin, SendMessageBegin, CanReceive, control
  <1>4. ASSUME NEW e \in Endpoints, JoinServerInsert(e)
        PROVE  UNCHANGED <<loading, gui, status, server_users>>
    BY <1>4 DEF JoinServerInsert, control
  <1>5. ASSUME CreateNewChannel \/ Launch \/ UNCHANGED vars PROVE Same
    BY <1>5 DEF CreateNewChannel, Launch, vars, control
  <1>6. ASSUME NEW r \in DOMAIN server_users, TimePasses(r) PROVE Same
    BY <1>6 DEF TimePasses, control
  <1>7. Crash => ResetProcess
    BY DEF Crash, HostDown
  <1> HIDE DEF Same
  <1>8. \/ StartCreate \/ StopBegin \/ GuiStep \/ ResetProcess \/ Same
        \/ \E e \in Endpoints : JoinServerInsert(e)
    BY <1>1, <1>2, <1>3, <1>5, <1>6, <1>7 DEF Next, PacketCallback
  <1> QED BY <1>4, <1>8 DEF Same

\* StartServer loads what it selected, in the order of the rows, and nobody is
\* forgotten: a host that joins meanwhile is still being answered.
LEMMA LoadingGui ==
  ASSUME TypeOK, Lifecycle, Loading, StartCreate \/ StopBegin \/ GuiStep
  PROVE  Loading'
  <1>1. UNCHANGED <<users, messages>>
    BY DEF StartCreate, StopBegin, GuiStep, StartAssign, StartSelect, StartPush, StartFlag,
           StartThread, StopCleanup, StopForget, StopClear, StopFlag, StopJoin, db
  <1>2. CASE StartSelect
    <2>1. server_users = NoUsers
      BY <1>2 DEF StartSelect, Lifecycle, Starting
    <2>2. DOMAIN loading' = MemberRows(users, ServerId)
      BY <1>2 DEF StartSelect, SelectHostedServerUsers
    <2> QED BY <1>1, <1>2, <2>1, <2>2 DEF StartSelect, Loading, NoUsers
  <1>3. CASE StartPush
    <2>1. PICK r \in DOMAIN loading :
            /\ NextToLoad(r)
            /\ DOMAIN server_users' = DOMAIN server_users \cup {r}
            /\ DOMAIN loading' = DOMAIN loading \ {r}
            /\ \A s \in DOMAIN loading' : loading'[s] = loading[s]
      BY <1>3, StartPushEffect
    <2>2. gui = "push" /\ gui' = "push" /\ UNCHANGED <<users, status>>
      BY <1>3, <1>1 DEF StartPush
    <2>3. cb'.pc = cb.pc /\ cb'.from = cb.from
      BY <1>3, StartPushCallback
    <2>4. \A t \in DOMAIN loading' : \A s \in DOMAIN server_users' : s < t
      <3>1. DOMAIN loading \subseteq Nat /\ DOMAIN server_users \subseteq Nat
        BY DEF TypeOK, UsersOK
      <3> QED BY <2>1, <3>1 DEF NextToLoad, Loading
    <2> QED BY <2>1, <2>2, <2>3, <2>4 DEF Loading
  <1>4. CASE StartFlag
    <2>1. loading' = NoUsers
      BY <1>4 DEF StartFlag, NoUsers, TypeOK, UsersOK
    <2>2. DOMAIN loading = {} /\ gui = "push" /\ gui' = "thread"
          /\ UNCHANGED <<server_users, cb>>
      BY <1>4 DEF StartFlag
    <2> QED BY <1>1, <2>1, <2>2 DEF Loading, NoUsers
  <1>5. CASE StartThread
    <2>1. loading = NoUsers /\ gui = "thread" /\ gui' = "idle"
          /\ UNCHANGED <<server_users, cb, loading>>
      BY <1>5 DEF StartThread, Loading
    <2> QED BY <1>1, <2>1 DEF Loading, NoUsers
  <1>6. CASE \/ StartCreate \/ StopBegin \/ StartAssign
             \/ StopCleanup \/ StopForget \/ StopClear \/ StopFlag \/ StopJoin
    <2>1. loading' = NoUsers
      BY <1>6 DEF StartCreate, StopBegin, StartAssign, StopCleanup, StopForget, StopClear,
                  StopFlag, StopJoin, Loading
    <2>2. gui' \notin {"push", "thread"} /\ (gui' = "idle" => status' = "STOPPED")
      BY <1>6 DEF StartCreate, StopBegin, StartAssign, StopCleanup, StopForget, StopClear,
                  StopFlag, StopJoin, Lifecycle, Stopping
    <2> QED BY <2>1, <2>2 DEF Loading, NoUsers
  <1> QED BY <1>2, <1>3, <1>4, <1>5, <1>6 DEF GuiStep

\* Every step keeps the loading in order.
LEMMA LoadingStep ==
  ASSUME TypeOK, Lifecycle, UsersMatchTable, Loading, [Next]_vars
  PROVE  Loading'
  <1>1. /\ DOMAIN users \subseteq DOMAIN users'
        /\ \A r \in DOMAIN users : users'[r] = users[r]
    BY UsersTableGrows DEF UsersMatchTable
  <1>2. CASE StartCreate \/ StopBegin \/ GuiStep
    BY <1>2, LoadingGui
  <1>3. CASE ResetProcess
    BY <1>3 DEF ResetProcess, Loading, NoUsers
  <1>4. ASSUME UNCHANGED <<loading, gui, status>>, DOMAIN server_users' = DOMAIN server_users,
               \A r \in MemberRows(users', ServerId) :
                 \/ r \in MemberRows(users, ServerId) /\ (cb.pc = "join" => UNCHANGED cb)
                 \/ cb'.pc = "join" /\ IpOf(cb'.from) = users'[r].ip_address
        PROVE  Loading'
    <2>1. \A r \in MemberRows(users, ServerId) :
            /\ r \in MemberRows(users', ServerId) /\ users'[r] = users[r]
            /\ SelectHostedServerUsers(users', ServerId)[r]
                 = SelectHostedServerUsers(users, ServerId)[r]
      BY <1>1 DEF MemberRows, SelectHostedServerUsers
    <2> HIDE DEF SelectHostedServerUsers
    <2>2. \A r \in DOMAIN loading :
            /\ r \in MemberRows(users', ServerId)
            /\ loading[r] = SelectHostedServerUsers(users', ServerId)[r]
      BY <2>1 DEF Loading
    <2> QED BY <1>4, <2>1, <2>2 DEF Loading
  <1>5. ASSUME NEW e \in Endpoints, JoinServerInsert(e) PROVE Loading'
    <2>1. /\ UNCHANGED <<loading, gui, status, server_users>>
          /\ cb.pc # "join" /\ cb'.pc = "join" /\ cb'.from = e
      BY <1>5 DEF JoinServerInsert, control, CanReceive, IdleCallback
    <2>2. users' = users \/ users' = Append(users, NewUser(ServerId, IpOf(e)))
      BY <1>5 DEF JoinServerInsert, InsertHostedServerUser
    <2>3. ASSUME NEW r \in DOMAIN users', r \notin DOMAIN users
          PROVE  users'[r].ip_address = IpOf(e)
      <3>1. users \in Seq(UserRows) /\ NewUser(ServerId, IpOf(e)) \in UserRows
        BY DEF TypeOK, TablesOK, NewUser, UserRows, IpOf, Endpoints
      <3>2. users'[r] = NewUser(ServerId, IpOf(e))
        BY <2>2, <2>3, <3>1
      <3> QED BY <3>2 DEF NewUser
    <2>4. \A r \in MemberRows(users', ServerId) :
            \/ r \in MemberRows(users, ServerId) /\ (cb.pc = "join" => UNCHANGED cb)
            \/ cb'.pc = "join" /\ IpOf(cb'.from) = users'[r].ip_address
      BY <1>1, <2>1, <2>3 DEF MemberRows
    <2> QED BY <1>4, <2>1, <2>4
  <1>6. CASE /\ \A e \in Endpoints : ~JoinServerInsert(e)
             /\ UNCHANGED <<loading, gui, status>>
             /\ DOMAIN server_users' = DOMAIN server_users
             /\ cb.pc = "join" => UNCHANGED cb
    <2>1. UNCHANGED users
      BY <1>6, UsersTableKept
    <2> QED BY <1>4, <1>6, <2>1
  <1> QED BY <1>2, <1>3, <1>5, <1>6, LoadingSteps

-----------------------------------------------------------------------------
(* The order of the queue, the batch and the packets. *)

\* No message that was stored ever changes or goes.
LEMMA MessagesGrow ==
  ASSUME TypeOK, [Next]_vars
  PROVE  /\ Len(messages) \in Nat /\ Len(messages') \in Nat
         /\ Len(messages) <= Len(messages')
         /\ DOMAIN messages = 1..Len(messages) /\ DOMAIN messages' = 1..Len(messages')
         /\ \A m \in DOMAIN messages : messages'[m] = messages[m]
  <1>0. messages \in Seq(MessageRow)
    BY DEF TypeOK, TablesOK
  <1>1. ASSUME StartCreate \/ StopBegin \/ GuiStep PROVE UNCHANGED messages
    BY <1>1 DEF StartCreate, StopBegin, GuiStep, StartAssign, StartSelect, StartPush,
                StartFlag, StartThread, StopCleanup, StopForget, StopClear, StopFlag, StopJoin, db
  <1>2. CASE SendMessageInsert
    <2> DEFINE row == [message |-> cb.from, channel_id |-> cb.channel_id,
                       sender_id |-> server_users[cb.user].data.id]
    <2>1. row \in MessageRow
      BY <1>2, NewRowType DEF SendMessageInsert, MessageRow
    <2>2. messages' = Append(messages, row)
      BY <1>2 DEF SendMessageInsert, InsertChannelMessage
    <2> HIDE DEF row
    <2> QED BY <1>0, <2>1, <2>2
  <1>3. ASSUME \/ LoadChannelActive \/ LoadChannelReply \/ SendMessagePush
               \/ SendMessageFailed \/ SendMessageOnline \/ SendMessageNoUsername
               \/ MovedUserAbort \/ MovedUserWrite \/ JoinServerAbort \/ CbNullServer
        PROVE  UNCHANGED messages
    BY <1>3 DEF LoadChannelActive, LoadChannelReply, SendMessagePush, SendMessageFailed,
                SendMessageOnline, SendMessageNoUsername, MovedUserAbort, MovedUserWrite,
                JoinServerAbort, CbNullServer, db
  <1>4. ASSUME BackgroundStep PROVE UNCHANGED messages
    BY <1>4 DEF BackgroundStep, BgLoop, BgClear, BgNullServer, BgUser, BgStaleUser,
                      BgAnswer, BgTimeout, BgWipe, BgSend, db
  <1>5. ASSUME NEW e \in Endpoints, PacketCallback(e) PROVE UNCHANGED messages
    BY <1>5 DEF PacketCallback, LoadChannelBegin, SendMessageBegin, JoinServerInsert,
                CreateNewChannel, db
  <1>6. ASSUME Crash \/ Launch \/ UNCHANGED vars PROVE UNCHANGED messages
    BY <1>6 DEF Crash, Launch, vars, db
  <1>7. ASSUME NEW r \in DOMAIN server_users, TimePasses(r) PROVE UNCHANGED messages
    BY <1>7 DEF TimePasses, db
  <1>8. UNCHANGED messages \/ SendMessageInsert
    BY <1>1, <1>3, <1>4, <1>5, <1>6, <1>7 DEF Next, CallbackStep
  <1>9. CASE UNCHANGED messages
    BY <1>0, <1>9
  <1> QED BY <1>2, <1>8, <1>9

\* Every id the order is about is a natural number.
LEMMA IdTypes ==
  ASSUME TypeOK
  PROVE  /\ \A i \in DOMAIN new_messages : new_messages[i].id \in Nat
         /\ \A i \in DOMAIN bg.batch : bg.batch[i].id \in Nat
         /\ \A k \in DOMAIN net : \A i \in DOMAIN net[k].rows : net[k].rows[i].id \in Nat
         /\ cb.id \in Nat
  <1>0. ASSUME NEW s \in Seq(QueueRow), NEW i \in DOMAIN s PROVE s[i].id \in Nat
    <2>1. s[i] \in QueueRow
      OBVIOUS
    <2> QED BY <2>1 DEF QueueRow
  <1>1. \A i \in DOMAIN new_messages : new_messages[i].id \in Nat
    BY <1>0 DEF TypeOK
  <1>2. \A i \in DOMAIN bg.batch : bg.batch[i].id \in Nat
    BY <1>0 DEF TypeOK, ThreadOK
  <1>3. \A k \in DOMAIN net : \A i \in DOMAIN net[k].rows : net[k].rows[i].id \in Nat
    BY DEF TypeOK, NetOK, IsPacket, QueueRow
  <1>4. cb.id \in Nat
    BY DEF TypeOK, CallbackOK, CallbackRecord
  <1> QED BY <1>1, <1>2, <1>3, <1>4

\* Steps that neither queue, send nor end a broadcast keep the order.
LEMMA OrderKept ==
  ASSUME TypeOK, QueueInOrder, SentBeforeQueued, UniqueAddresses, [Next]_vars,
         UNCHANGED <<new_messages, net>>,
         cb'.pc = "push" => cb.pc = "push" /\ cb'.id = cb.id,
         Broadcasting' <=> Broadcasting,
         Broadcasting => bg'.batch = bg.batch /\ bg'.todo \subseteq bg.todo
  PROVE  QueueInOrder' /\ SentBeforeQueued'
  <1>1. Len(messages) \in Nat /\ Len(messages') \in Nat /\ Len(messages) <= Len(messages')
    BY MessagesGrow
  <1>2. QueueInOrder'
    BY <1>1, IdTypes DEF QueueInOrder
  <1>3. ASSUME NEW ip, Served(ip) PROVE Served(ip)'
    BY <1>3, UsersTableGrows DEF Served
  <1>4. SentBeforeQueued'
    BY <1>1, <1>3, IdTypes DEF SentBeforeQueued
  <1> QED BY <1>2, <1>4

\* A new process has an empty queue and no broadcast.
LEMMA OrderReset ==
  ASSUME TypeOK, QueueInOrder, SentBeforeQueued, [Next]_vars, ResetProcess, UNCHANGED net
  PROVE  QueueInOrder' /\ SentBeforeQueued'
  <1>1. Len(messages) \in Nat /\ Len(messages') \in Nat /\ Len(messages) <= Len(messages')
    BY MessagesGrow
  <1>2. new_messages' = <<>> /\ ~Broadcasting' /\ cb'.pc = "idle"
    BY DEF ResetProcess, Broadcasting, NoThread, IdleCallback
  <1>3. QueueInOrder'
    BY <1>2 DEF QueueInOrder
  <1>4. SentBeforeQueued'
    BY <1>1, <1>2, IdTypes DEF SentBeforeQueued
  <1> QED BY <1>3, <1>4

\* SendMessage: the new id is above everything stored, queued or sent.
LEMMA OrderSendMessage ==
  ASSUME TypeOK, QueueInOrder, SentBeforeQueued, UniqueAddresses, [Next]_vars,
         SendMessageInsert \/ SendMessagePush
  PROVE  QueueInOrder' /\ SentBeforeQueued'
  <1>1. /\ Len(messages) \in Nat /\ Len(messages') \in Nat
        /\ Len(messages) <= Len(messages')
    BY MessagesGrow
  <1>2. CASE SendMessageInsert
    <2>1. messages' = Append(messages, [message |-> cb.from, channel_id |-> cb.channel_id,
                                        sender_id |-> server_users[cb.user].data.id])
      BY <1>2 DEF SendMessageInsert, InsertChannelMessage
    <2>2. Len(messages') = Len(messages) + 1
      <3>1. messages \in Seq(MessageRow) /\ messages' \in Seq(MessageRow)
        BY <1>2, NewRowType DEF SendMessageInsert, TypeOK, TablesOK
      <3> QED BY <2>1, <3>1
    <2>3. cb'.id = Len(messages) + 1
      BY <1>2 DEF SendMessageInsert, TypeOK, CallbackOK, CallbackRecord
    <2>4. UNCHANGED <<users, bg, net, new_messages>>
      BY <1>2 DEF SendMessageInsert
    <2>5. QueueInOrder'
      <3>1. \A i \in DOMAIN new_messages : new_messages[i].id <= Len(messages)
        BY DEF QueueInOrder
      <3>2. \A k \in DOMAIN net : \A i \in DOMAIN net[k].rows :
              net[k].rows[i].id <= Len(messages)
        BY DEF SentBeforeQueued
      <3> QED BY <1>1, <2>2, <2>3, <2>4, <3>1, <3>2, IdTypes DEF QueueInOrder, Broadcasting
    <2>6. SentBeforeQueued'
      BY <1>1, <2>4, IdTypes DEF SentBeforeQueued, Served, Broadcasting
    <2> QED BY <2>5, <2>6
  <1>3. CASE SendMessagePush
    <2>1. /\ cb.pc = "push" /\ cb'.pc = "online"
          /\ new_messages' = Append(new_messages, NewMessage)
          /\ UNCHANGED <<users, messages, bg, net>>
      BY <1>3 DEF SendMessagePush, TypeOK, CallbackOK, CallbackRecord, db
    <2>2. new_messages \in Seq(QueueRow) /\ NewMessage \in QueueRow
      BY <2>1, QueuedRowType DEF TypeOK
    <2>3. /\ Len(new_messages) \in Nat /\ DOMAIN new_messages = 1..Len(new_messages)
          /\ DOMAIN new_messages' = 1..(Len(new_messages) + 1)
          /\ Len(new_messages') = Len(new_messages) + 1
          /\ \A i \in DOMAIN new_messages : new_messages'[i] = new_messages[i]
          /\ new_messages'[Len(new_messages) + 1].id = cb.id
      BY <2>1, <2>2 DEF NewMessage
    <2>4. QueueInOrder'
      <3>1. \A i \in DOMAIN new_messages' : new_messages'[i].id <= Len(messages')
        BY <2>1, <2>3 DEF QueueInOrder
      <3>2. \A i, j \in DOMAIN new_messages' : i < j => new_messages'[i].id < new_messages'[j].id
        BY <2>1, <2>3 DEF QueueInOrder
      <3>3. Broadcasting' => /\ Len(bg'.batch) <= Len(new_messages')
                             /\ \A i \in DOMAIN bg'.batch : bg'.batch[i] = new_messages'[i]
        <4>1. bg.batch \in Seq(QueueRow)
          BY DEF TypeOK, ThreadOK
        <4> QED BY <2>1, <2>3, <4>1 DEF QueueInOrder, Broadcasting
      <3> QED BY <2>1, <3>1, <3>2, <3>3 DEF QueueInOrder
    <2>5. SentBeforeQueued'
      BY <2>1, <2>3 DEF SentBeforeQueued, QueueInOrder, Served, Broadcasting
    <2> QED BY <2>4, <2>5
  <1> QED BY <1>2, <1>3

\* BgSend adds at most one packet, with rows of the batch, for a user whose turn
\* it was.
LEMMA SendEffect ==
  ASSUME TypeOK, NEW r \in bg.todo, BgSend(r)
  PROVE  /\ r \in DOMAIN server_users
         /\ UNCHANGED <<users, messages, channels, server_users, new_messages, cb>>
         /\ bg' = Continue(r)
         /\ \/ UNCHANGED net
            \/ /\ server_users[r].addr_data # NoAddr
               /\ DOMAIN net' = 1..(Len(net) + 1) /\ DOMAIN net = 1..Len(net)
               /\ Len(net) \in Nat
               /\ \A k \in DOMAIN net : net'[k] = net[k]
               /\ net'[Len(net) + 1].to = server_users[r].addr_data
               /\ net'[Len(net) + 1].rows = ActiveRows(r)
  <1> DEFINE packet == [to |-> server_users[r].addr_data, rows |-> ActiveRows(r)]
  <1>1. /\ r \in DOMAIN server_users
        /\ UNCHANGED <<users, messages, channels, server_users, new_messages, cb>>
        /\ bg' = Continue(r)
        /\ UNCHANGED net \/ (server_users[r].addr_data # NoAddr /\ net' = Append(net, packet))
    BY DEF BgSend, db
  <1>2. ASSUME net' = Append(net, packet)
        PROVE  /\ DOMAIN net' = 1..(Len(net) + 1) /\ DOMAIN net = 1..Len(net)
               /\ Len(net) \in Nat
               /\ \A k \in DOMAIN net : net'[k] = net[k]
               /\ net'[Len(net) + 1] = packet
    <2>1. IsSequence(net)
      BY DEF TypeOK, NetOK
    <2> HIDE DEF packet
    <2> QED BY <1>2, <2>1, AppendRange
  <1> QED BY <1>1, <1>2

\* What is sent to a user is in the batch, in the order of the batch.
LEMMA ActiveRowsOfBatch ==
  ASSUME NEW r
  PROVE  /\ DOMAIN ActiveRows(r) \subseteq DOMAIN bg.batch
         /\ \A i \in DOMAIN ActiveRows(r) :
              /\ ActiveRows(r)[i] = bg.batch[i]
              /\ bg.batch[i].channel_id = server_users[r].active_channel_id
  BY DEF ActiveRows, ChannelRows

\* A packet of the broadcast under way is older than what will follow, and newer
\* than all its host was sent: its user's turn comes once.
LEMMA SendInOrder ==
  ASSUME TypeOK, UsersMatchTable, QueueInOrder, SentBeforeQueued,
         NEW r \in bg.todo, BgSend(r), NEW i \in DOMAIN ActiveRows(r)
  PROVE  /\ ActiveRows(r)[i].id <= Len(messages)
         /\ i \in DOMAIN new_messages /\ ActiveRows(r)[i] = new_messages[i]
         /\ \A k \in DOMAIN net : IpOf(net[k].to) = server_users[r].data.ip_address =>
              \A j \in DOMAIN net[k].rows : net[k].rows[j].id < ActiveRows(r)[i].id
  <1>1. Broadcasting
    BY DEF BgSend, Broadcasting
  <1>2. bg.batch \in Seq(QueueRow) /\ new_messages \in Seq(QueueRow)
    BY DEF TypeOK, ThreadOK
  <1>3. i \in DOMAIN bg.batch /\ ActiveRows(r)[i] = bg.batch[i]
    BY ActiveRowsOfBatch
  <1>4. i \in DOMAIN new_messages /\ ActiveRows(r)[i] = new_messages[i]
    BY <1>1, <1>2, <1>3 DEF QueueInOrder
  <1>5. r \in DOMAIN users /\ server_users[r].data.ip_address = users[r].ip_address
    BY SendEffect DEF UsersMatchTable, MemberRows
  <1>6. ~Served(users[r].ip_address)
    BY <1>5 DEF Served, UsersMatchTable, UniqueAddresses
  <1> QED BY <1>4, <1>5, <1>6 DEF QueueInOrder, SentBeforeQueued

\* Sending a packet keeps the order: its host is served from then on.
LEMMA OrderSend ==
  ASSUME TypeOK, UsersMatchTable, QueueInOrder, SentBeforeQueued, [Next]_vars,
         NEW r \in bg.todo, BgSend(r)
  PROVE  QueueInOrder' /\ SentBeforeQueued'
  <1>1. Broadcasting /\ Broadcasting' /\ bg'.batch = bg.batch /\ bg'.todo = bg.todo \ {r}
    BY DEF BgSend, Continue, Broadcasting, TypeOK, ThreadOK
  <1>2. cb.pc # "push" \/ UNCHANGED cb
    BY SendEffect
  <1>3. CASE UNCHANGED net
    <2>1. UniqueAddresses
      BY DEF UsersMatchTable
    <2> QED BY <1>1, <1>3, <2>1, SendEffect, OrderKept
  <1>4. CASE ~UNCHANGED net
    <2>1. /\ r \in DOMAIN server_users
          /\ UNCHANGED <<users, messages, server_users, new_messages, cb>>
          /\ server_users[r].addr_data # NoAddr
          /\ DOMAIN net' = 1..(Len(net) + 1) /\ DOMAIN net = 1..Len(net)
          /\ Len(net) \in Nat
          /\ \A k \in DOMAIN net : net'[k] = net[k]
          /\ net'[Len(net) + 1].to = server_users[r].addr_data
          /\ net'[Len(net) + 1].rows = ActiveRows(r)
      BY <1>4, SendEffect
    <2>2. ASSUME NEW i \in DOMAIN ActiveRows(r)
          PROVE  /\ ActiveRows(r)[i].id <= Len(messages)
                 /\ i \in DOMAIN new_messages /\ ActiveRows(r)[i] = new_messages[i]
      BY <2>2, SendInOrder
    <2>3. QueueInOrder'
      BY <1>1, <2>1, <2>2 DEF QueueInOrder
    <2>4. Served(IpOf(server_users[r].addr_data))'
      BY <1>1, <2>1 DEF Served, UsersMatchTable, MemberRows
    <2>5. ASSUME NEW ip, Served(ip) PROVE Served(ip)'
      BY <1>1, <2>1, <2>5 DEF Served
    <2>6. SentBeforeQueued'
      BY <2>1, <2>2, <2>4, <2>5 DEF SentBeforeQueued
    <2> QED BY <2>3, <2>6
  <1> QED BY <1>3, <1>4

\* The background thread keeps the order: it drops only what it has sent.
LEMMA OrderBackground ==
  ASSUME TypeOK, UsersMatchTable, QueueInOrder, SentBeforeQueued, [Next]_vars, BackgroundStep
  PROVE  QueueInOrder' /\ SentBeforeQueued'
  <1>0. UniqueAddresses
    BY DEF UsersMatchTable
  <1>1. CASE BgLoop
    <2>1. ~Broadcasting /\ UNCHANGED <<users, messages, new_messages, cb, net>>
      BY <1>1 DEF BgLoop, Broadcasting, db
    <2>2. bg'.pc = "exited" \/ bg'.batch = new_messages
      BY <1>1 DEF BgLoop, TypeOK, ThreadOK
    <2>3. QueueInOrder'
      BY <2>1, <2>2 DEF QueueInOrder, Broadcasting, TypeOK
    <2>4. SentBeforeQueued'
      BY <2>1 DEF SentBeforeQueued, Served
    <2> QED BY <2>3, <2>4
  <1>2. CASE BgClear
    <2>1. /\ new_messages' = <<>> /\ ~Broadcasting'
          /\ UNCHANGED <<users, messages, cb, net>>
      BY <1>2 DEF BgClear, Broadcasting, NoThread, db
    <2>2. QueueInOrder'
      BY <2>1 DEF QueueInOrder
    <2>3. SentBeforeQueued'
      BY <2>1 DEF SentBeforeQueued
    <2> QED BY <2>2, <2>3
  <1>3. CASE BgNullServer
    BY <1>3, OrderReset DEF BgNullServer, HostDown
  <1>4. ASSUME NEW r \in bg.todo,
               \/ BgUser(r) \/ BgStaleUser(r) \/ BgAnswer(r) \/ BgTimeout(r) \/ BgWipe(r)
        PROVE  QueueInOrder' /\ SentBeforeQueued'
    <2>1. /\ UNCHANGED <<new_messages, net, cb>>
          /\ Broadcasting /\ Broadcasting'
          /\ bg'.batch = bg.batch /\ bg'.todo \subseteq bg.todo
      BY <1>4 DEF BgUser, BgStaleUser, BgAnswer, BgTimeout, BgWipe, Continue, Broadcasting,
                  TypeOK, ThreadOK
    <2> QED BY <1>0, <2>1, OrderKept
  <1>5. ASSUME NEW r \in bg.todo, BgSend(r) PROVE QueueInOrder' /\ SentBeforeQueued'
    BY <1>5, OrderSend
  <1> QED BY <1>1, <1>2, <1>3, <1>4, <1>5 DEF BackgroundStep

\* Nothing is queued or sent at first.
LEMMA OrderInit == Init => QueueInOrder /\ SentBeforeQueued /\ FeedInOrder
  BY DEF Init, QueueInOrder, SentBeforeQueued, FeedInOrder, Broadcasting, NoThread,
         IdleCallback

\* Every step keeps the queue in order and what was sent before what is queued.
LEMMA OrderStep ==
  ASSUME TypeOK, Lifecycle, UsersMatchTable, QueueInOrder, SentBeforeQueued, [Next]_vars
  PROVE  QueueInOrder' /\ SentBeforeQueued'
  <1>0. UniqueAddresses
    BY DEF UsersMatchTable
  <1>1. CASE StartCreate \/ StopBegin \/ StartAssign \/ StartSelect \/ StartFlag
             \/ StopCleanup \/ StopForget \/ StopClear \/ StopFlag
    <2>1. UNCHANGED <<new_messages, net, cb, bg>>
      BY <1>1 DEF StartCreate, StopBegin, StartAssign, StartSelect, StartFlag, StopCleanup,
                  StopForget, StopClear, StopFlag
    <2> QED BY <1>0, <2>1, OrderKept DEF Broadcasting
  <1>2. CASE StartThread \/ StopJoin
    <2>1. UNCHANGED <<new_messages, net, cb>>
      BY <1>2 DEF StartThread, StopJoin
    <2>2. ~Broadcasting'
      BY <1>2 DEF StartThread, StopJoin, NoThread, Broadcasting
    <2>3. QueueInOrder'
      BY <2>1, <2>2, MessagesGrow, IdTypes DEF QueueInOrder
    <2>4. UNCHANGED messages
      BY <1>2 DEF StartThread, StopJoin, db
    <2>5. ~Broadcasting => SentBeforeQueued'
      BY <2>1, <2>4 DEF SentBeforeQueued, Served
    <2>6. ~Broadcasting
      BY <1>2 DEF StartThread, StopJoin, Lifecycle, Starting, NoThread, Broadcasting
    <2> QED BY <2>3, <2>5, <2>6
  <1>9. CASE StartPush
    <2>1. UNCHANGED <<new_messages, net, bg>> /\ cb'.pc = cb.pc /\ cb'.id = cb.id
      BY <1>9, StartPushCallback DEF StartPush
    <2> QED BY <1>0, <2>1, OrderKept DEF Broadcasting
  <1>3. CASE SendMessageInsert \/ SendMessagePush
    BY <1>0, <1>3, OrderSendMessage
  <1>4. CASE \/ LoadChannelActive \/ LoadChannelReply \/ SendMessageFailed
             \/ SendMessageOnline \/ MovedUserWrite
    <2>1. UNCHANGED <<new_messages, net, bg>>
      BY <1>4 DEF LoadChannelActive, LoadChannelReply, SendMessageFailed, SendMessageOnline,
                  MovedUserWrite
    <2>2. cb'.pc \in {"reply", "online", "idle"}
      <3>1. CASE cb' = IdleCallback
        BY <3>1 DEF IdleCallback
      <3>2. CASE cb' # IdleCallback
        <4>1. \/ cb' = [cb EXCEPT !.pc = "reply", !.user = 0]
              \/ cb' = [cb EXCEPT !.pc = "reply", !.user = 0, !.moved = FALSE]
              \/ cb' = [cb EXCEPT !.pc = "online"]
          BY <1>4, <3>2 DEF LoadChannelActive, LoadChannelReply, SendMessageFailed,
                            SendMessageOnline, MovedUserWrite
        <4> QED BY <4>1 DEF TypeOK, CallbackOK, CallbackRecord
      <3> QED BY <3>1, <3>2
    <2> QED BY <1>0, <2>1, <2>2, OrderKept DEF Broadcasting
  <1>5. CASE \/ SendMessageNoUsername \/ MovedUserAbort \/ JoinServerAbort
             \/ CbNullServer \/ Crash
    BY <1>5, OrderReset DEF SendMessageNoUsername, MovedUserAbort, JoinServerAbort,
                            CbNullServer, Crash, HostDown
  <1>6. CASE BackgroundStep
    BY <1>6, OrderBackground
  <1>7. ASSUME NEW e \in Endpoints, PacketCallback(e)
        PROVE  QueueInOrder' /\ SentBeforeQueued'
    <2>1. UNCHANGED <<new_messages, net, bg>>
      BY <1>7 DEF PacketCallback, LoadChannelBegin, SendMessageBegin, JoinServerInsert,
                  CreateNewChannel
    <2>2. ASSUME NEW c \in Channels, LoadChannelBegin(e, c) PROVE cb'.pc # "push"
      BY <2>2 DEF LoadChannelBegin, IdleCallback
    <2>3. ASSUME NEW c \in Channels, SendMessageBegin(e, c) PROVE cb'.pc # "push"
      BY <2>3 DEF SendMessageBegin, IdleCallback
    <2>4. ASSUME JoinServerInsert(e) PROVE cb'.pc # "push"
      BY <2>4 DEF JoinServerInsert, IdleCallback
    <2>5. ASSUME CreateNewChannel PROVE UNCHANGED cb
      BY <2>5 DEF CreateNewChannel
    <2>6. cb'.pc # "push" \/ UNCHANGED cb
      BY <1>7, <2>2, <2>3, <2>4, <2>5 DEF PacketCallback
    <2> QED BY <1>0, <2>1, <2>6, OrderKept DEF Broadcasting
  <1>8. CASE Launch \/ UNCHANGED vars \/ \E r \in DOMAIN server_users : TimePasses(r)
    <2>1. UNCHANGED <<new_messages, net, cb, bg>>
      BY <1>8 DEF Launch, vars, TimePasses
    <2> QED BY <1>0, <2>1, OrderKept DEF Broadcasting
  <1> QED BY <1>1, <1>2, <1>3, <1>4, <1>5, <1>6, <1>7, <1>8, <1>9
          DEF Next, GuiStep, CallbackStep

-----------------------------------------------------------------------------
(* The feed. *)

\* Only the broadcast hands a packet to SwiftNet.
LEMMA NetGrows ==
  ASSUME [Next]_vars
  PROVE  UNCHANGED net \/ \E r \in bg.todo : BgSend(r)
  <1>1. ASSUME StartCreate \/ StopBegin \/ GuiStep PROVE UNCHANGED net
    BY <1>1 DEF StartCreate, StopBegin, GuiStep, StartAssign, StartSelect, StartPush,
                StartFlag, StartThread, StopCleanup, StopForget, StopClear, StopFlag, StopJoin
  <1>2. ASSUME CallbackStep PROVE UNCHANGED net
    BY <1>2 DEF CallbackStep, LoadChannelActive, LoadChannelReply, SendMessageInsert,
                SendMessageNoUsername, SendMessagePush, SendMessageFailed, SendMessageOnline,
                MovedUserAbort, MovedUserWrite, JoinServerAbort, CbNullServer
  <1>3. ASSUME BackgroundStep PROVE UNCHANGED net \/ \E r \in bg.todo : BgSend(r)
    BY <1>3 DEF BackgroundStep, BgLoop, BgClear, BgNullServer, BgUser, BgStaleUser,
                BgAnswer, BgTimeout, BgWipe
  <1>4. ASSUME NEW e \in Endpoints, PacketCallback(e) PROVE UNCHANGED net
    BY <1>4 DEF PacketCallback, LoadChannelBegin, SendMessageBegin, JoinServerInsert,
                CreateNewChannel
  <1>5. ASSUME Crash \/ Launch \/ UNCHANGED vars PROVE UNCHANGED net
    BY <1>5 DEF Crash, Launch, vars
  <1>6. ASSUME NEW r \in DOMAIN server_users, TimePasses(r) PROVE UNCHANGED net
    BY <1>6 DEF TimePasses
  <1> QED BY <1>1, <1>2, <1>3, <1>4, <1>5, <1>6 DEF Next

\* What a step may add to the packets: one, for a loaded user with an address.
LEMMA NetStep ==
  ASSUME TypeOK, [Next]_vars
  PROVE  \/ UNCHANGED net
         \/ \E r \in bg.todo :
              /\ BgSend(r)
              /\ r \in DOMAIN server_users
              /\ server_users[r].addr_data # NoAddr
              /\ UNCHANGED <<users, messages, server_users, new_messages, cb>>
              /\ DOMAIN net' = 1..(Len(net) + 1) /\ DOMAIN net = 1..Len(net)
              /\ Len(net) \in Nat
              /\ \A k \in DOMAIN net : net'[k] = net[k]
              /\ net'[Len(net) + 1].to = server_users[r].addr_data
              /\ net'[Len(net) + 1].rows = ActiveRows(r)
  <1>1. ASSUME NEW r \in bg.todo, BgSend(r)
        PROVE  \/ UNCHANGED net
               \/ /\ r \in DOMAIN server_users
                  /\ server_users[r].addr_data # NoAddr
                  /\ UNCHANGED <<users, messages, server_users, new_messages, cb>>
                  /\ DOMAIN net' = 1..(Len(net) + 1) /\ DOMAIN net = 1..Len(net)
                  /\ Len(net) \in Nat
                  /\ \A k \in DOMAIN net : net'[k] = net[k]
                  /\ net'[Len(net) + 1].to = server_users[r].addr_data
                  /\ net'[Len(net) + 1].rows = ActiveRows(r)
    BY <1>1, SendEffect
  <1> QED BY <1>1, NetGrows

\* A new packet is newer than all its host was sent, and in order itself.
LEMMA FeedStep ==
  ASSUME TypeOK, UsersMatchTable, QueueInOrder, SentBeforeQueued, FeedInOrder, [Next]_vars
  PROVE  FeedInOrder'
  <1>1. CASE UNCHANGED net
    BY <1>1 DEF FeedInOrder
  <1>2. ASSUME NEW r \in bg.todo, BgSend(r),
               r \in DOMAIN server_users, server_users[r].addr_data # NoAddr,
               DOMAIN net' = 1..(Len(net) + 1), DOMAIN net = 1..Len(net),
               Len(net) \in Nat,
               \A k \in DOMAIN net : net'[k] = net[k],
               net'[Len(net) + 1].to = server_users[r].addr_data,
               net'[Len(net) + 1].rows = ActiveRows(r)
        PROVE  FeedInOrder'
    <2>1. IpOf(server_users[r].addr_data) = server_users[r].data.ip_address
      BY <1>2 DEF UsersMatchTable
    <2>2. \A i \in DOMAIN ActiveRows(r) :
            \A k \in DOMAIN net : IpOf(net[k].to) = server_users[r].data.ip_address =>
              \A j \in DOMAIN net[k].rows : net[k].rows[j].id < ActiveRows(r)[i].id
      BY <1>2, SendInOrder
    <2>3. \A i, j \in DOMAIN ActiveRows(r) : i < j => ActiveRows(r)[i].id < ActiveRows(r)[j].id
      <3>1. \A i \in DOMAIN ActiveRows(r) :
              i \in DOMAIN new_messages /\ ActiveRows(r)[i] = new_messages[i]
        BY <1>2, SendInOrder
      <3> QED BY <3>1 DEF QueueInOrder
    <2>4. ASSUME NEW k \in DOMAIN net', NEW l \in DOMAIN net', k < l,
                 IpOf(net'[k].to) = IpOf(net'[l].to),
                 NEW i \in DOMAIN net'[k].rows, NEW j \in DOMAIN net'[l].rows
          PROVE  net'[k].rows[i].id < net'[l].rows[j].id
      <3>1. k \in DOMAIN net /\ net'[k] = net[k]
        BY <1>2, <2>4
      <3>2. CASE l \in DOMAIN net
        BY <1>2, <2>4, <3>1, <3>2 DEF FeedInOrder
      <3>3. CASE l = Len(net) + 1
        BY <1>2, <2>1, <2>2, <2>4, <3>1, <3>3
      <3> QED BY <1>2, <2>4, <3>2, <3>3
    <2>5. ASSUME NEW k \in DOMAIN net', NEW i \in DOMAIN net'[k].rows,
                 NEW j \in DOMAIN net'[k].rows, i < j
          PROVE  net'[k].rows[i].id < net'[k].rows[j].id
      <3>1. CASE k \in DOMAIN net
        BY <1>2, <2>5, <3>1 DEF FeedInOrder
      <3>2. CASE k = Len(net) + 1
        BY <1>2, <2>3, <2>5, <3>2
      <3> QED BY <1>2, <2>5, <3>1, <3>2
    <2> QED BY <2>4, <2>5 DEF FeedInOrder
  <1> QED BY <1>1, <1>2, NetStep

\* The state of the table, the queue and the broadcast, in every reachable state.
LEMMA UsersAndOrder ==
  Spec => [](UsersMatchTable /\ Loading /\ QueueInOrder /\ SentBeforeQueued /\ FeedInOrder)
  <1> DEFINE Inv == /\ UsersMatchTable /\ Loading
                    /\ QueueInOrder /\ SentBeforeQueued /\ FeedInOrder
  <1>1. Init => Inv
    BY UsersMatchInit, LoadingInit, OrderInit
  <1>2. TypeOK /\ Lifecycle /\ Inv /\ [Next]_vars => Inv'
    BY UsersMatchStep, LoadingStep, OrderStep, FeedStep
  <1> QED BY <1>1, <1>2, TypeAndLifecycle, PTL DEF Spec

\* For any number of users, messages, channels and ports, and across every stop,
\* crash and restart: no host gets a live message twice or after a newer one.
THEOREM FeedIsInOrder == Spec => []FeedInOrder
  BY UsersAndOrder, PTL

\* Each packet is for a member of this server, with messages of one channel.
LEMMA RecipientsStep ==
  ASSUME TypeOK, UsersMatchTable, Loading, FeedToMembers, [Next]_vars
  PROVE  FeedToMembers'
  <1>1. /\ DOMAIN users \subseteq DOMAIN users'
        /\ \A r \in DOMAIN users : users'[r] = users[r]
    BY UsersTableGrows DEF UsersMatchTable
  <1>2. MemberRows(users, ServerId) \subseteq MemberRows(users', ServerId)
    BY <1>1 DEF MemberRows
  <1>3. \A r \in MemberRows(users, ServerId) : users'[r].ip_address = users[r].ip_address
    BY <1>1 DEF MemberRows
  <1>4. \A r \in DOMAIN server_users' :
          server_users'[r].addr_data # NoAddr =>
            IpOf(server_users'[r].addr_data) = server_users'[r].data.ip_address
    BY UsersMatchStep DEF UsersMatchTable
  <1> DEFINE ToMember(p) ==
        \E r \in MemberRows(users', ServerId) : users'[r].ip_address = IpOf(p.to)
      OneChannel(p) ==
        \A i, j \in DOMAIN p.rows : p.rows[i].channel_id = p.rows[j].channel_id
  <1>5. \A k \in DOMAIN net : ToMember(net[k]) /\ OneChannel(net[k])
    BY <1>2, <1>3 DEF FeedToMembers
  <1>6. CASE UNCHANGED net
    BY <1>4, <1>5, <1>6 DEF FeedToMembers
  <1>7. ASSUME NEW r \in DOMAIN server_users, server_users[r].addr_data # NoAddr,
               DOMAIN net' = 1..(Len(net) + 1), DOMAIN net = 1..Len(net),
               Len(net) \in Nat,
               \A k \in DOMAIN net : net'[k] = net[k],
               net'[Len(net) + 1].to = server_users[r].addr_data,
               net'[Len(net) + 1].rows = ActiveRows(r)
        PROVE  FeedToMembers'
    <2>1. ToMember(net'[Len(net) + 1])
      BY <1>2, <1>3, <1>7 DEF UsersMatchTable
    <2>2. OneChannel(net'[Len(net) + 1])
      <3>1. \A i, j \in DOMAIN ActiveRows(r) :
              ActiveRows(r)[i].channel_id = ActiveRows(r)[j].channel_id
        BY ActiveRowsOfBatch
      <3> QED BY <1>7, <3>1
    <2>3. \A k \in DOMAIN net' : k \in DOMAIN net \/ k = Len(net) + 1
      BY <1>7
    <2>4. \A k \in DOMAIN net' : ToMember(net'[k]) /\ OneChannel(net'[k])
      BY <1>5, <1>7, <2>1, <2>2, <2>3
    <2> QED BY <1>4, <2>4 DEF FeedToMembers
  <1> QED BY <1>6, <1>7, NetStep

\* For every instance: live updates reach members only, each at an address of
\* the member's own host, and one update is about one channel.
THEOREM FeedIsForMembers == Spec => []FeedToMembers
  <1>1. Init => FeedToMembers
    BY DEF Init, FeedToMembers, NoUsers
  <1>2. TypeOK /\ UsersMatchTable /\ Loading /\ FeedToMembers /\ [Next]_vars
          => FeedToMembers'
    BY RecipientsStep
  <1> QED BY <1>1, <1>2, TypeAndLifecycle, UsersAndOrder, PTL DEF Spec

-----------------------------------------------------------------------------
(* Updates go to online users only. *)

\* The user that the broadcast asks or sends to was online when it looked (88), and no
\* other thread takes it offline.
ServedIsOnline ==
  bg.pc \in {"check", "send"} =>
    \A r \in DOMAIN server_users : AtUser(r) => server_users[r].status = "ONLINE"

\* Handlers only take users online, a stop takes them away, and the broadcast takes
\* offline only the user whose turn it ends.
LEMMA OnlineStep ==
  ASSUME TypeOK, Lifecycle, ServedIsOnline, [Next]_vars
  PROVE  ServedIsOnline'
  <1>0. /\ server_users \in [DOMAIN server_users -> UserRecord]
        /\ bg.todo \subseteq Nat
    BY DEF TypeOK, UsersOK, ThreadOK
  <1>1. ASSUME UNCHANGED bg,
               \A r \in DOMAIN server_users' :
                 /\ r \in DOMAIN server_users
                 /\ server_users'[r].status \in {server_users[r].status, "ONLINE"}
        PROVE  ServedIsOnline'
    BY <1>1 DEF ServedIsOnline, AtUser
  <1>2. ASSUME bg'.pc \notin {"check", "send"} PROVE ServedIsOnline'
    BY <1>2 DEF ServedIsOnline
  <1>3. CASE UNCHANGED <<server_users, bg>>
    BY <1>1, <1>3
  <1>4. CASE StartPush
    BY <1>2, <1>4 DEF StartPush, Lifecycle, Starting, NoThread
  <1>5. CASE StopClear
    BY <1>1, <1>5 DEF StopClear, NoUsers
  <1>6. CASE HostDown
    BY <1>2, <1>6 DEF HostDown, ResetProcess, NoThread
  <1>7. ASSUME NEW r \in DOMAIN server_users, MarkUserOnline(r), UNCHANGED bg
        PROVE  ServedIsOnline'
    BY <1>0, <1>1, <1>7 DEF MarkUserOnline, UserRecord
  <1>8. CASE SendMessageOnline
    BY <1>7, <1>8 DEF SendMessageOnline, TypeOK, CallbackOK
  <1>9. CASE LoadChannelActive
    BY <1>0, <1>1, <1>9 DEF LoadChannelActive, UserRecord
  <1>10. ASSUME NEW e \in Endpoints, NEW c \in Channels, LoadChannelBegin(e, c)
         PROVE  ServedIsOnline'
    <2>1. PICK r \in DOMAIN server_users :
            \/ server_users' = [server_users EXCEPT ![r].active_channel_id = c]
            \/ server_users' = [server_users EXCEPT ![r] =
                 [@ EXCEPT !.addr_data = e, !.status = "ONLINE", !.fresh = TRUE]]
      BY <1>10 DEF LoadChannelBegin, GetUserByAddrData
    <2>2. UNCHANGED bg
      BY <1>10 DEF LoadChannelBegin
    <2>3. CASE server_users' = [server_users EXCEPT ![r].active_channel_id = c]
      BY <1>0, <1>1, <2>2, <2>3 DEF UserRecord
    <2>4. CASE server_users' = [server_users EXCEPT ![r] =
                 [@ EXCEPT !.addr_data = e, !.status = "ONLINE", !.fresh = TRUE]]
      BY <1>0, <1>1, <2>2, <2>4 DEF UserRecord
    <2>5. QED BY <2>1, <2>3, <2>4
  <1>11. ASSUME NEW r \in DOMAIN server_users, TimePasses(r) PROVE ServedIsOnline'
    BY <1>0, <1>1, <1>11 DEF TimePasses, UserRecord
  <1>12. CASE BgLoop \/ BgClear
    <2>1. bg'.pc \in {"exited", "users", "loop"}
      BY <1>12 DEF BgLoop, BgClear, NoThread, TypeOK, ThreadOK
    <2>2. QED BY <1>2, <2>1
  <1>13. ASSUME NEW r \in bg.todo, BgStaleUser(r) \/ BgWipe(r) \/ BgSend(r) \/ BgTimeout(r)
         PROVE  ServedIsOnline'
    <2>1. bg'.pc \in {"users", "wipe"}
      BY <1>13 DEF BgStaleUser, BgWipe, BgSend, BgTimeout, Continue, TypeOK, ThreadOK
    <2>2. QED BY <1>2, <2>1
  <1>14. ASSUME NEW r \in bg.todo, BgUser(r) \/ BgAnswer(r)
         PROVE  ServedIsOnline'
    <2>1. AtUser(r) /\ r \in DOMAIN server_users /\ DOMAIN server_users' = DOMAIN server_users
      BY <1>14 DEF BgUser, BgAnswer, MarkUserOnline
    <2>2. bg'.pc \notin {"check", "send"} \/ (bg'.todo = bg.todo /\ server_users'[r].status = "ONLINE")
      <3>1. CASE BgUser(r)
        <4>1. server_users[r].status \in {"OFFLINE", "ONLINE"}
          BY <1>0, <2>1 DEF UserRecord
        <4>2. CASE server_users[r].status = "OFFLINE"
          BY <3>1, <4>2 DEF BgUser, Continue, TypeOK, ThreadOK
        <4>3. CASE server_users[r].status = "ONLINE"
          <5>1. bg' = [bg EXCEPT !.pc = IF server_users[r].fresh THEN "send" ELSE "check"]
                /\ UNCHANGED server_users
            BY <3>1, <4>3 DEF BgUser
          <5>2. bg'.todo = bg.todo
            BY <5>1 DEF TypeOK, ThreadOK
          <5> QED BY <4>3, <5>1, <5>2
        <4>4. QED BY <4>1, <4>2, <4>3
      <3>2. CASE BgAnswer(r)
        <4>1. bg' = [bg EXCEPT !.pc = "send"] /\ MarkUserOnline(r)
          BY <3>2 DEF BgAnswer
        <4>2. bg'.todo = bg.todo
          BY <4>1 DEF TypeOK, ThreadOK
        <4>3. server_users'[r].status = "ONLINE"
          BY <1>0, <2>1, <4>1 DEF MarkUserOnline, UserRecord
        <4> QED BY <4>2, <4>3
      <3>3. QED BY <1>14, <3>1, <3>2
    <2>3. ASSUME bg'.todo = bg.todo, NEW s \in DOMAIN server_users, AtUser(s)' PROVE s = r
      <3>1. r \in Nat /\ s \in Nat /\ r <= s /\ s <= r
        BY <1>0, <1>14, <2>1, <2>3 DEF AtUser
      <3>2. QED BY <3>1
    <2>4. QED BY <2>1, <2>2, <2>3 DEF ServedIsOnline
  <1>15. CASE StartCreate \/ StopBegin \/ GuiStep
    <2>1. \/ StartPush \/ StopClear \/ StartThread \/ StopJoin
          \/ UNCHANGED <<server_users, bg>>
      BY <1>15 DEF StartCreate, StopBegin, GuiStep, StartAssign, StartSelect, StartFlag,
                   StopCleanup, StopForget, StopFlag
    <2>2. CASE StartThread \/ StopJoin
      BY <1>2, <2>2 DEF StartThread, StopJoin, NoThread
    <2>3. QED BY <1>3, <1>4, <1>5, <2>1, <2>2
  <1>16. CASE CallbackStep
    <2>1. \/ HostDown \/ SendMessageOnline \/ LoadChannelActive
          \/ UNCHANGED <<server_users, bg>>
      BY <1>16 DEF CallbackStep, LoadChannelReply, SendMessageInsert, SendMessageNoUsername,
                   SendMessagePush, SendMessageFailed, MovedUserAbort, MovedUserWrite,
                   JoinServerAbort, CbNullServer
    <2>2. QED BY <1>3, <1>6, <1>8, <1>9, <2>1
  <1>17. CASE BackgroundStep
    BY <1>6, <1>12, <1>13, <1>14, <1>17 DEF BackgroundStep, BgNullServer
  <1>18. ASSUME NEW e \in Endpoints, PacketCallback(e) PROVE ServedIsOnline'
    BY <1>3, <1>10, <1>18 DEF PacketCallback, SendMessageBegin, JoinServerInsert,
                              CreateNewChannel
  <1>19. CASE Crash \/ Launch \/ UNCHANGED vars
    BY <1>3, <1>6, <1>19 DEF Crash, Launch, vars
  <1> QED BY <1>11, <1>15, <1>16, <1>17, <1>18, <1>19 DEF Next

\* For every instance: a packet goes to a user that is online when it leaves, although
\* the handlers, the clock and StopServer change the users during the broadcast.
THEOREM OnlineUsersAreSent == Spec => UpdatesOnlyOnline
  <1>1. Init => ServedIsOnline
    BY DEF Init, ServedIsOnline, NoThread
  <1>2. TypeOK /\ Lifecycle /\ ServedIsOnline /\ [Next]_vars => ServedIsOnline'
    BY OnlineStep
  <1> DEFINE ToOnline ==
        Len(net') > Len(net) =>
          \E r \in DOMAIN server_users :
            /\ server_users[r].status = "ONLINE"
            /\ server_users[r].addr_data = net'[Len(net')].to
  <1>3. ASSUME TypeOK, TypeOK', ServedIsOnline, [Next]_vars PROVE ToOnline
    <2>1. CASE UNCHANGED net
      <3>1. Len(net) \in Nat
        BY <1>3 DEF TypeOK, NetOK, IsSequence
      <3> QED BY <2>1, <3>1
    <2>2. CASE ~UNCHANGED net
      <3>1. PICK r \in bg.todo :
              /\ BgSend(r) /\ r \in DOMAIN server_users
              /\ DOMAIN net' = 1..(Len(net) + 1) /\ Len(net) \in Nat
              /\ net'[Len(net) + 1].to = server_users[r].addr_data
        BY <1>3, <2>2, NetStep
      <3>2. Len(net') = Len(net) + 1
        <4>1. Len(net') \in Nat /\ DOMAIN net' = 1..Len(net')
          BY <1>3 DEF TypeOK, NetOK, IsSequence
        <4> QED BY <3>1, <4>1
      <3>3. server_users[r].status = "ONLINE"
        BY <1>3, <3>1 DEF BgSend, ServedIsOnline
      <3> QED BY <3>1, <3>2, <3>3
    <2> QED BY <2>1, <2>2
  <1>4. TypeOK /\ TypeOK' /\ ServedIsOnline /\ [Next]_vars => [ToOnline]_vars
    BY <1>3
  <1> HIDE DEF ToOnline
  <1>5. Spec => [][ToOnline]_vars
    BY <1>1, <1>2, <1>4, TypeAndLifecycle, PTL DEF Spec
  <1> QED BY <1>5 DEF UpdatesOnlyOnline, ToOnline

-----------------------------------------------------------------------------
(* What is shown live is what is stored. *)

\* A stored row stays stored.
LEMMA StoredKept ==
  ASSUME TypeOK, UniqueAddresses, [Next]_vars, NEW row, Stored(row)
  PROVE  Stored(row)'
  <1>1. /\ DOMAIN users \subseteq DOMAIN users'
        /\ DOMAIN messages \subseteq DOMAIN messages'
        /\ \A m \in DOMAIN messages : messages'[m] = messages[m]
    BY UsersTableGrows, MessagesGrow
  <1> QED BY <1>1 DEF Stored, SelectChannelMessages

\* Where the handler is after a step: where it was, possibly with its pointer left
\* behind by a push_back, or one step further.
LEMMA HandlerStep ==
  ASSUME TypeOK, [Next]_vars
  PROVE  \/ /\ cb'.pc = cb.pc /\ cb'.from = cb.from /\ cb'.channel_id = cb.channel_id
            /\ cb'.user = cb.user /\ cb'.id = cb.id
            /\ UNCHANGED cb \/ StartPush
         \/ /\ cb'.pc \in {"idle", "reply", "online", "join"}
            /\ cb'.moved => cb'.pc = "online"
            /\ cb'.pc = "reply" =>
                 cb.pc = "active" /\ cb'.from = cb.from /\ cb'.channel_id = cb.channel_id
         \/ SendMessageInsert /\ cb'.pc = "push"
         \/ \E e \in Endpoints, c \in Channels :
              \/ LoadChannelBegin(e, c) /\ cb'.pc \in {"active", "reply"} /\ ~cb'.moved
              \/ SendMessageBegin(e, c) /\ cb'.pc = "insert" /\ ~cb'.moved
  <1> DEFINE Same == /\ cb'.pc = cb.pc /\ cb'.from = cb.from /\ cb'.channel_id = cb.channel_id
                     /\ cb'.user = cb.user /\ cb'.id = cb.id
                     /\ UNCHANGED cb \/ StartPush
             Later == /\ cb'.pc \in {"idle", "reply", "online", "join"}
                      /\ cb'.moved => cb'.pc = "online"
                      /\ cb'.pc = "reply" =>
                           /\ cb.pc = "active"
                           /\ cb'.from = cb.from /\ cb'.channel_id = cb.channel_id
             Begun == \E e \in Endpoints, c \in Channels :
                        \/ LoadChannelBegin(e, c) /\ cb'.pc \in {"active", "reply"} /\ ~cb'.moved
                        \/ SendMessageBegin(e, c) /\ cb'.pc = "insert" /\ ~cb'.moved
  <1>0. UNCHANGED cb => Same
    OBVIOUS
  <1>1. ASSUME StartCreate \/ StopBegin \/ GuiStep PROVE Same
    <2>1. CASE StartPush
      BY <2>1, StartPushCallback
    <2>2. CASE ~StartPush
      <3>1. UNCHANGED cb
        BY <1>1, <2>2 DEF StartCreate, StopBegin, GuiStep, StartAssign, StartSelect, StartFlag,
                          StartThread, StopCleanup, StopForget, StopClear, StopFlag, StopJoin
      <3> QED BY <3>1
    <2> QED BY <2>1, <2>2
  <1>2. ASSUME cb' = IdleCallback PROVE Later
    BY <1>2 DEF IdleCallback
  <1>3. ASSUME CallbackStep, ~SendMessageInsert PROVE Later
    <2>0. cb \in CallbackRecord
      BY DEF TypeOK, CallbackOK
    <2>1. CASE LoadChannelActive
      BY <2>0, <2>1 DEF LoadChannelActive, CallbackRecord
    <2>2. CASE SendMessagePush
      BY <2>0, <2>2 DEF SendMessagePush, CallbackRecord
    <2>3. CASE SendMessageFailed
      BY <2>0, <2>3 DEF SendMessageFailed, CallbackRecord
    <2>4. CASE MovedUserWrite
      <3>1. CASE cb.pc = "active"
        <4>1. cb' = [cb EXCEPT !.pc = "reply", !.user = 0, !.moved = FALSE]
          BY <2>4, <3>1 DEF MovedUserWrite
        <4> QED BY <2>0, <3>1, <4>1 DEF CallbackRecord
      <3>2. CASE cb.pc # "active"
        BY <1>2, <2>4, <3>2 DEF MovedUserWrite
      <3> QED BY <3>1, <3>2
    <2>5. CASE LoadChannelReply \/ SendMessageOnline
      BY <1>2, <2>5 DEF LoadChannelReply, SendMessageOnline
    <2>6. CASE SendMessageNoUsername \/ MovedUserAbort \/ JoinServerAbort \/ CbNullServer
      BY <1>2, <2>6 DEF SendMessageNoUsername, MovedUserAbort, JoinServerAbort, CbNullServer,
                        HostDown, ResetProcess
    <2> QED BY <1>3, <2>1, <2>2, <2>3, <2>4, <2>5, <2>6 DEF CallbackStep
  <1>4. ASSUME SendMessageInsert PROVE cb'.pc = "push"
    BY <1>4 DEF SendMessageInsert, TypeOK, CallbackOK, CallbackRecord
  <1>5. ASSUME BackgroundStep PROVE UNCHANGED cb \/ cb' = IdleCallback
    <2>1. CASE BgNullServer
      BY <2>1 DEF BgNullServer, HostDown, ResetProcess
    <2>2. CASE BgLoop \/ BgClear
      BY <2>2 DEF BgLoop, BgClear
    <2>3. ASSUME NEW r \in bg.todo,
                 \/ BgUser(r) \/ BgStaleUser(r) \/ BgAnswer(r) \/ BgTimeout(r)
                 \/ BgWipe(r) \/ BgSend(r)
          PROVE  UNCHANGED cb
      BY <2>3 DEF BgUser, BgStaleUser, BgAnswer, BgTimeout, BgWipe, BgSend
    <2> QED BY <1>5, <2>1, <2>2, <2>3 DEF BackgroundStep
  <1>6. ASSUME NEW e \in Endpoints, PacketCallback(e) PROVE Same \/ Later \/ Begun
    <2>1. ASSUME NEW c \in Channels, LoadChannelBegin(e, c) PROVE Begun
      BY <2>1 DEF LoadChannelBegin, IdleCallback
    <2>2. ASSUME NEW c \in Channels, SendMessageBegin(e, c) PROVE Begun
      BY <2>2 DEF SendMessageBegin, IdleCallback
    <2>3. CASE JoinServerInsert(e)
      BY <2>3 DEF JoinServerInsert, IdleCallback
    <2>4. CASE CreateNewChannel
      BY <1>0, <2>4 DEF CreateNewChannel
    <2> HIDE DEF Same, Later, Begun
    <2> QED BY <1>6, <2>1, <2>2, <2>3, <2>4 DEF PacketCallback
  <1>7. ASSUME Crash PROVE cb' = IdleCallback
    BY <1>7 DEF Crash, HostDown, ResetProcess
  <1>8. ASSUME Launch \/ UNCHANGED vars \/ \E r \in DOMAIN server_users : TimePasses(r)
        PROVE  UNCHANGED cb
    BY <1>8 DEF Launch, vars, TimePasses
  <1> HIDE DEF Same, Later, Begun
  <1>9. Same \/ Later \/ (SendMessageInsert /\ cb'.pc = "push") \/ Begun
    BY <1>0, <1>1, <1>2, <1>3, <1>4, <1>5, <1>6, <1>7, <1>8 DEF Next
  <1> QED BY <1>9 DEF Same, Later, Begun

\* The insert stores the row before the handler queues it.
LEMMA PushStoredStep ==
  ASSUME TypeOK, UniqueAddresses, PushStored, [Next]_vars
  PROVE  PushStored'
  <1>1. CASE SendMessageInsert
    <2> DEFINE row == [message |-> cb.from, channel_id |-> cb.channel_id,
                       sender_id |-> server_users[cb.user].data.id]
    <2>1. row \in MessageRow
      BY <1>1, NewRowType DEF SendMessageInsert, MessageRow
    <2>2. messages \in Seq(MessageRow) /\ messages' = Append(messages, row)
      BY <1>1 DEF SendMessageInsert, InsertChannelMessage, TypeOK, TablesOK
    <2>3. messages'[Len(messages) + 1] = row /\ Len(messages) + 1 \in DOMAIN messages'
      <3> HIDE DEF row
      <3> QED BY <2>1, <2>2
    <2>4. /\ cb' = [cb EXCEPT !.pc = "push", !.id = Len(messages) + 1]
          /\ UNCHANGED users
          /\ row.sender_id \in DOMAIN users
      BY <1>1 DEF SendMessageInsert
    <2>5. /\ cb'.id = Len(messages) + 1 /\ cb'.from = cb.from
          /\ cb'.channel_id = cb.channel_id
      BY <2>4 DEF TypeOK, CallbackOK, CallbackRecord
    <2>6. NewMessage' = [id |-> Len(messages) + 1, message |-> row.message,
                         channel_id |-> row.channel_id, sender_id |-> row.sender_id]
      BY <2>3, <2>5 DEF NewMessage
    <2> QED BY <2>3, <2>4, <2>6 DEF PushStored, Stored, SelectChannelMessages
  <1>2. ASSUME ~SendMessageInsert, cb'.pc = "push" PROVE Stored(NewMessage)'
    <2>1. /\ cb.pc = "push" /\ cb'.id = cb.id
          /\ cb'.from = cb.from /\ cb'.channel_id = cb.channel_id
      BY <1>2, HandlerStep
    <2>2. cb.id \in DOMAIN messages
      BY <2>1 DEF TypeOK, CallbackOK
    <2>3. messages'[cb.id] = messages[cb.id]
      BY <2>2, MessagesGrow
    <2>4. NewMessage' = NewMessage
      BY <2>1, <2>3 DEF NewMessage
    <2>5. Stored(NewMessage)
      BY <2>1 DEF PushStored
    <2>6. PICK row : row = NewMessage
      OBVIOUS
    <2>7. Stored(row)'
      BY <2>5, <2>6, StoredKept
    <2> QED BY <2>4, <2>6, <2>7
  <1> QED BY <1>1, <1>2 DEF PushStored

\* The queue is kept, dropped or grows by the handler's row; the batch is kept,
\* dropped or taken from the queue.
LEMMA QueueStep ==
  ASSUME TypeOK, [Next]_vars
  PROVE  /\ new_messages' \in {new_messages, <<>>} \/ SendMessagePush
         /\ bg'.batch \in {bg.batch, new_messages, <<>>}
  <1> DEFINE Kept == /\ new_messages' \in {new_messages, <<>>} \/ SendMessagePush
                     /\ bg'.batch \in {bg.batch, new_messages, <<>>}
  <1>1. CASE StartCreate \/ StopBegin \/ GuiStep
    <2>1. UNCHANGED new_messages /\ (UNCHANGED bg \/ bg'.batch = <<>>)
      BY <1>1 DEF StartCreate, StopBegin, GuiStep, StartAssign, StartSelect, StartPush,
                StartFlag, StartThread, StopCleanup, StopForget, StopClear, StopFlag, StopJoin, NoThread
    <2> QED BY <2>1
  <1>2. CASE \/ LoadChannelActive \/ LoadChannelReply \/ SendMessageInsert
             \/ SendMessagePush \/ SendMessageFailed \/ SendMessageOnline \/ MovedUserWrite
    <2>1. UNCHANGED bg /\ (UNCHANGED new_messages \/ SendMessagePush)
      BY <1>2 DEF LoadChannelActive, LoadChannelReply, SendMessageInsert, SendMessagePush,
                  SendMessageFailed, SendMessageOnline, MovedUserWrite
    <2> QED BY <2>1
  <1>3. CASE \/ SendMessageNoUsername \/ MovedUserAbort \/ JoinServerAbort \/ CbNullServer
             \/ BgNullServer \/ Crash
    <2>1. new_messages' = <<>> /\ bg'.batch = <<>>
      BY <1>3 DEF SendMessageNoUsername, MovedUserAbort, JoinServerAbort, CbNullServer,
                  BgNullServer, Crash, HostDown, ResetProcess, NoThread
    <2> QED BY <2>1
  <1>4. CASE BgLoop
    <2>1. UNCHANGED new_messages /\ bg'.batch \in {bg.batch, new_messages}
      BY <1>4 DEF BgLoop, TypeOK, ThreadOK
    <2> QED BY <2>1
  <1>5. CASE BgClear
    BY <1>5 DEF BgClear, NoThread
  <1>6. ASSUME NEW r \in bg.todo,
               \/ BgUser(r) \/ BgStaleUser(r) \/ BgAnswer(r) \/ BgTimeout(r)
               \/ BgWipe(r) \/ BgSend(r)
        PROVE  Kept
    <2>1. UNCHANGED new_messages /\ bg'.batch = bg.batch
      BY <1>6 DEF BgUser, BgStaleUser, BgAnswer, BgTimeout, BgWipe, BgSend, Continue,
                  TypeOK, ThreadOK
    <2> QED BY <2>1
  <1>7. ASSUME NEW e \in Endpoints, PacketCallback(e) PROVE Kept
    <2>1. UNCHANGED <<new_messages, bg>>
      BY <1>7 DEF PacketCallback, LoadChannelBegin, SendMessageBegin, JoinServerInsert,
                  CreateNewChannel
    <2> QED BY <2>1
  <1>8. CASE Launch \/ UNCHANGED vars \/ \E r \in DOMAIN server_users : TimePasses(r)
    BY <1>8 DEF Launch, vars, TimePasses
  <1> QED BY <1>1, <1>2, <1>3, <1>4, <1>5, <1>6, <1>7, <1>8
          DEF Next, CallbackStep, BackgroundStep

\* Every row of the queue, of the batch and of a packet stays stored, and only
\* stored rows are added.
LEMMA PersistedStep ==
  ASSUME TypeOK, UniqueAddresses, PushStored, FeedPersisted, [Next]_vars
  PROVE  FeedPersisted'
  <1>1. ASSUME NEW row, Stored(row) PROVE Stored(row)'
    BY <1>1, StoredKept
  <1>2. \A i \in DOMAIN new_messages' : Stored(new_messages[i])'
    <2>1. CASE UNCHANGED new_messages
      BY <1>1, <2>1 DEF FeedPersisted, Stored
    <2>2. CASE new_messages' = <<>>
      BY <2>2
    <2>3. CASE SendMessagePush
      <3>1. new_messages' = Append(new_messages, NewMessage) /\ Stored(NewMessage)
        BY <2>3 DEF SendMessagePush, PushStored
      <3>2. new_messages \in Seq(QueueRow) /\ NewMessage \in QueueRow
        BY <2>3, QueuedRowType DEF SendMessagePush, TypeOK
      <3>3. \A i \in DOMAIN new_messages' :
              \/ new_messages'[i] = NewMessage
              \/ i \in DOMAIN new_messages /\ new_messages'[i] = new_messages[i]
        BY <3>1, <3>2
      <3>4. ASSUME NEW i \in DOMAIN new_messages' PROVE Stored(new_messages[i])'
        <4>1. PICK row : row = new_messages'[i]
          OBVIOUS
        <4>2. row = NewMessage \/ (i \in DOMAIN new_messages /\ row = new_messages[i])
          BY <3>3, <4>1
        <4>3. Stored(row)
          BY <3>1, <4>2 DEF FeedPersisted
        <4>4. Stored(row)'
          BY <1>1, <4>3
        <4> QED BY <4>1, <4>4 DEF Stored
      <3> QED BY <3>4
    <2> QED BY <2>1, <2>2, <2>3, QueueStep
  <1>3. \A i \in DOMAIN bg'.batch : Stored(bg.batch[i])'
    <2>1. CASE bg'.batch = bg.batch
      BY <1>1, <2>1 DEF FeedPersisted, Stored
    <2>2. CASE bg'.batch = new_messages
      BY <1>1, <2>2 DEF FeedPersisted, Stored
    <2>3. CASE bg'.batch = <<>>
      BY <2>3
    <2> QED BY <2>1, <2>2, <2>3, QueueStep
  <1>4. \A k \in DOMAIN net' : \A i \in DOMAIN net'[k].rows : Stored(net[k].rows[i])'
    <2>1. CASE UNCHANGED net
      BY <1>1, <2>1 DEF FeedPersisted, Stored
    <2>2. ASSUME NEW r \in bg.todo,
                 DOMAIN net' = 1..(Len(net) + 1), DOMAIN net = 1..Len(net),
                 Len(net) \in Nat,
                 \A k \in DOMAIN net : net'[k] = net[k],
                 net'[Len(net) + 1].rows = ActiveRows(r),
                 NEW k \in DOMAIN net', NEW i \in DOMAIN net'[k].rows
          PROVE  Stored(net[k].rows[i])'
      <3>1. CASE k \in DOMAIN net
        <4>1. PICK row : row = net[k].rows[i]
          OBVIOUS
        <4>2. Stored(row) /\ net'[k].rows[i] = row
          BY <2>2, <3>1, <4>1 DEF FeedPersisted
        <4>3. Stored(row)'
          BY <1>1, <4>2
        <4> QED BY <4>2, <4>3 DEF Stored
      <3>2. CASE k = Len(net) + 1
        <4>1. i \in DOMAIN bg.batch /\ net'[k].rows[i] = bg.batch[i]
          BY <2>2, <3>2, ActiveRowsOfBatch
        <4> QED BY <1>1, <4>1 DEF FeedPersisted, Stored
      <3> QED BY <2>2, <3>1, <3>2
    <2> QED BY <2>1, <2>2, NetStep
  <1> QED BY <1>2, <1>3, <1>4 DEF FeedPersisted

\* In every reachable state the handler's row and all that is queued, taken or sent
\* are stored.
LEMMA HandedOnIsStored == Spec => [](PushStored /\ FeedPersisted)
  <1> DEFINE Inv == PushStored /\ FeedPersisted
  <1>1. Init => Inv
    BY DEF Init, PushStored, FeedPersisted, IdleCallback, NoThread
  <1>2. TypeOK /\ Lifecycle /\ UsersMatchTable /\ Inv /\ [Next]_vars => Inv'
    BY PushStoredStep, PersistedStep DEF UsersMatchTable
  <1> QED BY <1>1, <1>2, TypeAndLifecycle, UsersAndOrder, PTL DEF Spec

\* For every instance and any truncation of the ids: what a live update shows, or
\* the queue will show, is what a reload of the channel shows.
THEOREM FeedIsPersisted == Spec => []FeedPersisted
  BY HandedOnIsStored, PTL

-----------------------------------------------------------------------------
(* Pointers that StartServer's push_back leaves behind. *)

\* Only the handlers of LOAD_CHANNEL_DATA change the channel of a loaded user, and only
\* the background thread takes one offline.
LEMMA ChannelsStep ==
  ASSUME TypeOK, [Next]_vars, ~StartPush, ~LoadChannelActive,
         \A e \in Endpoints, c \in Channels : ~LoadChannelBegin(e, c),
         NEW q \in DOMAIN server_users, q \in DOMAIN server_users'
  PROVE  /\ server_users'[q].active_channel_id = server_users[q].active_channel_id
         /\ server_users'[q].status \in {server_users[q].status, "ONLINE"} \/ bg # NoThread
  <1> DEFINE Kept ==
        /\ server_users'[q].active_channel_id = server_users[q].active_channel_id
        /\ server_users'[q].status \in {server_users[q].status, "ONLINE"} \/ bg # NoThread
  <1>0. UNCHANGED server_users => Kept
    OBVIOUS
  <1>a. server_users' # NoUsers
    BY DEF NoUsers
  <1>b. ASSUME NEW r \in DOMAIN server_users, NEW u \in UserRecord,
               server_users' = [server_users EXCEPT ![r] = u],
               u.active_channel_id = server_users[r].active_channel_id,
               u.status \in {server_users[r].status, "ONLINE"} \/ bg # NoThread
        PROVE  Kept
    BY <1>b DEF TypeOK, UsersOK
  <1>c. ASSUME NEW r \in DOMAIN server_users, MarkUserOnline(r) PROVE Kept
    <2>1. server_users[r] \in UserRecord
      BY LoadedRecord
    <2> QED BY <1>b, <1>c, <2>1 DEF MarkUserOnline, UserRecord
  <1> SUFFICES Kept
    OBVIOUS
  <1> HIDE DEF Kept
  <1>1. CASE StartCreate \/ StopBegin \/ GuiStep
    BY <1>0, <1>a, <1>1 DEF StartCreate, StopBegin, GuiStep, StartAssign, StartSelect,
                            StartFlag, StartThread, StopCleanup, StopForget, StopClear,
                            StopFlag, StopJoin
  <1>2. CASE SendMessageOnline
    <2>1. cb.user \in DOMAIN server_users /\ server_users[cb.user] \in UserRecord
      BY <1>2, NewRowType DEF SendMessageOnline
    <2> QED BY <1>2, <1>b, <2>1 DEF SendMessageOnline, MarkUserOnline, UserRecord
  <1>3. CASE \/ LoadChannelReply \/ SendMessageInsert \/ SendMessagePush
             \/ SendMessageFailed \/ MovedUserWrite
             \/ SendMessageNoUsername \/ MovedUserAbort \/ JoinServerAbort \/ CbNullServer
    BY <1>0, <1>a, <1>3 DEF LoadChannelReply, SendMessageInsert, SendMessagePush,
                            SendMessageFailed, MovedUserWrite, SendMessageNoUsername,
                            MovedUserAbort, JoinServerAbort, CbNullServer, HostDown,
                            ResetProcess
  <1>4. CASE BackgroundStep
    <2>1. CASE BgLoop \/ BgClear \/ BgNullServer
      BY <1>0, <1>a, <2>1 DEF BgLoop, BgClear, BgNullServer, HostDown, ResetProcess
    <2>2. ASSUME NEW r \in bg.todo, BgUser(r) \/ BgStaleUser(r) \/ BgSend(r) PROVE Kept
      BY <1>0, <2>2 DEF BgUser, BgStaleUser, BgSend
    <2>3. ASSUME NEW r \in bg.todo, BgAnswer(r) PROVE Kept
      BY <1>c, <2>3 DEF BgAnswer
    <2>4. ASSUME NEW r \in bg.todo, BgTimeout(r) PROVE Kept
      <3>1. /\ r \in DOMAIN server_users /\ server_users[r] \in UserRecord /\ bg # NoThread
            /\ server_users' = [server_users EXCEPT ![r].status = "OFFLINE"]
        BY <2>4, LoadedRecord DEF BgTimeout, NoThread
      <3> QED BY <3>1 DEF Kept, UserRecord
    <2>5. ASSUME NEW r \in bg.todo, BgWipe(r) PROVE Kept
      <3>1. /\ r \in DOMAIN server_users /\ server_users[r] \in UserRecord /\ bg # NoThread
            /\ server_users' = [server_users EXCEPT ![r].addr_data = NoAddr]
        BY <2>5, LoadedRecord DEF BgWipe, NoThread
      <3> QED BY <3>1 DEF Kept, UserRecord
    <2> QED BY <1>4, <2>1, <2>2, <2>3, <2>4, <2>5 DEF BackgroundStep
  <1>5. ASSUME NEW e \in Endpoints, PacketCallback(e) PROVE UNCHANGED server_users
    BY <1>5 DEF PacketCallback, SendMessageBegin, JoinServerInsert, CreateNewChannel
  <1>6. CASE Crash \/ Launch \/ UNCHANGED vars
    BY <1>0, <1>a, <1>6 DEF Crash, Launch, HostDown, ResetProcess, vars
  <1>7. ASSUME NEW r \in DOMAIN server_users, TimePasses(r) PROVE Kept
    <2>1. server_users[r] \in UserRecord
      BY LoadedRecord
    <2>2. server_users' = [server_users EXCEPT ![r].fresh = FALSE]
      BY <1>7 DEF TimePasses
    <2> QED BY <2>1, <2>2 DEF Kept, UserRecord
  <1> QED BY <1>0, <1>1, <1>2, <1>3, <1>4, <1>5, <1>6, <1>7 DEF Next, CallbackStep

\* One push_back in the middle of a handler.
LEMMA MovedByPush ==
  ASSUME TypeOK, Loading, MovedUser, StartPush
  PROVE  MovedUser'
  <1>1. PICK r \in DOMAIN loading :
          /\ r \in Nat
          /\ DOMAIN server_users' = DOMAIN server_users \cup {r}
          /\ server_users'[r] = LoadedUser(loading[r])
          /\ \A s \in DOMAIN server_users : s # r => server_users'[s] = server_users[s]
    BY StartPushEffect
  <1>2. \A s \in DOMAIN server_users : s < r /\ s \in Nat
    BY DEF Loading, TypeOK, UsersOK
  <1>3. \A s \in DOMAIN server_users : server_users'[s] = server_users[s]
    BY <1>1, <1>2
  <1>4. server_users'[r].active_channel_id = 0
    BY <1>1 DEF LoadedUser
  <1>5. gui = "push" /\ gui' = "push"
    BY DEF StartPush
  <1>6. cb'.pc = cb.pc /\ cb'.user = cb.user
        /\ (cb' = cb \/ cb.pc \in {"active", "insert", "push", "online"})
    BY StartPushCallback
  <1>7. cb.pc = "active" => cb.user \in DOMAIN server_users
    BY DEF TypeOK, CallbackOK
  <1> QED BY <1>1, <1>3, <1>4, <1>5, <1>6, <1>7 DEF MovedUser

\* The push_backs end before the handlers can set a channel through such a pointer.
LEMMA MovedUserStep ==
  ASSUME TypeOK, Lifecycle, Loading, MovedUser, [Next]_vars
  PROVE  MovedUser'
  <1>0. TypeOK'
    BY TypeStep
  <1>1. CASE StartPush
    BY <1>1, MovedByPush
  <1>2. ASSUME NEW e \in Endpoints, NEW c \in Channels, LoadChannelBegin(e, c)
        PROVE  MovedUser'
    <2>1. PICK r \in DOMAIN server_users :
            \/ /\ server_users' = [server_users EXCEPT ![r].active_channel_id = c]
               /\ server_users[r].status = "ONLINE" /\ cb'.pc = "reply" /\ ~cb'.moved
            \/ /\ server_users' = [server_users EXCEPT ![r] =
                     [@ EXCEPT !.addr_data = e, !.status = "ONLINE", !.fresh = TRUE]]
               /\ server_users[r].status = "OFFLINE"
               /\ cb'.pc = "active" /\ cb'.user = r /\ ~cb'.moved
      BY <1>2 DEF LoadChannelBegin, GetUserByAddrData, IdleCallback
    <2>2. UNCHANGED gui
      BY <1>2 DEF LoadChannelBegin, control
    <2>3. server_users[r] \in UserRecord
      BY LoadedRecord
    <2>4. /\ DOMAIN server_users' = DOMAIN server_users
          /\ server_users'[r].status = "ONLINE"
          /\ \A s \in DOMAIN server_users : s # r => server_users'[s] = server_users[s]
          /\ \/ cb'.pc = "reply"
             \/ /\ server_users'[r].active_channel_id = server_users[r].active_channel_id
                /\ server_users[r].status = "OFFLINE" /\ cb'.pc = "active" /\ cb'.user = r
      <3>1. CASE server_users' = [server_users EXCEPT ![r].active_channel_id = c]
                 /\ server_users[r].status = "ONLINE" /\ cb'.pc = "reply"
        BY <2>3, <3>1 DEF UserRecord
      <3>2. CASE /\ server_users' = [server_users EXCEPT ![r] =
                      [@ EXCEPT !.addr_data = e, !.status = "ONLINE", !.fresh = TRUE]]
                 /\ server_users[r].status = "OFFLINE"
                 /\ cb'.pc = "active" /\ cb'.user = r
        BY <2>3, <3>2 DEF UserRecord
      <3> QED BY <2>1, <3>1, <3>2
    <2>5. ~cb'.moved
      BY <2>1
    <2> QED BY <2>2, <2>4, <2>5 DEF MovedUser
  <1>3. CASE LoadChannelActive
    <2>1. /\ cb.user \in DOMAIN server_users /\ server_users[cb.user] \in UserRecord
          /\ server_users' = [server_users EXCEPT ![cb.user].active_channel_id = cb.channel_id]
          /\ UNCHANGED gui /\ ~cb.moved /\ cb.pc = "active"
      BY <1>3, LoadedRecord DEF LoadChannelActive, control, TypeOK, CallbackOK
    <2>2. cb'.pc = "reply" /\ ~cb'.moved
      BY <1>3 DEF LoadChannelActive, TypeOK, CallbackOK, CallbackRecord
    <2>3. /\ DOMAIN server_users' = DOMAIN server_users
          /\ \A s \in DOMAIN server_users : s # cb.user => server_users'[s] = server_users[s]
          /\ server_users'[cb.user].status = server_users[cb.user].status
      BY <2>1 DEF UserRecord
    <2> QED BY <2>1, <2>2, <2>3 DEF MovedUser
  <1>4. CASE /\ ~StartPush /\ ~LoadChannelActive
             /\ \A e \in Endpoints, c \in Channels : ~LoadChannelBegin(e, c)
    <2>1. ASSUME NEW r \in DOMAIN server_users, r \in DOMAIN server_users'
          PROVE  /\ server_users'[r].active_channel_id = server_users[r].active_channel_id
                 /\ server_users'[r].status \in {server_users[r].status, "ONLINE"}
                      \/ bg # NoThread
      BY <1>4, <2>1, ChannelsStep
    <2>2. gui = "push" => bg = NoThread
      BY DEF Lifecycle, Starting
    <2>3. gui' = "push" =>
            \/ gui = "push" /\ DOMAIN server_users' \subseteq DOMAIN server_users
            \/ server_users' = NoUsers
      <3>1. CASE StartSelect
        BY <3>1 DEF StartSelect, Lifecycle, Starting
      <3>2. CASE ~StartSelect /\ (StartCreate \/ StopBegin \/ GuiStep)
        BY <1>4, <3>2 DEF StartCreate, StopBegin, GuiStep, StartAssign, StartFlag, StartThread,
                    StopCleanup, StopForget, StopClear, StopFlag, StopJoin
      <3>3. CASE ~(StartCreate \/ StopBegin \/ GuiStep)
        BY <3>3, LoadingSteps DEF ResetProcess, JoinServerInsert
      <3> QED BY <3>1, <3>2, <3>3
    <2>4. \/ /\ cb'.pc = cb.pc /\ cb'.user = cb.user /\ cb'.moved = cb.moved
          \/ cb'.pc # "active" /\ (cb'.moved => cb'.pc \in {"online", "push"})
      BY <1>4, HandlerStep
    <2>5. cb'.pc = "active" =>
            /\ cb'.user \in DOMAIN server_users'
            /\ cb.pc = "active" /\ cb'.user = cb.user /\ cb.user \in DOMAIN server_users
      BY <1>0, <2>4 DEF TypeOK, CallbackOK
    <2>6. cb'.moved => cb'.pc \in {"active", "insert", "push", "online"}
      BY <2>4 DEF MovedUser
    <2>7. gui' = "push" =>
            \A r \in DOMAIN server_users' :
              server_users'[r].status = "OFFLINE" => server_users'[r].active_channel_id = 0
      BY <2>1, <2>2, <2>3 DEF MovedUser, NoUsers
    <2>8. cb'.pc = "active" /\ (gui' = "push" \/ cb'.moved) =>
            server_users'[cb'.user].active_channel_id = 0
      BY <2>1, <2>3, <2>4, <2>5 DEF MovedUser, NoUsers
    <2>9. cb'.pc = "active" /\ gui' = "push" => server_users'[cb'.user].status = "ONLINE"
      BY <2>1, <2>2, <2>3, <2>5 DEF MovedUser, NoUsers
    <2> QED BY <2>6, <2>7, <2>8, <2>9 DEF MovedUser
  <1> QED BY <1>1, <1>2, <1>3, <1>4

\* At first no handler runs.
LEMMA MovedUserInit == Init => MovedUser
  BY DEF Init, MovedUser, IdleCallback

\* A pointer that was left behind never sets a channel that the user has not.
LEMMA MovedUsers == Spec => []MovedUser
  <1>1. TypeOK /\ Lifecycle /\ Loading /\ MovedUser /\ [Next]_vars => MovedUser'
    BY MovedUserStep
  <1> QED BY <1>1, MovedUserInit, TypeAndLifecycle, UsersAndOrder, PTL DEF Spec

\* The state in the middle of a start, a stop, a handler and a broadcast is never
\* worse than the proofs above take it to be, whatever the threads interleave.
THEOREM UnfinishedIsSound == Spec => []Inductive
  <1>1. Lifecycle /\ UsersMatchTable /\ Loading /\ MovedUser /\ QueueInOrder
          /\ SentBeforeQueued /\ PushStored => Inductive
    BY DEF Inductive
  <1> QED BY <1>1, TypeAndLifecycle, UsersAndOrder, HandedOnIsStored, MovedUsers, PTL

-----------------------------------------------------------------------------
(* Who is loaded and who is named as a sender. *)

\* What the handler of SEND_MESSAGE inserts.
InsertedRow ==
  [message |-> cb.from, channel_id |-> cb.channel_id,
   sender_id |-> server_users[cb.user].data.id]

\* A message is added to the log by that insert alone, at its end.
LEMMA LogStep ==
  ASSUME TypeOK, [Next]_vars
  PROVE  \/ UNCHANGED messages
         \/ /\ UNCHANGED <<net, users>> /\ cb.pc = "insert"
            /\ InsertedRow \in MessageRow /\ messages' = Append(messages, InsertedRow)
  <1>1. ASSUME SendMessageInsert
        PROVE  /\ UNCHANGED <<net, users>> /\ cb.pc = "insert"
               /\ InsertedRow \in MessageRow /\ messages' = Append(messages, InsertedRow)
    <2>1. InsertedRow \in MessageRow
      BY <1>1, NewRowType DEF SendMessageInsert, MessageRow, InsertedRow
    <2>2. /\ messages' = Append(messages, InsertedRow) /\ UNCHANGED <<net, users>>
          /\ cb.pc = "insert"
      BY <1>1 DEF SendMessageInsert, InsertChannelMessage, InsertedRow
    <2> QED BY <2>1, <2>2
  <1>2. ASSUME StartCreate \/ StopBegin \/ GuiStep PROVE UNCHANGED messages
    BY <1>2 DEF StartCreate, StopBegin, GuiStep, StartAssign, StartSelect, StartPush,
                StartFlag, StartThread, StopCleanup, StopForget, StopClear, StopFlag, StopJoin, db
  <1>3. ASSUME \/ LoadChannelActive \/ LoadChannelReply \/ SendMessagePush
               \/ SendMessageFailed \/ SendMessageOnline \/ SendMessageNoUsername
               \/ MovedUserAbort \/ MovedUserWrite \/ JoinServerAbort \/ CbNullServer
        PROVE  UNCHANGED messages
    BY <1>3 DEF LoadChannelActive, LoadChannelReply, SendMessagePush, SendMessageFailed,
                SendMessageOnline, SendMessageNoUsername, MovedUserAbort, MovedUserWrite,
                JoinServerAbort, CbNullServer, db
  <1>4. ASSUME BackgroundStep PROVE UNCHANGED messages
    BY <1>4 DEF BackgroundStep, BgLoop, BgClear, BgNullServer, BgUser, BgStaleUser,
                BgAnswer, BgTimeout, BgWipe, BgSend, db
  <1>5. ASSUME NEW e \in Endpoints, PacketCallback(e) PROVE UNCHANGED messages
    BY <1>5 DEF PacketCallback, LoadChannelBegin, SendMessageBegin, JoinServerInsert,
                CreateNewChannel, db
  <1>6. ASSUME Crash \/ Launch \/ UNCHANGED vars PROVE UNCHANGED messages
    BY <1>6 DEF Crash, Launch, vars, db
  <1>7. ASSUME NEW r \in DOMAIN server_users, TimePasses(r) PROVE UNCHANGED messages
    BY <1>7 DEF TimePasses, db
  <1> QED BY <1>1, <1>2, <1>3, <1>4, <1>5, <1>6, <1>7 DEF Next, CallbackStep

\* A handler inserts for the user of the host that asked.
CallerIsUser ==
  cb.pc = "insert" => server_users[cb.user].data.ip_address = IpOf(cb.from)

\* The user a handler has found stays the user of its host.
LEMMA CallerStep ==
  ASSUME TypeOK, Lifecycle, Loading, CallerIsUser, [Next]_vars
  PROVE  CallerIsUser'
  <1> SUFFICES ASSUME cb'.pc = "insert"
               PROVE  (server_users[cb.user].data.ip_address = IpOf(cb.from))'
    BY DEF CallerIsUser
  <1>1. CASE cb.pc = "insert" /\ cb'.user = cb.user /\ cb'.from = cb.from
    <2>1. cb.user \in DOMAIN server_users /\ cb.user \in DOMAIN server_users'
      BY <1>1, TypeStep DEF TypeOK, CallbackOK
    <2>2. server_users'[cb.user].data = server_users[cb.user].data
      <3>1. CASE StartPush
        <4>1. PICK r \in DOMAIN loading :
                \A s \in DOMAIN server_users : s # r => server_users'[s] = server_users[s]
          BY <3>1, StartPushEffect
        <4>2. cb.user < r /\ cb.user \in Nat /\ r \in Nat
          BY <2>1 DEF Loading, TypeOK, UsersOK
        <4> QED BY <2>1, <4>1, <4>2
      <3>2. CASE ~StartPush
        BY <2>1, <3>2, LoadedUsersStep DEF NoUsers
      <3> QED BY <3>1, <3>2
    <2> QED BY <1>1, <2>2 DEF CallerIsUser
  <1>2. ASSUME NEW e \in Endpoints, NEW c \in Channels, SendMessageBegin(e, c)
        PROVE  (server_users[cb.user].data.ip_address = IpOf(cb.from))'
    BY <1>2 DEF SendMessageBegin, GetUserByAddrData, IdleCallback
  <1>3. \/ cb.pc = "insert" /\ cb'.user = cb.user /\ cb'.from = cb.from
        \/ \E e \in Endpoints, c \in Channels : SendMessageBegin(e, c)
    BY HandlerStep
  <1> QED BY <1>1, <1>2, <1>3

\* Every sender is a row of the table, with the address of the host that typed it.
SendersAreUsers ==
  \A m \in DOMAIN messages :
    /\ messages[m].sender_id \in DOMAIN users
    /\ users[messages[m].sender_id].ip_address = IpOf(messages[m].message)

\* Ids that fit their field are the rows themselves.
LEMMA SendersStep ==
  ASSUME MaxUsers < UserIdModulus,
         TypeOK, UsersMatchTable, CallerIsUser, SendersAreUsers, [Next]_vars
  PROVE  SendersAreUsers'
  <1>1. /\ DOMAIN users \subseteq DOMAIN users'
        /\ \A r \in DOMAIN users : users'[r] = users[r]
    BY UsersTableGrows DEF UsersMatchTable
  <1>2. CASE UNCHANGED messages
    BY <1>1, <1>2 DEF SendersAreUsers
  <1>3. ASSUME cb.pc = "insert", InsertedRow \in MessageRow,
               messages' = Append(messages, InsertedRow)
        PROVE  SendersAreUsers'
    <2>1. cb.user \in DOMAIN server_users
      BY <1>3 DEF TypeOK, CallbackOK
    <2>2. /\ cb.user \in DOMAIN users
          /\ server_users[cb.user].data.id = cb.user % UserIdModulus
          /\ server_users[cb.user].data.ip_address = users[cb.user].ip_address
      BY <2>1 DEF UsersMatchTable, MemberRows
    <2>3. cb.user \in Nat /\ cb.user < UserIdModulus
      BY <2>2 DEF TypeOK, TablesOK
    <2>4. InsertedRow.sender_id = cb.user /\ InsertedRow.message = cb.from
      <3>1. cb.user % UserIdModulus = cb.user
        BY <2>3, SmallIdKept
      <3> QED BY <2>2, <3>1 DEF InsertedRow
    <2>5. users'[cb.user].ip_address = IpOf(cb.from) /\ cb.user \in DOMAIN users'
      BY <1>1, <1>3, <2>2 DEF CallerIsUser
    <2>6. messages \in Seq(MessageRow)
      BY DEF TypeOK, TablesOK
    <2>7. \A m \in DOMAIN messages' : \/ messages'[m] = InsertedRow
                                      \/ m \in DOMAIN messages /\ messages'[m] = messages[m]
      BY <1>3, <2>6
    <2> QED BY <1>1, <2>4, <2>5, <2>7 DEF SendersAreUsers
  <1> QED BY <1>2, <1>3, LogStep

\* Where the ids of the users fit sixteen bits, for every instance: a stored message
\* names the user of the host that typed it.
THEOREM SendersAreRight ==
  ASSUME MaxUsers < UserIdModulus PROVE Spec => []SenderAttribution
  <1>1. Init => CallerIsUser /\ SendersAreUsers
    BY DEF Init, CallerIsUser, SendersAreUsers, IdleCallback
  <1>2. TypeOK /\ Lifecycle /\ UsersMatchTable /\ Loading /\ CallerIsUser /\ SendersAreUsers
          /\ [Next]_vars => (CallerIsUser /\ SendersAreUsers)'
    BY CallerStep, SendersStep
  <1>3. SendersAreUsers => SenderAttribution
    BY DEF SendersAreUsers, SenderAttribution
  <1> QED BY <1>1, <1>2, <1>3, TypeAndLifecycle, UsersAndOrder, PTL DEF Spec

\* For every instance: while the server runs, no member is unknown to its handlers but
\* the one that is joining.
THEOREM MembersAreLoaded == Spec => []MembersLoaded
  <1>1. UsersMatchTable /\ Loading => MembersLoaded
    BY DEF UsersMatchTable, Loading, MembersLoaded, NoUsers
  <1> QED BY <1>1, UsersAndOrder, PTL

-----------------------------------------------------------------------------
(* The refinement: each step of the three threads is one of the live feed, or  *)
(* changes neither the log nor a feed.                                         *)

\* A packet adds the ids of its rows to the feed of its host, and to no other.
LEMMA FeedGrows ==
  ASSUME NEW n \in Nat, DOMAIN net = 1..n, DOMAIN net' = 1..(n + 1),
         \A k \in DOMAIN net : net'[k] = net[k], NEW ip
  PROVE  FeedOf(ip)' =
           IF IpOf(net'[n + 1].to) = ip
           THEN FeedOf(ip) \cup {net'[n + 1].rows[i].id : i \in DOMAIN net'[n + 1].rows}
           ELSE FeedOf(ip)
  <1> DEFINE IdsOf(p) == {p.rows[i].id : i \in DOMAIN p.rows}
             Old == {k \in DOMAIN net : IpOf(net[k].to) = ip}
             New == {k \in DOMAIN net' : IpOf(net'[k].to) = ip}
  <1>1. FeedOf(ip) = UNION {IdsOf(net[k]) : k \in Old}
    BY DEF FeedOf
  <1>2. FeedOf(ip)' = UNION {IdsOf(net'[k]) : k \in New}
    BY DEF FeedOf
  <1>3. \A k \in Old : k \in New /\ IdsOf(net'[k]) = IdsOf(net[k])
    OBVIOUS
  <1>4. \A k \in New : k \in Old \/ k = n + 1
    OBVIOUS
  <1>5. n + 1 \in New <=> IpOf(net'[n + 1].to) = ip
    OBVIOUS
  <1> HIDE DEF IdsOf, Old, New
  <1>6. CASE n + 1 \in New
    <2>1. FeedOf(ip)' = FeedOf(ip) \cup IdsOf(net'[n + 1])
      BY <1>1, <1>2, <1>3, <1>4, <1>6
    <2> QED BY <1>5, <1>6, <2>1 DEF IdsOf
  <1>7. CASE n + 1 \notin New
    <2>1. FeedOf(ip)' = FeedOf(ip)
      BY <1>1, <1>2, <1>3, <1>4, <1>7
    <2> QED BY <1>5, <1>7, <2>1
  <1> QED BY <1>6, <1>7

\* A packet is an update of its host's feed: stored messages of one channel, all of
\* them newer than what the host was sent, and at least one.
LEMMA PacketIsUpdate ==
  ASSUME TypeOK, UsersMatchTable, FeedInOrder', FeedToMembers', FeedPersisted',
         [Next]_vars, ~UNCHANGED net
  PROVE  \E h \in IPs, S \in SUBSET DOMAIN messages : Feed!Update(h, S)
  <1>1. PICK r \in bg.todo :
          /\ BgSend(r)
          /\ r \in DOMAIN server_users
          /\ server_users[r].addr_data # NoAddr
          /\ UNCHANGED <<users, messages, server_users, new_messages, cb>>
          /\ DOMAIN net' = 1..(Len(net) + 1) /\ DOMAIN net = 1..Len(net)
          /\ Len(net) \in Nat
          /\ \A k \in DOMAIN net : net'[k] = net[k]
          /\ net'[Len(net) + 1].to = server_users[r].addr_data
          /\ net'[Len(net) + 1].rows = ActiveRows(r)
    BY NetStep
  <1>2. DOMAIN ActiveRows(r) # {}
    BY <1>1 DEF BgSend
  <1> DEFINE n == Len(net)
             p == net'[n + 1]
             h == IpOf(p.to)
             S == {p.rows[i].id : i \in DOMAIN p.rows}
  <1>3. n + 1 \in DOMAIN net'
    BY <1>1
  <1>4. h \in IPs
    <2>1. server_users[r].addr_data \in Endpoints
      BY <1>1 DEF TypeOK, UsersOK, UserRecord
    <2> QED BY <1>1, <2>1 DEF Endpoints, IpOf
  <1>5. \A i \in DOMAIN p.rows :
          /\ p.rows[i].id \in DOMAIN messages
          /\ messages[p.rows[i].id].channel_id = p.rows[i].channel_id
    <2>1. ASSUME NEW i \in DOMAIN p.rows
          PROVE  /\ p.rows[i].id \in DOMAIN messages
                 /\ messages[p.rows[i].id].channel_id = p.rows[i].channel_id
      <3>1. PICK row : row = p.rows[i]
        OBVIOUS
      <3>2. Stored(row)'
        BY <1>3, <2>1, <3>1 DEF FeedPersisted, Stored
      <3>3. Stored(row)
        BY <1>1, <3>2 DEF Stored
      <3> QED BY <3>1, <3>3 DEF Stored, SelectChannelMessages
    <2> QED BY <2>1
  <1>6. S # {} /\ S \in SUBSET DOMAIN messages
    BY <1>1, <1>2, <1>5
  <1>7. \A m \in S, q \in FeedOf(h) : q < m
    <2>1. ASSUME NEW i \in DOMAIN p.rows, NEW k \in DOMAIN net, IpOf(net[k].to) = h,
                 NEW j \in DOMAIN net[k].rows
          PROVE  net[k].rows[j].id < p.rows[i].id
      <3>1. k \in DOMAIN net' /\ k < n + 1 /\ net'[k] = net[k]
        BY <1>1, <2>1
      <3> QED BY <1>3, <2>1, <3>1 DEF FeedInOrder
    <2> QED BY <2>1 DEF FeedOf
  <1>8. \A m, q \in S : messages[m].channel_id = messages[q].channel_id
    <2>1. \A i, j \in DOMAIN p.rows : p.rows[i].channel_id = p.rows[j].channel_id
      BY <1>3 DEF FeedToMembers
    <2> QED BY <1>5, <2>1
  <1>9. [ip \in IPs |-> FeedOf(ip)]' =
          [[ip \in IPs |-> FeedOf(ip)] EXCEPT ![h] = @ \cup S]
    <2>1. ASSUME NEW ip \in IPs
          PROVE  FeedOf(ip)' = IF h = ip THEN FeedOf(ip) \cup S ELSE FeedOf(ip)
      BY <1>1, FeedGrows
    <2> HIDE DEF h, S
    <2> QED BY <1>4, <2>1
  <1>10. UNCHANGED messages
    BY <1>1
  <1>11. Feed!Update(h, S)
    <2> HIDE DEF S, h
    <2> QED BY <1>4, <1>6, <1>7, <1>8, <1>9, <1>10 DEF Feed!Update
  <1> HIDE DEF S, h
  <1> QED BY <1>4, <1>6, <1>11

\* Every step of the server is a step of the feed, or none.
LEMMA FeedSimulates ==
  ASSUME TypeOK, UsersMatchTable, FeedInOrder', FeedToMembers', FeedPersisted',
         [Next]_vars
  PROVE  [Feed!Next]_(Feed!vars)
  <1>1. CASE ~UNCHANGED net
    BY <1>1, PacketIsUpdate DEF Feed!Next
  <1>2. CASE UNCHANGED net
    <2>1. \A ip \in IPs : FeedOf(ip)' = FeedOf(ip)
      BY <1>2 DEF FeedOf
    <2>2. UNCHANGED [ip \in IPs |-> FeedOf(ip)]
      BY <2>1
    <2>3. CASE UNCHANGED messages
      BY <2>2, <2>3 DEF Feed!vars
    <2>4. ASSUME InsertedRow \in MessageRow, messages' = Append(messages, InsertedRow)
          PROVE  Feed!Next
      BY <2>2, <2>4 DEF Feed!Next, Feed!Post
    <2> QED BY <2>3, <2>4, LogStep
  <1> QED BY <1>1, <1>2

\* For every instance: the three threads with their crashes, stops and restarts
\* implement the abstract live feed.
THEOREM ImplementsFeed == Spec => ImplementsLiveFeed
  <1>1. Init => Feed!Init
    BY DEF Init, Feed!Init, FeedOf
  <1>2. TypeOK /\ UsersMatchTable /\ FeedInOrder' /\ FeedToMembers' /\ FeedPersisted'
          /\ [Next]_vars => [Feed!Next]_(Feed!vars)
    BY FeedSimulates
  <1> QED BY <1>1, <1>2, TypeAndLifecycle, UsersAndOrder, FeedIsForMembers,
             FeedIsPersisted, PTL DEF Spec, ImplementsLiveFeed, Feed!Spec
=============================================================================
