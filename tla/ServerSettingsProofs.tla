------------------------ MODULE ServerSettingsProofs ------------------------
(***************************************************************************)
(* Proofs about ServerSettings: every variable keeps its type, and a call  *)
(* of SelectHostedServerUsers that had the shared statement to itself      *)
(* returns exactly its rows.  Calls is the inductive invariant: where a    *)
(* call is alone, the statement's bindings and place are that call's.      *)
(***************************************************************************)
EXTENDS ServerSettings, TLAPS, WellFoundedInduction

Least(S) == CHOOSE r \in S : \A s \in S : r <= s

Statement ==
  [state : {"ready", "row", "halt"}, at : DOMAIN users \cup {0}, args : Args]

\* A thread without a call is idle, and a call of the main thread is for a list of
\* a window.
JobsOK ==
  /\ \A t \in {gui, cb} : t.pc = "idle" => t = Idle
  /\ gui.pc # "idle" => gui.job \in (DOMAIN window) \X Types

Busy == {"step", "read", "reset"}
Binding == {"server_id", "user_type", "ip_address"}

\* The rows of result are those of S, in the order of their ids.
Lists(result, S) ==
  /\ {result[i] : i \in DOMAIN result} = S
  /\ \A i, j \in DOMAIN result : i < j => result[i] < result[j]

\* What a call that is alone finds in the statement s, and has read so far.
Exact(t, s) ==
  /\ t.pc \in Binding => t.result = <<>>
  /\ t.pc \in {"user_type", "ip_address"} => s.args.server_id = t.args.server_id
  /\ t.pc = "ip_address" => s.args.user_type = t.args.user_type
  /\ t.pc \in Busy => s.args = t.args
  /\ t.pc = "step" => Lists(t.result, {r \in Selected(t.args) : r <= s.at})
  /\ t.pc = "read" => /\ s.state = "row" /\ s.at \in Selected(t.args)
                      /\ Lists(t.result, {r \in Selected(t.args) : r < s.at})
  /\ t.pc \in {"reset", "return"} => Lists(t.result, Selected(t.args))

\* Two calls at once are not alone; only a call in its loop has the statement in use;
\* a call that is alone is exact.
Calls ==
  /\ gui # Idle /\ cb # Idle => ~gui.alone /\ ~cb.alone
  /\ stmt.state # "ready" => gui.pc \in Busy \/ cb.pc \in Busy
  /\ \A t \in {gui, cb} : t.alone => Exact(t, stmt)

-----------------------------------------------------------------------------
(* One step of a call *)

\* A set of row ids that is not empty has a least one.
LEMMA LeastRow ==
  ASSUME NEW S \in SUBSET Nat, S # {}
  PROVE  Least(S) \in S /\ \A s \in S : Least(S) <= s
<1>1. PICK m \in S : \A s \in S : <<s, m>> \notin OpToRel(<, Nat)
  BY NatLessThanWellFounded, WFMin, Zenon
<1>2. ASSUME NEW s \in S PROVE m <= s
  <2>1. s \in Nat /\ m \in Nat
    OBVIOUS
  <2>2. ~(s < m)
    BY <1>1, <2>1, Zenon DEF OpToRel
  <2>3. QED BY <2>1, <2>2
<1>3. QED BY <1>2 DEF Least

\* Row ids are numbers, from one.
LEMMA RowIds ==
  ASSUME TypeOK
  PROVE  /\ DOMAIN users \subseteq Nat \ {0}
         /\ \A args : Selected(args) \subseteq DOMAIN users
<1>1. users \in Seq(UserRow)
  BY DEF TypeOK
<1>2. DOMAIN users \subseteq Nat \ {0}
  BY <1>1
<1>3. QED BY <1>2 DEF Selected

\* sqlite3_step halts after the last row, or goes to the least row that is left.
LEMMA StepTo ==
  ASSUME TypeOK, Step
  PROVE  LET rows == {r \in Selected(stmt.args) : r > stmt.at}
         IN  \/ /\ rows = {}
                /\ stmt' = [stmt EXCEPT !.state = "halt", !.at = 0]
             \/ \E m \in rows :
                  /\ \A s \in rows : m <= s
                  /\ stmt' = [stmt EXCEPT !.state = "row", !.at = m]
<1> DEFINE rows == {r \in Selected(stmt.args) : r > stmt.at}
<1>1. CASE rows = {}
  BY <1>1 DEF Step
<1>2. CASE rows # {}
  <2>1. rows \in SUBSET Nat
    BY RowIds
  <2>2. Least(rows) \in rows /\ \A s \in rows : Least(rows) <= s
    BY <1>2, <2>1, LeastRow
  <2>3. stmt' = [stmt EXCEPT !.state = "row", !.at = Least(rows)]
    BY <1>2 DEF Step, Least
  <2>4. QED BY <2>2, <2>3
<1>3. QED BY <1>1, <1>2

\* A step of a call keeps the types of the call and of the statement.
LEMMA SelectType ==
  ASSUME TypeOK, NEW t \in Thread, NEW u, SelectStep(t, u)
  PROVE  /\ stmt' \in Statement /\ (stmt'.state = "row" <=> stmt'.at # 0)
         /\ u \in Thread /\ u.job = t.job /\ u.args = t.args /\ u.alone = t.alone
         /\ t.pc # "idle" /\ u.pc # "idle"
<1>1. stmt \in Statement /\ (stmt.state = "row" <=> stmt.at # 0)
  BY DEF TypeOK, Statement
<1>2. CASE BindArg(t, u)
  <2>1. t.pc \in Binding /\ Bind(t.pc, t.args[t.pc])
    BY <1>2 DEF BindArg, Binding
  <2>2. stmt' \in Statement /\ stmt'.state = stmt.state /\ stmt'.at = stmt.at
    <3>1. CASE t.pc = "server_id"
      BY <1>1, <2>1, <3>1 DEF Bind, Statement, Args, Thread
    <3>2. CASE t.pc = "user_type"
      BY <1>1, <2>1, <3>2 DEF Bind, Statement, Args, Thread
    <3>3. CASE t.pc = "ip_address"
      BY <1>1, <2>1, <3>3 DEF Bind, Statement, Args, Thread
    <3>4. QED BY <2>1, <3>1, <3>2, <3>3 DEF Binding
  <2>3. \E pc \in {"user_type", "ip_address", "step"} : u = [t EXCEPT !.pc = pc]
    BY <1>2 DEF BindArg
  <2>4. u \in Thread /\ u.job = t.job /\ u.args = t.args /\ u.alone = t.alone /\ u.pc # "idle"
    BY <2>3 DEF Thread
  <2>5. QED BY <1>1, <2>1, <2>2, <2>4 DEF Binding
<1>3. CASE StepRow(t, u)
  <2>1. t.pc = "step" /\ Step /\ \E pc \in {"read", "reset"} : u = [t EXCEPT !.pc = pc]
    BY <1>3 DEF StepRow
  <2>2. \/ stmt' = [stmt EXCEPT !.state = "halt", !.at = 0]
        \/ \E m \in DOMAIN users \ {0} : stmt' = [stmt EXCEPT !.state = "row", !.at = m]
    <3>1. \A args : Selected(args) \subseteq DOMAIN users \ {0}
      BY RowIds
    <3>2. QED BY <2>1, <3>1, StepTo
  <2>3. stmt' \in Statement /\ (stmt'.state = "row" <=> stmt'.at # 0)
    BY <1>1, <2>2 DEF Statement
  <2>4. QED BY <2>1, <2>3 DEF Thread
<1>4. CASE ReadRow(t, u)
  <2>1. stmt.at \in DOMAIN users
    BY <1>1, <1>4 DEF ReadRow, Statement
  <2>2. t.result \in Seq(DOMAIN users) /\ Append(t.result, stmt.at) \in Seq(DOMAIN users)
    BY <2>1 DEF Thread
  <2>3. QED BY <1>1, <1>4, <2>2 DEF ReadRow, Thread
<1>5. CASE ResetStmt(t, u)
  BY <1>1, <1>5 DEF ResetStmt, Reset, Statement, Thread
<1>6. QED BY <1>2, <1>3, <1>4, <1>5 DEF SelectStep

\* A step of a call leaves the statement reset, or in use by a call in its loop.
LEMMA SelectReady ==
  ASSUME TypeOK, NEW t \in Thread, NEW u, SelectStep(t, u), stmt'.state # "ready"
  PROVE  u.pc \in Busy \/ (stmt.state # "ready" /\ t.pc \notin Busy)
<1>1. stmt \in Statement
  BY DEF TypeOK, Statement
<1>2. CASE BindArg(t, u)
  <2>1. stmt'.state = stmt.state
    BY <1>1, <1>2 DEF BindArg, Bind, Statement
  <2>2. QED BY <1>2, <2>1 DEF BindArg, Busy
<1>3. CASE StepRow(t, u)
  BY <1>3 DEF StepRow, Busy, Thread
<1>4. CASE ReadRow(t, u)
  BY <1>4 DEF ReadRow, Busy, Thread
<1>5. CASE ResetStmt(t, u)
  BY <1>1, <1>5 DEF ResetStmt, Reset, Statement
<1>6. QED BY <1>2, <1>3, <1>4, <1>5 DEF SelectStep

\* The row read is the next of the rows listed.
LEMMA ListsNext ==
  ASSUME NEW S \in SUBSET Nat, NEW m \in S, NEW result \in Seq(Nat),
         Lists(result, {r \in S : r < m})
  PROVE  Lists(Append(result, m), {r \in S : r <= m})
<1> DEFINE next == Append(result, m)
<1>1. /\ Len(result) \in Nat /\ DOMAIN result = 1..Len(result)
      /\ DOMAIN next = 1..(Len(result) + 1)
      /\ next[Len(result) + 1] = m
      /\ \A i \in DOMAIN result : next[i] = result[i]
  OBVIOUS
<1>2. \A i \in DOMAIN result : result[i] \in S /\ result[i] < m
  BY DEF Lists
<1>3. {next[i] : i \in DOMAIN next} = {r \in S : r <= m}
  <2>1. ASSUME NEW i \in DOMAIN next PROVE next[i] \in S /\ next[i] <= m
    <3>1. CASE i \in DOMAIN result
      BY <1>1, <1>2, <3>1
    <3>2. CASE i = Len(result) + 1
      BY <1>1, <3>2
    <3>3. QED BY <1>1, <2>1, <3>1, <3>2
  <2>2. ASSUME NEW r \in S, r <= m PROVE \E i \in DOMAIN next : next[i] = r
    <3>1. CASE r < m
      <4>1. PICK i \in DOMAIN result : result[i] = r
        BY <3>1 DEF Lists
      <4>2. i \in DOMAIN next /\ next[i] = r
        BY <1>1, <4>1
      <4>3. QED BY <4>2
    <3>2. CASE r = m
      BY <1>1, <3>2
    <3>3. QED BY <2>2, <3>1, <3>2
  <2>3. QED BY <2>1, <2>2
<1>4. ASSUME NEW i \in DOMAIN next, NEW j \in DOMAIN next, i < j PROVE next[i] < next[j]
  <2>1. i \in DOMAIN result
    BY <1>1, <1>4
  <2>2. CASE j \in DOMAIN result
    BY <1>1, <1>4, <2>1, <2>2 DEF Lists
  <2>3. CASE j = Len(result) + 1
    BY <1>1, <1>2, <2>1, <2>3
  <2>4. QED BY <1>1, <1>4, <2>2, <2>3
<1>5. QED BY <1>3, <1>4 DEF Lists

\* A call that is alone stays exact: it binds all three arguments, goes through its rows
\* from the first to the last, and ends behind the last.
LEMMA SelectExact ==
  ASSUME TypeOK, NEW t \in Thread, NEW u, SelectStep(t, u), Exact(t, stmt),
         t.pc \in Binding => stmt.state = "ready"
  PROVE  Exact(u, stmt')
<1>1. stmt \in Statement /\ (stmt.state = "row" <=> stmt.at # 0)
  BY DEF TypeOK, Statement
<1>2. Selected(t.args) \subseteq DOMAIN users /\ DOMAIN users \subseteq Nat \ {0}
  BY RowIds
<1>3. CASE BindArg(t, u)
  <2>1. t.result = <<>> /\ stmt.state = "ready" /\ stmt.at = 0
    BY <1>1, <1>3 DEF BindArg, Binding, Exact
  <2>2. stmt' = [stmt EXCEPT !.args[t.pc] = t.args[t.pc]]
    BY <1>3, <2>1 DEF BindArg, Bind
  <2>3. stmt'.at = 0 /\ stmt.args \in Args /\ t.args \in Args
    BY <1>1, <2>1, <2>2 DEF Statement, Thread
  <2>4. CASE t.pc = "server_id"
    <3>1. u = [t EXCEPT !.pc = "user_type"]
      BY <1>3, <2>4 DEF BindArg
    <3>2. u.pc = "user_type" /\ u.args = t.args /\ u.result = <<>>
      BY <2>1, <3>1 DEF Thread
    <3>3. stmt'.args.server_id = t.args.server_id
      BY <1>1, <2>2, <2>3, <2>4 DEF Statement, Args
    <3>4. QED BY <3>2, <3>3 DEF Exact, Binding, Busy
  <2>5. CASE t.pc = "user_type"
    <3>1. u = [t EXCEPT !.pc = "ip_address"]
      BY <1>3, <2>5 DEF BindArg
    <3>2. u.pc = "ip_address" /\ u.args = t.args /\ u.result = <<>>
      BY <2>1, <3>1 DEF Thread
    <3>3. stmt.args.server_id = t.args.server_id
      BY <2>5 DEF Exact
    <3>4. stmt'.args.server_id = t.args.server_id /\ stmt'.args.user_type = t.args.user_type
      BY <1>1, <2>2, <2>3, <2>5, <3>3 DEF Statement, Args
    <3>5. QED BY <3>2, <3>4 DEF Exact, Binding, Busy
  <2>6. CASE t.pc = "ip_address"
    <3>1. u = [t EXCEPT !.pc = "step"]
      BY <1>3, <2>6 DEF BindArg
    <3>2. u.pc = "step" /\ u.args = t.args /\ u.result = <<>>
      BY <2>1, <3>1 DEF Thread
    <3>3. stmt.args.server_id = t.args.server_id /\ stmt.args.user_type = t.args.user_type
      BY <2>6 DEF Exact
    <3>4. stmt'.args = t.args
      BY <1>1, <2>2, <2>3, <2>6, <3>3 DEF Statement, Args
    <3>5. {r \in Selected(u.args) : r <= stmt'.at} = {}
      BY <1>2, <2>3, <3>2
    <3>6. Lists(u.result, {r \in Selected(u.args) : r <= stmt'.at})
      BY <3>2, <3>5 DEF Lists
    <3>7. QED BY <3>2, <3>4, <3>6 DEF Exact, Binding, Busy
  <2>7. QED BY <1>3, <2>4, <2>5, <2>6 DEF BindArg
<1>4. CASE StepRow(t, u)
  <2>1. /\ t.pc = "step" /\ Step /\ stmt.args = t.args
        /\ Lists(t.result, {r \in Selected(t.args) : r <= stmt.at})
    BY <1>4 DEF StepRow, Exact, Busy
  <2>2. CASE /\ {r \in Selected(stmt.args) : r > stmt.at} = {}
             /\ stmt' = [stmt EXCEPT !.state = "halt", !.at = 0]
    <3>1. stmt'.args = t.args /\ stmt'.state = "halt"
      BY <1>1, <2>1, <2>2 DEF Statement
    <3>2. u.pc = "reset" /\ u.args = t.args /\ u.result = t.result
      BY <1>4, <3>1 DEF StepRow, Thread
    <3>3. {r \in Selected(t.args) : r <= stmt.at} = Selected(t.args)
      BY <1>1, <1>2, <2>1, <2>2 DEF Statement
    <3>4. QED BY <2>1, <3>1, <3>2, <3>3 DEF Exact, Binding, Busy
  <2>3. ASSUME NEW m \in {r \in Selected(stmt.args) : r > stmt.at},
               \A s \in {r \in Selected(stmt.args) : r > stmt.at} : m <= s,
               stmt' = [stmt EXCEPT !.state = "row", !.at = m]
        PROVE  Exact(u, stmt')
    <3>1. stmt'.args = t.args /\ stmt'.state = "row" /\ stmt'.at = m
      BY <1>1, <2>1, <2>3 DEF Statement
    <3>2. u.pc = "read" /\ u.args = t.args /\ u.result = t.result
      BY <1>4, <3>1 DEF StepRow, Thread
    <3>3. {r \in Selected(t.args) : r <= stmt.at} = {r \in Selected(t.args) : r < m}
      BY <1>1, <1>2, <2>1, <2>3 DEF Statement
    <3>4. QED BY <2>1, <2>3, <3>1, <3>2, <3>3 DEF Exact, Binding, Busy
  <2>4. QED BY <2>1, <2>2, <2>3, StepTo
<1>5. CASE ReadRow(t, u)
  <2>1. /\ t.pc = "read" /\ stmt.args = t.args /\ stmt.at \in Selected(t.args)
        /\ Lists(t.result, {r \in Selected(t.args) : r < stmt.at})
    BY <1>5 DEF ReadRow, Exact, Busy
  <2>2. t.result \in Seq(Nat)
    BY <1>2 DEF Thread
  <2>3. Lists(Append(t.result, stmt.at), {r \in Selected(t.args) : r <= stmt.at})
    BY <1>2, <2>1, <2>2, ListsNext
  <2>4. /\ u.pc = "step" /\ u.args = t.args /\ u.result = Append(t.result, stmt.at)
        /\ stmt' = stmt
    BY <1>5 DEF ReadRow, Thread
  <2>5. QED BY <2>1, <2>3, <2>4 DEF Exact, Binding, Busy
<1>6. CASE ResetStmt(t, u)
  <2>1. t.pc = "reset" /\ u.pc = "return" /\ u.args = t.args /\ u.result = t.result
    BY <1>6 DEF ResetStmt, Thread
  <2>2. QED BY <2>1 DEF Exact, Binding, Busy
<1>7. QED BY <1>3, <1>4, <1>5, <1>6 DEF SelectStep

-----------------------------------------------------------------------------
(* The type of every variable *)

\* The types grow with the windows; the table keeps its rows.
LEMMA TypesGrow ==
  ASSUME DOMAIN users' = DOMAIN users, DOMAIN window \subseteq DOMAIN window'
  PROVE  Args' = Args /\ Statement' = Statement /\ Thread \subseteq Thread'
<1>1. Args' = Args
  BY DEF Args
<1>2. Statement' = Statement
  BY <1>1 DEF Statement
<1>3. Thread \subseteq Thread'
  BY <1>1 DEF Thread
<1>4. QED BY <1>1, <1>2, <1>3

\* Every thread that begins or ends a call, or is overlapped by one, has its type.
LEMMA CallTypes ==
  /\ Idle \in Thread /\ Idle.pc = "idle" /\ Idle.alone = TRUE
  /\ \A t \in Thread : /\ Overlapped(t) \in Thread /\ Overlapped(t).pc = t.pc
                       /\ Overlapped(t).job = t.job
                       /\ t = Idle => Overlapped(t) = Idle
                       /\ t # Idle => ~Overlapped(t).alone
  /\ \A args \in Args, job \in {<<>>} \cup ((DOMAIN window) \X Types) : \A other :
       LET t == Call(args, job, other)
       IN  /\ t \in Thread /\ t.pc = "server_id" /\ t.job = job /\ t.result = <<>>
           /\ t.alone <=> other = Idle
<1>1. NoArgs \in Args
  BY DEF NoArgs, Args
<1>2. Idle \in Thread /\ Idle.pc = "idle" /\ Idle.alone = TRUE
  BY <1>1 DEF Idle, Thread
<1>3. ASSUME NEW t \in Thread
      PROVE  /\ Overlapped(t) \in Thread /\ Overlapped(t).pc = t.pc
             /\ Overlapped(t).job = t.job
             /\ t = Idle => Overlapped(t) = Idle
             /\ t # Idle => ~Overlapped(t).alone
  <2>1. CASE t = Idle
    <3>1. Overlapped(t) = [Idle EXCEPT !.alone = TRUE]
      BY <2>1 DEF Overlapped
    <3>2. [Idle EXCEPT !.alone = TRUE] = Idle
      BY <1>2 DEF Idle
    <3>3. QED BY <1>2, <2>1, <3>1, <3>2
  <2>2. CASE t # Idle
    <3>1. Overlapped(t) = [t EXCEPT !.alone = FALSE]
      BY <2>2 DEF Overlapped
    <3>2. QED BY <2>2, <3>1 DEF Thread
  <2>3. QED BY <2>1, <2>2
<1>4. ASSUME NEW args \in Args, NEW job \in {<<>>} \cup ((DOMAIN window) \X Types), NEW other
      PROVE  LET t == Call(args, job, other)
             IN  /\ t \in Thread /\ t.pc = "server_id" /\ t.job = job /\ t.result = <<>>
                 /\ t.alone <=> other = Idle
  <2>1. (other = Idle) \in BOOLEAN
    OBVIOUS
  <2>2. QED BY <1>2, <2>1 DEF Call, Idle, Thread
<1>5. QED BY <1>2, <1>3, <1>4

\* The arguments of a list and of a request.
LEMMA ArgTypes ==
  /\ \A s \in Servers, type \in Types :
       [NoArgs EXCEPT !.server_id = {s}, !.user_type = {type}] \in Args
  /\ \A s \in Servers, sender \in DOMAIN users \cup {0} :
       [NoArgs EXCEPT !.server_id = {s}, !.ip_address = {sender}] \in Args
BY DEF NoArgs, Args

\* A list of a window that the main thread selects.
LEMMA ListCallType ==
  ASSUME NEW w \in DOMAIN window, NEW s \in Servers, NEW type \in Types
  PROVE  /\ ListCall(w, s, type) \in Thread /\ ListCall(w, s, type).pc = "server_id"
         /\ ListCall(w, s, type).job = <<w, type>>
<1> DEFINE args == [NoArgs EXCEPT !.server_id = {s}, !.user_type = {type}]
           job == <<w, type>>
<1>1. args \in Args
  BY ArgTypes
<1>2. job \in {<<>>} \cup ((DOMAIN window) \X Types)
  OBVIOUS
<1>3. ListCall(w, s, type) = Call(args, job, cb)
  BY DEF ListCall
<1> HIDE DEF args, job
<1>4. /\ Call(args, job, cb) \in Thread /\ Call(args, job, cb).pc = "server_id"
      /\ Call(args, job, cb).job = job
  BY <1>1, <1>2, CallTypes
<1>5. QED BY <1>3, <1>4 DEF job

WindowRecord ==
  [open : BOOLEAN, server_id : Servers, shown : BOOLEAN,
   members : Seq(DOMAIN users), admins : Seq(DOMAIN users)]

\* The lists a window draws, and what SelectedMenuChange does to the windows.
LEMMA TypeLists ==
  ASSUME TypeOK, JobsOK, RenderMemberList \/ RenderAdminList
  PROVE  TypeOK' /\ JobsOK'
<1> DEFINE w == gui.job[1]
<1>1. /\ gui \in Thread /\ cb \in Thread /\ gui.result \in Seq(DOMAIN users)
      /\ window \in [DOMAIN window -> WindowRecord] /\ menus \subseteq DOMAIN window
  BY DEF TypeOK, Thread, WindowRecord
<1>2. w \in DOMAIN window /\ window[w] \in WindowRecord /\ UNCHANGED users
  BY <1>1 DEF JobsOK, RenderMemberList, RenderAdminList
<1>3. CASE RenderMemberList
  <2>1. window' = [window EXCEPT ![w].members = gui.result]
    BY <1>3 DEF RenderMemberList
  <2>2. window' \in [DOMAIN window -> WindowRecord]
    BY <1>1, <1>2, <2>1 DEF WindowRecord
  <2>3. gui' = ListCall(w, window[w].server_id, "Admin")
    BY <1>3 DEF RenderMemberList
  <2>4. "Admin" \in Types /\ window[w].server_id \in Servers
    BY <1>2 DEF Types, WindowRecord
  <2>5. /\ gui' \in Thread /\ gui'.pc = "server_id"
        /\ gui'.job \in (DOMAIN window) \X Types
    <3>1. PICK s \in Servers : s = window[w].server_id
      BY <2>4
    <3>2. gui'.job = <<w, "Admin">> /\ gui' \in Thread /\ gui'.pc = "server_id"
      BY <1>2, <2>3, <2>4, <3>1, ListCallType
    <3>3. QED BY <1>2, <2>4, <3>2
  <2>6. cb' \in Thread /\ cb'.pc = cb.pc /\ (cb = Idle => cb' = Idle)
    BY <1>1, <1>3, CallTypes DEF RenderMemberList
  <2>7. DOMAIN window' = DOMAIN window /\ WindowRecord' = WindowRecord
    BY <1>2, <2>2 DEF WindowRecord
  <2>8. Args' = Args /\ Statement' = Statement /\ Thread \subseteq Thread'
    BY <1>2, <2>7, TypesGrow
  <2>9. TypeOK'
    BY <1>2, <1>3, <2>2, <2>5, <2>6, <2>7, <2>8
       DEF TypeOK, RenderMemberList, Statement, WindowRecord
  <2>10. JobsOK'
    BY <2>5, <2>6, <2>7 DEF JobsOK
  <2>11. QED BY <2>9, <2>10
<1>4. CASE RenderAdminList
  <2> DEFINE drawn == [window EXCEPT ![w].admins = gui.result]
             first == IF menus = {} THEN {w} ELSE menus
  <2>1. drawn \in [DOMAIN window -> WindowRecord]
    BY <1>1, <1>2 DEF WindowRecord
  <2>2. \/ window' = drawn /\ UNCHANGED <<up, menus>>
        \/ /\ menus' = first
           /\ up' = \A x \in first : drawn[x].open
           /\ window' = [x \in DOMAIN drawn |->
                           IF x \in first THEN [drawn[x] EXCEPT !.shown = TRUE] ELSE drawn[x]]
    BY <1>4 DEF RenderAdminList, SelectedMenuChange
  <2>3. /\ window' \in [DOMAIN window -> WindowRecord]
        /\ menus' \subseteq DOMAIN window /\ up' \in BOOLEAN
    <3>1. CASE window' = drawn /\ UNCHANGED <<up, menus>>
      BY <1>1, <2>1, <3>1 DEF TypeOK
    <3>2. CASE /\ menus' = first
               /\ up' = \A x \in first : drawn[x].open
               /\ window' = [x \in DOMAIN drawn |->
                    IF x \in first THEN [drawn[x] EXCEPT !.shown = TRUE] ELSE drawn[x]]
      <4>1. \A x \in DOMAIN window :
              drawn[x] \in WindowRecord /\ [drawn[x] EXCEPT !.shown = TRUE] \in WindowRecord
        BY <2>1 DEF WindowRecord
      <4>2. DOMAIN drawn = DOMAIN window
        BY <2>1
      <4> HIDE DEF drawn
      <4>3. window' \in [DOMAIN window -> WindowRecord]
        BY <3>2, <4>1, <4>2
      <4>4. menus' \subseteq DOMAIN window
        BY <1>1, <1>2, <3>2
      <4>5. (\A x \in first : drawn[x].open) \in BOOLEAN
        OBVIOUS
      <4>6. QED BY <3>2, <4>3, <4>4, <4>5
    <3>3. QED BY <2>2, <3>1, <3>2
  <2>4. DOMAIN window' = DOMAIN window /\ WindowRecord' = WindowRecord
    BY <1>2, <2>3 DEF WindowRecord
  <2>5. Args' = Args /\ Statement' = Statement /\ Thread \subseteq Thread'
    BY <1>2, <2>4, TypesGrow
  <2>6. gui' = Idle /\ gui' \in Thread /\ cb' = cb
    BY <1>4, CallTypes DEF RenderAdminList
  <2>7. TypeOK'
    BY <1>1, <1>2, <1>4, <2>3, <2>4, <2>5, <2>6
       DEF TypeOK, RenderAdminList, Statement, WindowRecord
  <2>8. JobsOK'
    BY <2>6, CallTypes DEF JobsOK
  <2>9. QED BY <2>7, <2>8
<1>5. QED BY <1>3, <1>4

\* The windows that are opened, used and closed.
LEMMA TypeWindows ==
  ASSUME TypeOK, JobsOK,
         \/ \E w \in Windows, s \in Servers : OpenWindow(w, s)
         \/ \E w \in DOMAIN window : MakeUserAdmin(w) \/ RemoveUserAdmin(w) \/ CloseWindow(w)
  PROVE  TypeOK' /\ JobsOK'
<1>1. /\ gui \in Thread /\ cb \in Thread /\ window \in [DOMAIN window -> WindowRecord]
      /\ DOMAIN window \subseteq Windows /\ menus \subseteq DOMAIN window
      /\ users \in Seq(UserRow)
  BY DEF TypeOK, WindowRecord
<1>2. ASSUME NEW w \in Windows, NEW s \in Servers, OpenWindow(w, s)
      PROVE  TypeOK' /\ JobsOK'
  <2>1. window' = [x \in DOMAIN window \cup {w} |->
                     IF x = w THEN NewWindow(s) ELSE window[x]]
    BY <1>2 DEF OpenWindow
  <2>2. NewWindow(s) \in WindowRecord
    BY DEF NewWindow, WindowRecord
  <2>3. DOMAIN window' = DOMAIN window \cup {w} /\ UNCHANGED <<users, menus>>
    BY <1>2, <2>1 DEF OpenWindow
  <2>4. window' \in [DOMAIN window' -> WindowRecord] /\ WindowRecord' = WindowRecord
    BY <1>1, <2>1, <2>2, <2>3 DEF WindowRecord
  <2>5. Args' = Args /\ Statement' = Statement /\ Thread \subseteq Thread'
    BY <2>3, TypesGrow
  <2>6. "Member" \in Types
    BY DEF Types
  <2>7. /\ ListCall(w, s, "Member").job = <<w, "Member">>
        /\ ListCall(w, s, "Member").pc = "server_id"
        /\ ListCall(w, s, "Member") \in Thread'
    <3>1. [NoArgs EXCEPT !.server_id = {s}, !.user_type = {"Member"}] \in Args
      BY <2>6, ArgTypes
    <3>2. Idle \in Thread
      BY CallTypes
    <3>3. (cb = Idle) \in BOOLEAN
      OBVIOUS
    <3>4. <<w, "Member">> \in (DOMAIN window') \X Types
      BY <2>3, <2>6
    <3>5. QED
      BY <2>3, <2>5, <3>1, <3>2, <3>3, <3>4 DEF ListCall, Call, Idle, Thread
  <2>8. gui' = ListCall(w, s, "Member") /\ cb' = Overlapped(cb)
    BY <1>2 DEF OpenWindow
  <2>9. cb' \in Thread' /\ cb'.pc = cb.pc /\ (cb = Idle => cb' = Idle)
    BY <1>1, <2>5, <2>8, CallTypes
  <2>10. TypeOK'
    <3>1. DOMAIN window' \subseteq Windows /\ menus' \subseteq DOMAIN window'
      BY <1>1, <2>3
    <3>2. UNCHANGED <<up, users, stmt, updates, requests>>
      BY <1>2 DEF OpenWindow
    <3>3. stmt' \in Statement'
      BY <2>5, <3>2 DEF TypeOK, Statement
    <3>4. QED
      BY <2>4, <2>7, <2>8, <2>9, <3>1, <3>2, <3>3 DEF TypeOK, Statement, WindowRecord
  <2>11. JobsOK'
    BY <2>3, <2>6, <2>7, <2>8, <2>9 DEF JobsOK
  <2>12. QED BY <2>10, <2>11
<1>3. ASSUME NEW w \in DOMAIN window, NEW type \in Types, NEW list, PressButton(w, type, list)
      PROVE  TypeOK' /\ JobsOK'
  <2>1. PICK i : UpdateHostedServerUsers(type, window[w].server_id, users[list[i]].username)
    BY <1>3 DEF PressButton
  <2>2. DOMAIN users' = DOMAIN users /\ users' \in Seq(UserRow) /\ Len(users') = Len(users)
    <3> DEFINE rows == Updated(window[w].server_id, users[list[i]].username)
    <3>1. users' = [r \in DOMAIN users |->
                      IF r \in rows THEN [users[r] EXCEPT !.user_type = type] ELSE users[r]]
      BY <2>1 DEF UpdateHostedServerUsers
    <3> HIDE DEF rows
    <3>2. ASSUME NEW r \in DOMAIN users
          PROVE  [users[r] EXCEPT !.user_type = type] \in UserRow
      <4>1. users[r] \in UserRow
        BY <1>1
      <4>2. QED BY <4>1 DEF UserRow
    <3>3. DOMAIN users' = 1..Len(users) /\ Len(users) \in Nat
      BY <1>1, <3>1
    <3>4. \A r \in 1..Len(users) : users'[r] \in UserRow
      BY <1>1, <3>1, <3>2
    <3>5. users' \in [1..Len(users) -> UserRow]
      BY <1>1, <3>1, <3>3, <3>4
    <3>6. users' \in Seq(UserRow) /\ Len(users') = Len(users)
      BY <3>3, <3>5
    <3>7. QED BY <3>1, <3>6
  <2>3. UNCHANGED <<up, stmt, window, menus, requests>> /\ updates' = updates + 1
        /\ updates < MaxUpdates
    BY <1>3 DEF PressButton
  <2>4. Args' = Args /\ Statement' = Statement /\ Thread \subseteq Thread'
    BY <2>2, <2>3, TypesGrow
  <2>5. PICK s \in Servers : s = window[w].server_id
    BY <1>1 DEF WindowRecord
  <2>6. gui' = ListCall(w, s, "Member") /\ cb' = Overlapped(cb)
    BY <1>3, <2>5 DEF PressButton
  <2>7. "Member" \in Types
    BY DEF Types
  <2>8. /\ gui' \in Thread /\ gui'.pc = "server_id" /\ gui'.job = <<w, "Member">>
    BY <2>6, <2>7, ListCallType
  <2>9. cb' \in Thread /\ cb'.pc = cb.pc /\ (cb = Idle => cb' = Idle)
    BY <1>1, <2>6, CallTypes
  <2>10. updates' \in 0..MaxUpdates
    BY <2>3, SettingsAssumption DEF TypeOK
  <2>11. window' \in [DOMAIN window' -> WindowRecord'] /\ menus' \subseteq DOMAIN window'
         /\ DOMAIN window' \subseteq Windows
    BY <1>1, <2>2, <2>3 DEF WindowRecord
  <2>12. TypeOK'
    BY <2>2, <2>3, <2>4, <2>8, <2>9, <2>10, <2>11 DEF TypeOK, Statement, WindowRecord
  <2>13. JobsOK'
    BY <2>3, <2>7, <2>8, <2>9 DEF JobsOK
  <2>14. QED BY <2>12, <2>13
<1>4. ASSUME NEW w \in DOMAIN window, CloseWindow(w) PROVE TypeOK' /\ JobsOK'
  <2>1. PICK s \in Servers : s = window[w].server_id
    BY <1>1 DEF WindowRecord
  <2>2. window' = [window EXCEPT ![w] = [NewWindow(s) EXCEPT !.open = FALSE]]
    BY <1>4, <2>1 DEF CloseWindow
  <2>3. [NewWindow(s) EXCEPT !.open = FALSE] \in WindowRecord
    <3>1. NewWindow(s) \in WindowRecord
      BY DEF NewWindow, WindowRecord
    <3>2. QED BY <3>1 DEF WindowRecord
  <2>4. window' \in [DOMAIN window -> WindowRecord] /\ DOMAIN window' = DOMAIN window
    BY <1>1, <2>2, <2>3
  <2>5. UNCHANGED <<up, users, stmt, gui, cb, menus, updates, requests>>
    BY <1>4 DEF CloseWindow
  <2>6. Args' = Args /\ Statement' = Statement /\ Thread \subseteq Thread'
        /\ WindowRecord' = WindowRecord
    BY <2>4, <2>5, TypesGrow DEF WindowRecord
  <2>7. TypeOK'
    BY <1>1, <2>4, <2>5, <2>6 DEF TypeOK, Statement, WindowRecord
  <2>8. JobsOK'
    BY <2>4, <2>5 DEF JobsOK
  <2>9. QED BY <2>7, <2>8
<1>5. QED
  BY <1>2, <1>3, <1>4 DEF MakeUserAdmin, RemoveUserAdmin, Types

\* The steps of both threads' calls, and the requests.
LEMMA TypeCalls ==
  ASSUME TypeOK, JobsOK,
         \/ GuiSelect \/ CbSelect \/ CbReturn \/ ReadNullColumn(gui) \/ ReadNullColumn(cb)
         \/ \E s \in Servers, sender \in DOMAIN users \cup {0} : LoadJoinedServerData(s, sender)
  PROVE  TypeOK' /\ JobsOK'
<1>1. gui \in Thread /\ cb \in Thread
  BY DEF TypeOK
<1>2. UNCHANGED <<users, window>>
  BY DEF GuiSelect, CbSelect, CbReturn, ReadNullColumn, LoadJoinedServerData
<1>3. Args' = Args /\ Statement' = Statement /\ Thread \subseteq Thread'
  BY <1>2, TypesGrow
<1>4. CASE GuiSelect
  <2>1. /\ stmt' \in Statement /\ (stmt'.state = "row" <=> stmt'.at # 0)
        /\ gui' \in Thread /\ gui'.job = gui.job /\ gui.pc # "idle" /\ gui'.pc # "idle"
    BY <1>1, <1>4, SelectType DEF GuiSelect
  <2>2. UNCHANGED <<up, cb, menus, updates, requests>>
    BY <1>4 DEF GuiSelect
  <2>3. TypeOK'
    BY <1>2, <1>3, <2>1, <2>2 DEF TypeOK, Statement
  <2>4. JobsOK'
    BY <1>2, <2>1, <2>2 DEF JobsOK
  <2>5. QED BY <2>3, <2>4
<1>5. CASE CbSelect
  <2>1. /\ stmt' \in Statement /\ (stmt'.state = "row" <=> stmt'.at # 0)
        /\ cb' \in Thread /\ cb'.pc # "idle"
    BY <1>1, <1>5, SelectType DEF CbSelect
  <2>2. UNCHANGED <<up, gui, menus, updates, requests>>
    BY <1>5 DEF CbSelect
  <2>3. TypeOK'
    BY <1>2, <1>3, <2>1, <2>2 DEF TypeOK, Statement
  <2>4. JobsOK'
    BY <1>2, <2>1, <2>2 DEF JobsOK
  <2>5. QED BY <2>3, <2>4
<1>6. CASE CbReturn \/ ReadNullColumn(gui) \/ ReadNullColumn(cb)
  <2>1. /\ cb' \in {cb, Idle} /\ up' \in BOOLEAN
        /\ UNCHANGED <<stmt, gui, menus, updates, requests>>
    BY <1>6 DEF CbReturn, ReadNullColumn, TypeOK
  <2>2. cb' \in Thread /\ (cb'.pc = "idle" => cb' = Idle)
    BY <1>1, <2>1, CallTypes DEF JobsOK
  <2>3. TypeOK'
    BY <1>2, <1>3, <2>1, <2>2 DEF TypeOK, Statement
  <2>4. JobsOK'
    BY <1>2, <2>1, <2>2 DEF JobsOK
  <2>5. QED BY <2>3, <2>4
<1>7. ASSUME NEW s \in Servers, NEW sender \in DOMAIN users \cup {0},
             LoadJoinedServerData(s, sender)
      PROVE  TypeOK' /\ JobsOK'
  <2> DEFINE args == [NoArgs EXCEPT !.server_id = {s}, !.ip_address = {sender}]
  <2>1. args \in Args /\ cb' = Call(args, <<>>, gui) /\ gui' = Overlapped(gui)
    BY <1>7, ArgTypes DEF LoadJoinedServerData
  <2> HIDE DEF args
  <2>2. <<>> \in {<<>>} \cup ((DOMAIN window) \X Types)
    OBVIOUS
  <2>3. cb' \in Thread /\ cb'.pc = "server_id"
    BY <2>1, <2>2, CallTypes
  <2>4. /\ gui' \in Thread /\ gui'.pc = gui.pc /\ gui'.job = gui.job
        /\ gui = Idle => gui' = Idle
    BY <1>1, <2>1, CallTypes
  <2>5. UNCHANGED <<up, stmt, menus, updates>> /\ requests' \in 0..MaxRequests
    <3>1. UNCHANGED <<up, stmt, menus, updates>>
      BY <1>7 DEF LoadJoinedServerData
    <3>2. requests' = requests + 1 /\ requests < MaxRequests
      BY <1>7 DEF LoadJoinedServerData
    <3>3. requests \in 0..MaxRequests /\ MaxRequests \in Nat
      BY SettingsAssumption DEF TypeOK
    <3>4. requests' \in 0..MaxRequests
      BY <3>2, <3>3
    <3>5. QED BY <3>1, <3>4
  <2>6. TypeOK'
    BY <1>2, <1>3, <2>3, <2>4, <2>5 DEF TypeOK, Statement
  <2>7. JobsOK'
    BY <1>2, <2>3, <2>4 DEF JobsOK
  <2>8. QED BY <2>6, <2>7
<1>8. QED BY <1>4, <1>5, <1>6, <1>7

\* Every step keeps the types.
LEMMA TypeStep == TypeOK /\ JobsOK /\ [Next]_vars => (TypeOK /\ JobsOK)'
<1> SUFFICES ASSUME TypeOK, JobsOK, [Next]_vars PROVE TypeOK' /\ JobsOK'
  OBVIOUS
<1>1. CASE UNCHANGED vars
  <2>1. Thread' = Thread /\ Args' = Args
    BY <1>1 DEF vars, Thread, Args
  <2>2. QED BY <1>1, <2>1 DEF vars, TypeOK, JobsOK
<1>2. QED
  BY <1>1, TypeLists, TypeWindows, TypeCalls DEF Next, GuiStep, CbStep

\* The first state has the types.
LEMMA TypeInit == Init => TypeOK /\ JobsOK
<1> SUFFICES ASSUME Init PROVE TypeOK /\ JobsOK
  OBVIOUS
<1>1. Idle \in Thread /\ gui = Idle /\ cb = Idle /\ Idle.pc = "idle"
  BY CallTypes DEF Init
<1>2. NoArgs \in Args
  BY DEF NoArgs, Args
<1>3. DOMAIN window = {} /\ window \in [{} -> WindowRecord]
  BY DEF Init
<1>4. /\ users \in Seq(UserRow) /\ Len(users) = Len(InitialUsers)
      /\ 0 \in 0..MaxUpdates /\ 0 \in 0..MaxRequests
  BY SettingsAssumption DEF Init
<1>5. /\ stmt \in Statement /\ stmt.state = "ready" /\ stmt.at = 0
      /\ menus = {} /\ up = TRUE /\ updates = 0 /\ requests = 0
  BY <1>2 DEF Init, Statement
<1>6. QED
  BY <1>1, <1>3, <1>4, <1>5 DEF TypeOK, JobsOK, Statement, WindowRecord

\* For any number of windows, servers, users, presses and requests every variable of the
\* windows, of both threads and of the statement that they share has its type.
THEOREM TypeCorrect == Spec => []TypeOK
<1>1. Spec => [](TypeOK /\ JobsOK)
  BY TypeInit, TypeStep, PTL DEF Spec
<1>2. QED BY <1>1, PTL

-----------------------------------------------------------------------------
(* A call that is alone is exact *)

\* A call begins: it is alone only without the other, and the other is alone no more.
LEMMA CallBegins ==
  ASSUME TypeOK, JobsOK, Calls, stmt' = stmt,
         NEW args \in Args, NEW job \in {<<>>} \cup ((DOMAIN window') \X Types),
         DOMAIN users' = DOMAIN users,
         \/ gui.pc \notin Busy /\ gui' = Call(args, job, cb) /\ cb' = Overlapped(cb)
         \/ cb.pc \notin Busy /\ cb' = Call(args, job, gui) /\ gui' = Overlapped(gui)
  PROVE  Calls'
<1>1. gui \in Thread /\ cb \in Thread
  BY DEF TypeOK
<1>2. Idle.pc = "idle" /\ Idle.alone = TRUE /\ Idle.result = <<>>
  BY DEF Idle
<1>3. ASSUME NEW t \in Thread
      PROVE  /\ Overlapped(t).pc = t.pc
             /\ t = Idle => Overlapped(t) = Idle
             /\ t # Idle => ~Overlapped(t).alone
  BY CallTypes
<1>4. ASSUME NEW other
      PROVE  LET t == Call(args, job, other)
             IN  t.pc = "server_id" /\ t.result = <<>> /\ (t.alone <=> other = Idle)
  BY DEF Call, Idle
<1>5. CASE gui.pc \notin Busy /\ gui' = Call(args, job, cb) /\ cb' = Overlapped(cb)
  <2>1. /\ gui'.pc = "server_id" /\ gui'.result = <<>> /\ (gui'.alone <=> cb = Idle)
        /\ cb'.pc = cb.pc /\ (cb = Idle => cb' = Idle) /\ (cb # Idle => ~cb'.alone)
    BY <1>1, <1>3, <1>4, <1>5
  <2>2. stmt'.state # "ready" => cb'.pc \in Busy
    BY <1>5, <2>1 DEF Calls
  <2>3. Exact(gui, stmt)'
    BY <2>1 DEF Exact, Binding, Busy
  <2>4. cb'.alone => Exact(cb, stmt)'
    BY <1>2, <2>1 DEF Exact, Binding, Busy
  <2>5. gui' # Idle /\ cb' # Idle => ~gui'.alone /\ ~cb'.alone
    BY <2>1
  <2>6. QED BY <2>2, <2>3, <2>4, <2>5 DEF Calls
<1>6. CASE cb.pc \notin Busy /\ cb' = Call(args, job, gui) /\ gui' = Overlapped(gui)
  <2>1. /\ cb'.pc = "server_id" /\ cb'.result = <<>> /\ (cb'.alone <=> gui = Idle)
        /\ gui'.pc = gui.pc /\ (gui = Idle => gui' = Idle) /\ (gui # Idle => ~gui'.alone)
    BY <1>1, <1>3, <1>4, <1>6
  <2>2. stmt'.state # "ready" => gui'.pc \in Busy
    BY <1>6, <2>1 DEF Calls
  <2>3. Exact(cb, stmt)'
    BY <2>1 DEF Exact, Binding, Busy
  <2>4. gui'.alone => Exact(gui, stmt)'
    BY <1>2, <2>1 DEF Exact, Binding, Busy
  <2>5. gui' # Idle /\ cb' # Idle => ~gui'.alone /\ ~cb'.alone
    BY <2>1
  <2>6. QED BY <2>2, <2>3, <2>4, <2>5 DEF Calls
<1>7. QED BY <1>5, <1>6

\* Calls is inductive.
LEMMA CallsStep ==
  ASSUME TypeOK, JobsOK, Calls, [Next]_vars
  PROVE  Calls'
<1>1. gui \in Thread /\ cb \in Thread /\ window \in [DOMAIN window -> WindowRecord]
  BY DEF TypeOK, WindowRecord
<1>2. Idle.pc = "idle" /\ Idle.alone = TRUE
  BY DEF Idle
<1>3. ASSUME users' = users
      PROVE  /\ Exact(gui', stmt') => Exact(gui, stmt)'
             /\ Exact(cb', stmt') => Exact(cb, stmt)'
  BY <1>3 DEF Exact, Selected, Lists
<1>4. ASSUME UNCHANGED <<users, stmt, gui, cb>> PROVE Calls'
  BY <1>4 DEF Calls, Exact, Selected
<1>5. CASE GuiSelect
  <2>1. SelectStep(gui, gui') /\ UNCHANGED <<users, cb>>
    BY <1>5 DEF GuiSelect
  <2>2. gui'.alone = gui.alone /\ gui.pc # "idle" /\ gui'.pc # "idle"
    BY <1>1, <2>1, SelectType
  <2>3. gui # Idle
    BY <1>2, <2>2
  <2>4. gui'.alone => Exact(gui, stmt)'
    <3>1. SUFFICES ASSUME gui.alone PROVE Exact(gui', stmt')
      BY <1>3, <2>1, <2>2
    <3>2. cb = Idle
      BY <2>3, <3>1 DEF Calls
    <3>3. gui.pc \in Binding => stmt.state = "ready"
      BY <1>2, <3>2 DEF Calls, Binding, Busy
    <3>4. Exact(gui, stmt)
      BY <3>1 DEF Calls
    <3>5. QED BY <1>1, <2>1, <3>3, <3>4, SelectExact
  <2>5. cb'.alone => Exact(cb, stmt)'
    <3>1. SUFFICES ASSUME cb.alone PROVE Exact(cb', stmt')
      BY <1>3, <2>1
    <3>2. cb' = Idle
      BY <2>1, <2>3, <3>1 DEF Calls
    <3>3. QED BY <1>2, <3>2 DEF Exact, Binding, Busy
  <2>6. stmt'.state # "ready" => gui'.pc \in Busy \/ cb'.pc \in Busy
    <3>1. SUFFICES ASSUME stmt'.state # "ready", gui'.pc \notin Busy PROVE cb.pc \in Busy
      BY <2>1
    <3>2. stmt.state # "ready" /\ gui.pc \notin Busy
      BY <1>1, <2>1, <3>1, SelectReady
    <3>3. QED BY <3>2 DEF Calls
  <2>7. gui' # Idle /\ cb' # Idle => ~gui'.alone /\ ~cb'.alone
    BY <2>1, <2>2, <2>3 DEF Calls
  <2>8. QED BY <2>4, <2>5, <2>6, <2>7 DEF Calls
<1>6. CASE CbSelect
  <2>1. SelectStep(cb, cb') /\ UNCHANGED <<users, gui>>
    BY <1>6 DEF CbSelect
  <2>2. cb'.alone = cb.alone /\ cb.pc # "idle" /\ cb'.pc # "idle"
    BY <1>1, <2>1, SelectType
  <2>3. cb # Idle
    BY <1>2, <2>2
  <2>4. cb'.alone => Exact(cb, stmt)'
    <3>1. SUFFICES ASSUME cb.alone PROVE Exact(cb', stmt')
      BY <1>3, <2>1, <2>2
    <3>2. gui = Idle
      BY <2>3, <3>1 DEF Calls
    <3>3. cb.pc \in Binding => stmt.state = "ready"
      BY <1>2, <3>2 DEF Calls, Binding, Busy
    <3>4. Exact(cb, stmt)
      BY <3>1 DEF Calls
    <3>5. QED BY <1>1, <2>1, <3>3, <3>4, SelectExact
  <2>5. gui'.alone => Exact(gui, stmt)'
    <3>1. SUFFICES ASSUME gui.alone PROVE Exact(gui', stmt')
      BY <1>3, <2>1
    <3>2. gui' = Idle
      BY <2>1, <2>3, <3>1 DEF Calls
    <3>3. QED BY <1>2, <3>2 DEF Exact, Binding, Busy
  <2>6. stmt'.state # "ready" => gui'.pc \in Busy \/ cb'.pc \in Busy
    <3>1. SUFFICES ASSUME stmt'.state # "ready", cb'.pc \notin Busy PROVE gui.pc \in Busy
      BY <2>1
    <3>2. stmt.state # "ready" /\ cb.pc \notin Busy
      BY <1>1, <2>1, <3>1, SelectReady
    <3>3. QED BY <3>2 DEF Calls
  <2>7. gui' # Idle /\ cb' # Idle => ~gui'.alone /\ ~cb'.alone
    BY <2>1, <2>2, <2>3 DEF Calls
  <2>8. QED BY <2>4, <2>5, <2>6, <2>7 DEF Calls
<1>7. CASE CbReturn
  <2>1. cb.pc = "return" /\ cb' = Idle /\ UNCHANGED <<users, stmt, gui>>
    BY <1>7 DEF CbReturn
  <2>2. gui'.alone => Exact(gui, stmt)'
    BY <1>3, <2>1 DEF Calls
  <2>3. QED BY <1>2, <2>1, <2>2 DEF Calls, Exact, Binding, Busy
<1>8. CASE RenderAdminList
  <2>1. gui.pc = "return" /\ gui' = Idle /\ UNCHANGED <<users, stmt, cb>>
    BY <1>8 DEF RenderAdminList
  <2>2. cb'.alone => Exact(cb, stmt)'
    BY <1>3, <2>1 DEF Calls
  <2>3. QED BY <1>2, <2>1, <2>2 DEF Calls, Exact, Binding, Busy
<1>9. ASSUME NEW w \in DOMAIN window', NEW s \in Servers, NEW type \in Types,
             gui.pc \notin Busy, gui' = ListCall(w, s, type), cb' = Overlapped(cb),
             stmt' = stmt, DOMAIN users' = DOMAIN users
      PROVE  Calls'
  <2> DEFINE args == [NoArgs EXCEPT !.server_id = {s}, !.user_type = {type}]
             job == <<w, type>>
  <2>1. args \in Args /\ job \in {<<>>} \cup ((DOMAIN window') \X Types)
    BY ArgTypes
  <2>2. gui' = Call(args, job, cb)
    BY <1>9 DEF ListCall
  <2> HIDE DEF args, job
  <2>3. QED BY <1>9, <2>1, <2>2, CallBegins
<1>10. "Member" \in Types /\ "Admin" \in Types /\ Idle.pc \notin Busy
  BY <1>2 DEF Types, Busy
<1>11. ASSUME NEW w \in Windows, NEW s \in Servers, OpenWindow(w, s) PROVE Calls'
  <2>1. w \in DOMAIN window'
    BY <1>11 DEF OpenWindow
  <2>2. /\ gui = Idle /\ gui' = ListCall(w, s, "Member") /\ cb' = Overlapped(cb)
        /\ stmt' = stmt /\ users' = users
    BY <1>11 DEF OpenWindow
  <2>3. QED BY <1>9, <1>10, <2>1, <2>2
<1>12. CASE RenderMemberList
  <2> DEFINE w == gui.job[1]
  <2>1. gui.pc = "return" /\ w \in DOMAIN window
    BY <1>1, <1>12 DEF RenderMemberList, JobsOK
  <2>2. PICK s \in Servers : s = window[w].server_id
    BY <1>1, <2>1 DEF WindowRecord
  <2>3. /\ gui' = ListCall(w, s, "Admin") /\ cb' = Overlapped(cb)
        /\ stmt' = stmt /\ users' = users
    BY <1>12, <2>2 DEF RenderMemberList
  <2>4. w \in DOMAIN window'
    BY <1>12, <2>1 DEF RenderMemberList
  <2>5. QED BY <1>9, <1>10, <2>1, <2>3, <2>4 DEF Busy
<1>13. ASSUME NEW w \in DOMAIN window, NEW type, NEW list, PressButton(w, type, list)
       PROVE  Calls'
  <2>1. PICK s \in Servers : s = window[w].server_id
    BY <1>1 DEF WindowRecord
  <2>2. /\ gui = Idle /\ gui' = ListCall(w, s, "Member") /\ cb' = Overlapped(cb)
        /\ stmt' = stmt /\ window' = window
    BY <1>13, <2>1 DEF PressButton
  <2>3. DOMAIN users' = DOMAIN users
    BY <1>13 DEF PressButton, UpdateHostedServerUsers
  <2>4. QED BY <1>9, <1>10, <2>2, <2>3
<1>14. ASSUME NEW s \in Servers, NEW sender \in DOMAIN users \cup {0},
              LoadJoinedServerData(s, sender)
       PROVE  Calls'
  <2> DEFINE args == [NoArgs EXCEPT !.server_id = {s}, !.ip_address = {sender}]
  <2>1. /\ args \in Args /\ cb' = Call(args, <<>>, gui) /\ gui' = Overlapped(gui)
        /\ cb = Idle /\ stmt' = stmt /\ users' = users
    BY <1>14, ArgTypes DEF LoadJoinedServerData
  <2> HIDE DEF args
  <2>2. <<>> \in {<<>>} \cup ((DOMAIN window') \X Types)
    OBVIOUS
  <2>3. QED BY <1>10, <2>1, <2>2, CallBegins
<1>15. ASSUME \/ UNCHANGED vars \/ ReadNullColumn(gui) \/ ReadNullColumn(cb)
              \/ \E w \in DOMAIN window : CloseWindow(w)
       PROVE  Calls'
  BY <1>4, <1>15 DEF vars, ReadNullColumn, CloseWindow
<1>16. QED
  BY <1>5, <1>6, <1>7, <1>8, <1>11, <1>12, <1>13, <1>14, <1>15
     DEF Next, GuiStep, CbStep, MakeUserAdmin, RemoveUserAdmin

\* For every instance: a call of SelectHostedServerUsers that no call of the other thread
\* overlapped returns exactly its rows, although each thread's calls, windows that are
\* open and rows that change leave their traces in the one statement.
THEOREM AloneIsExact == Spec => []ExactWhenAlone
<1>1. Init => Calls
  BY DEF Init, Calls, Exact, Idle, Binding, Busy
<1>2. TypeOK /\ JobsOK /\ Calls /\ [Next]_vars => Calls'
  BY CallsStep
<1>3. Calls => ExactWhenAlone
  BY DEF Calls, Exact, ExactWhenAlone, IsSelection, Lists
<1>4. QED BY <1>1, <1>2, <1>3, TypeInit, TypeStep, PTL DEF Spec
=============================================================================
