-------------------------- MODULE WebClientProofs ---------------------------
(***************************************************************************)
(* For any tabs, users, sessions and previews: types hold, an email has    *)
(* one account however registrations overlap, a mutation runs under the    *)
(* session whose CSRF cookie the page read when it composed the call, and  *)
(* a preview polls boundedly often.                                        *)
(***************************************************************************)
EXTENDS WebClient, WellFoundedInduction, TLAPS

Users == Emails \cup {Nobody}
Statuses == {"unused", "queued", "succeeded", "failed", "deleted"}
PcSet == {"idle", "composed", "sent", "admitted", "hashed", "account", "inserted", "answered", "wait"}
Kinds == {"none", "me", "login", "register", "logout", "preview", "poll"}

CallType == [pc : PcSet, kind : Kinds, email : Users, csrf : 0..MaxSessions, token : 0..MaxSessions,
             as : Users, row : 0..MaxPreviews, polls : 0..(MaxPolls - 1), ok : BOOLEAN,
             cookie : {"keep", "set", "clear"}, status : {"none"} \cup Statuses]
SessionType == [owner : Users, endedBy : 0..MaxSessions, state : {"unused", "live", "expired", "deleted"}]
TabType == [page : {"login", "register", "app"}, user : Users, loading : BOOLEAN, previewing : BOOLEAN]
PreviewType == [owner : Users, csrf : 0..MaxSessions, status : Statuses]

(* A session that was once opened for a user. *)
Opened(n, user, table) == n \in Sessions /\ table[n].state # "unused" /\ table[n].owner = user

(* A call that was let through for a mutation has proved that it was composed *)
(* under the session it runs under; one that polls knows its row.             *)
CallInv(s, call, table, rows) ==
  /\ call \in CallType
  /\ s = "preview" /\ call.pc # "idle" => call.kind \in {"preview", "poll"}
  /\ call.kind = "poll" \/ call.pc \in {"inserted", "wait"} => call.row \in Previews
  /\ call.kind = "preview" /\ call.pc = "answered" /\ call.ok => call.row \in Previews
  /\ call.pc = "inserted" => rows[call.row].status # "unused"
  /\ call.pc \in {"hashed", "account"} => call.kind \in {"login", "register"}
  /\ call.pc = "admitted" /\ NeedsCsrf(call.kind) =>
       call.token = call.csrf /\ Opened(call.csrf, call.as, table)

AccountsInv == accounts \in [Emails -> Nat] /\ OneAccountPerEmail
SessionsInv == /\ sessions \in [Sessions -> SessionType]
               /\ \A n \in Sessions : sessions[n].state = "deleted" => sessions[n].endedBy = n
PreviewsInv == /\ previews \in [Previews -> PreviewType]
               /\ \A r \in Previews : previews[r].status # "unused" =>
                    Opened(previews[r].csrf, previews[r].owner, sessions)
CallsInv == /\ calls \in [Tabs -> [Slots -> CallType]]
            /\ \A t \in Tabs, s \in Slots : CallInv(s, calls[t][s], sessions, previews)
TabsInv == /\ jar \in 0..MaxSessions /\ acts \in 0..MaxActs
           /\ tabs \in [Tabs -> TabType]
           /\ \A t \in Tabs : tabs[t].previewing <=> calls[t]["preview"].pc # "idle"

IInv == AccountsInv /\ SessionsInv /\ PreviewsInv /\ CallsInv /\ TabsInv

(* No session changes hands, and no row of either table is used twice. *)
TablesKept ==
  /\ \A n \in Sessions : sessions[n].state # "unused" =>
       sessions'[n].state # "unused" /\ sessions'[n].owner = sessions[n].owner
  /\ \A r \in Previews : previews[r].status # "unused" => previews'[r].status # "unused"

-----------------------------------------------------------------------------
LEMMA MinIsMember ==
  ASSUME NEW S \in SUBSET Nat, S # {}
  PROVE  Min(S) \in S
<1>1. PICK t \in S : \A u \in S : ~(<<u, t>> \in OpToRel(<, Nat))
  BY NatLessThanWellFounded, WFMin, Zenon
<1>2. \A u \in S : ~(u < t)
  BY <1>1 DEF OpToRel
<1>3. \A u \in S : t <= u
  BY <1>2
<1> QED
  BY <1>3 DEF Min

LEMMA IdleIs ==
  /\ Idle \in CallType /\ Idle.pc = "idle" /\ Idle.kind = "none" /\ Idle.row = 0 /\ Idle.polls = 0
  /\ Idle.ok = FALSE
BY WebConstants DEF Idle, CallType, Users, PcSet, Kinds, Statuses, NoSession

LEMMA IdleKeeps == ASSUME NEW s, NEW table, NEW rows PROVE CallInv(s, Idle, table, rows)
BY IdleIs DEF CallInv

(* A new call has read the cookie, and nothing else. *)
LEMMA ComposedIs ==
  ASSUME NEW kind \in Kinds, jar \in 0..MaxSessions
  PROVE  /\ Composed(kind) \in CallType /\ Composed(kind).pc = "composed"
         /\ Composed(kind).kind = kind /\ Composed(kind).row = 0
BY IdleIs DEF Composed, CallType, PcSet

LEMMA OpenedStays ==
  ASSUME TablesKept, NEW n, NEW user, Opened(n, user, sessions)
  PROVE  Opened(n, user, sessions')
BY DEF TablesKept, Opened

LEMMA CallStays ==
  ASSUME TablesKept, NEW s, NEW call, CallInv(s, call, sessions, previews)
  PROVE  CallInv(s, call, sessions', previews')
BY OpenedStays DEF CallInv, TablesKept

LEMMA Untouched == ASSUME UNCHANGED <<sessions, previews>> PROVE TablesKept
BY DEF TablesKept

LEMMA PutIs ==
  ASSUME CallsInv, NEW t \in Tabs, NEW s \in Slots, NEW call \in CallType, Put(t, s, call)
  PROVE  /\ calls' \in [Tabs -> [Slots -> CallType]]
         /\ calls'[t][s] = call
         /\ \A u \in Tabs, r \in Slots : u # t \/ r # s => calls'[u][r] = calls[u][r]
BY DEF CallsInv, Put

LEMMA PutKeeps ==
  ASSUME CallsInv, TablesKept, NEW t \in Tabs, NEW s \in Slots, NEW call, Put(t, s, call),
         CallInv(s, call, sessions', previews')
  PROVE  CallsInv'
<1>1. call \in CallType
  BY DEF CallInv
<1>2. /\ calls' \in [Tabs -> [Slots -> CallType]]
      /\ calls'[t][s] = call
      /\ \A u \in Tabs, r \in Slots : u # t \/ r # s => calls'[u][r] = calls[u][r]
  BY <1>1, PutIs
<1>3. ASSUME NEW u \in Tabs, NEW r \in Slots PROVE CallInv(r, calls'[u][r], sessions', previews')
  <2>1. CASE u = t /\ r = s
    BY <1>2, <2>1
  <2>2. CASE u # t \/ r # s
    <3>1. CallInv(r, calls[u][r], sessions, previews) /\ calls'[u][r] = calls[u][r]
      BY <1>2, <2>2 DEF CallsInv
    <3> QED
      BY <3>1, CallStays
  <2> QED
    BY <2>1, <2>2
<1> QED
  BY <1>2, <1>3 DEF CallsInv

(* A call that goes on in the server or on its way leaves the tabs alone. *)
LEMMA CallStep ==
  ASSUME IInv, TablesKept, NEW t \in Tabs, NEW s \in Slots, NEW call, Put(t, s, call),
         calls[t][s].pc # "idle", call.pc # "idle", CallInv(s, call, sessions', previews'), Browser,
         AccountsInv', SessionsInv', PreviewsInv'
  PROVE  IInv'
<1>1. CallsInv'
  BY PutKeeps DEF IInv
<1>2. call \in CallType
  BY DEF CallInv
<1>3. /\ calls'[t][s] = call
      /\ \A u \in Tabs, r \in Slots : u # t \/ r # s => calls'[u][r] = calls[u][r]
  BY <1>2, PutIs DEF IInv
<1>4. \A u \in Tabs : calls'[u]["preview"].pc # "idle" <=> calls[u]["preview"].pc # "idle"
  BY <1>3 DEF Slots
<1>5. TabsInv'
  BY <1>4 DEF IInv, TabsInv, Browser
<1> QED
  BY <1>1, <1>5 DEF IInv

LEMMA RowsStay ==
  ASSUME IInv, UNCHANGED <<accounts, sessions, previews>>
  PROVE  TablesKept /\ AccountsInv' /\ SessionsInv' /\ PreviewsInv'
BY Untouched DEF IInv, AccountsInv, OneAccountPerEmail, SessionsInv, PreviewsInv, Opened

LEMMA QuietStep ==
  ASSUME IInv, NEW t \in Tabs, NEW s \in Slots, NEW call, Put(t, s, call),
         calls[t][s].pc # "idle", call.pc # "idle", CallInv(s, call, sessions, previews), Browser, Server
  PROVE  IInv'
<1>1. /\ TablesKept /\ AccountsInv' /\ SessionsInv' /\ PreviewsInv'
      /\ sessions' = sessions /\ previews' = previews
  BY RowsStay DEF Server
<1> QED
  BY <1>1, CallStep

(* An answer needs to account for a row only when it is that of a preview. *)
LEMMA AnswerKeeps ==
  ASSUME NEW s, NEW call, NEW table, NEW rows, CallInv(s, call, table, rows), call.pc # "idle", NEW ok \in BOOLEAN,
         ok /\ call.kind = "preview" => call.row \in Previews
  PROVE  LET answer == [call EXCEPT !.pc = "answered", !.ok = ok]
         IN CallInv(s, answer, table, rows) /\ answer.pc # "idle"
<1> DEFINE answer == [call EXCEPT !.pc = "answered", !.ok = ok]
<1>1. /\ answer \in CallType /\ answer.pc = "answered" /\ answer.ok = ok /\ answer.kind = call.kind
      /\ answer.row = call.row
  BY DEF CallInv, CallType, PcSet
<1> HIDE DEF answer
<1>2. CallInv(s, answer, table, rows)
  BY <1>1 DEF CallInv
<1> QED
  BY <1>1, <1>2 DEF answer

LEMMA RefuseKeeps ==
  ASSUME IInv, NEW t \in Tabs, NEW s \in Slots, calls[t][s].pc # "idle", Refuse(t, s), Browser, Server
  PROVE  IInv'
<1>1. CallInv(s, calls[t][s], sessions, previews)
  BY DEF IInv, CallsInv
<1>2. Put(t, s, [calls[t][s] EXCEPT !.pc = "answered", !.ok = FALSE])
  BY DEF Refuse, Answer
<1> QED
  BY <1>1, <1>2, AnswerKeeps, QuietStep

-----------------------------------------------------------------------------
(* The steps of the server. *)
LEMMA AnswerIs ==
  ASSUME CallsInv, TablesKept, NEW t \in Tabs, NEW s \in Slots, calls[t][s].pc # "idle", NEW ok \in BOOLEAN,
         ok /\ calls[t][s].kind = "preview" => calls[t][s].row \in Previews, Answer(t, s, ok)
  PROVE  \E call : Put(t, s, call) /\ call.pc # "idle" /\ CallInv(s, call, sessions', previews')
<1> DEFINE answer == [calls[t][s] EXCEPT !.pc = "answered", !.ok = ok]
<1>1. CallInv(s, calls[t][s], sessions', previews')
  BY CallStays DEF CallsInv
<1>2. CallInv(s, answer, sessions', previews') /\ answer.pc # "idle"
  BY <1>1, AnswerKeeps
<1>3. Put(t, s, answer)
  BY DEF Answer
<1> QED
  BY <1>2, <1>3

LEMMA AdmitKeeps == ASSUME IInv, NEW t \in Tabs, NEW s \in Slots, Admit(t, s) PROVE IInv'
<1> DEFINE call == calls[t][s]
           lets == (NeedsCsrf(call.kind) => SafeEqual(call)) /\ (NeedsSession(call.kind) => Live(call.token))
<1>1. call.pc = "sent" /\ CallInv(s, call, sessions, previews) /\ Browser /\ Server
  BY DEF Admit, IInv, CallsInv
<1>2. CASE ~lets
  <2>1. Refuse(t, s)
    BY <1>2 DEF Admit
  <2> QED
    BY <1>1, <2>1, RefuseKeeps
<1>3. CASE lets
  <2>1. PICK ok \in BOOLEAN : ok = (call.kind = "me")
    OBVIOUS
  <2>2. PICK as \in Users : as = IF NeedsSession(call.kind) THEN sessions[call.token].owner ELSE Nobody
    <3>1. NeedsSession(call.kind) => sessions[call.token].owner \in Users
      BY <1>1, <1>3 DEF Live, NoSession, CallInv, CallType, Sessions, IInv, SessionsInv, SessionType
    <3> QED
      BY <3>1 DEF Users
  <2>3. PICK pc \in {"answered", "admitted"} : pc = IF call.kind = "me" THEN "answered" ELSE "admitted"
    OBVIOUS
  <2> DEFINE new == [call EXCEPT !.pc = pc, !.ok = ok, !.as = as]
  <2>4. Put(t, s, new)
    <3>1. Put(t, s, [call EXCEPT !.pc = IF call.kind = "me" THEN "answered" ELSE "admitted",
                         !.ok = call.kind = "me",
                         !.as = IF NeedsSession(call.kind) THEN sessions[call.token].owner ELSE Nobody])
      BY <1>3 DEF Admit
    <3> QED
      BY <2>1, <2>2, <2>3, <3>1, Zenon
  <2>5. /\ new \in CallType /\ new.pc = pc /\ new.ok = ok /\ new.as = as /\ new.kind = call.kind
        /\ new.row = call.row /\ new.csrf = call.csrf /\ new.token = call.token
    BY <1>1 DEF CallInv, CallType, PcSet
  <2> HIDE DEF new
  <2>6. new.pc = "admitted" /\ NeedsCsrf(new.kind) =>
          new.token = new.csrf /\ Opened(new.csrf, new.as, sessions)
    <3> SUFFICES ASSUME pc = "admitted", NeedsCsrf(call.kind)
                 PROVE  call.token = call.csrf /\ Opened(call.csrf, as, sessions)
      BY <2>5
    <3>1. NeedsSession(call.kind) /\ SafeEqual(call) /\ Live(call.token)
      BY <1>3 DEF NeedsCsrf, NeedsSession
    <3> QED
      BY <1>1, <2>2, <3>1 DEF SafeEqual, Live, Opened, NoSession, CallInv, CallType, Sessions
  <2>7. CallInv(s, new, sessions, previews)
    <3>1. new.kind = "preview" => new.pc # "answered"
      BY <2>3, <2>5
    <3> QED
      BY <1>1, <2>5, <2>6, <3>1 DEF CallInv
  <2> QED
    BY <1>1, <2>3, <2>4, <2>5, <2>7, QuietStep
<1> QED
  BY <1>2, <1>3

(* A step that only moves the call on, to where no row is needed. *)
LEMMA StepKeeps ==
  ASSUME NEW s, NEW call, NEW table, NEW rows, CallInv(s, call, table, rows), call.kind \in {"login", "register"},
         NEW pc \in {"hashed", "account"}, call.pc # "idle"
  PROVE  LET new == [call EXCEPT !.pc = pc] IN CallInv(s, new, table, rows) /\ new.pc # "idle"
<1> DEFINE new == [call EXCEPT !.pc = pc]
<1>1. new \in CallType /\ new.pc = pc /\ new.kind = call.kind
  BY DEF CallInv, CallType, PcSet
<1> HIDE DEF new
<1>2. CallInv(s, new, table, rows)
  BY <1>1 DEF CallInv
<1> QED
  BY <1>1, <1>2 DEF new

LEMMA SignKeeps ==
  ASSUME IInv, NEW t \in Tabs, NEW s \in Slots, Login(t, s) \/ Register(t, s) PROVE IInv'
<1>1. /\ calls[t][s].pc = "admitted" /\ calls[t][s].kind \in {"login", "register"} /\ Browser /\ Server
      /\ Refuse(t, s) \/ \E pc \in {"hashed", "account"} : Step(t, s, pc)
  BY DEF Login, Register, Is, Pc
<1>2. CASE Refuse(t, s)
  BY <1>1, <1>2, RefuseKeeps
<1>3. ASSUME NEW pc \in {"hashed", "account"}, Step(t, s, pc) PROVE IInv'
  <2>1. CallInv(s, calls[t][s], sessions, previews)
    BY DEF IInv, CallsInv
  <2>2. Put(t, s, [calls[t][s] EXCEPT !.pc = pc])
    BY <1>3 DEF Step
  <2> QED
    BY <1>1, <2>1, <2>2, StepKeeps, QuietStep
<1> QED
  BY <1>1, <1>2, <1>3

LEMMA InsertUserKeeps ==
  ASSUME IInv, NEW t \in Tabs, NEW s \in Slots, InsertUser(t, s) PROVE IInv'
<1> DEFINE email == calls[t][s].email
<1>1. calls[t][s].pc = "hashed" /\ Browser /\ UNCHANGED <<sessions, previews>>
  BY DEF InsertUser, Pc
<1>2. CASE accounts[email] > 0
  <2>1. Refuse(t, s) /\ Server
    BY <1>2 DEF InsertUser, Server
  <2> QED
    BY <1>1, <2>1, RefuseKeeps
<1>3. CASE ~(accounts[email] > 0)
  <2>1. accounts' = [accounts EXCEPT ![email] = accounts[email] + 1] /\ Step(t, s, "account")
    BY <1>3 DEF InsertUser
  <2>2. AccountsInv'
    <3>1. accounts \in [Emails -> Nat] /\ \A e \in Emails : accounts[e] <= 1
      BY DEF IInv, AccountsInv, OneAccountPerEmail
    <3>2. ASSUME NEW e \in Emails PROVE accounts'[e] \in Nat /\ accounts'[e] <= 1
      <4>1. CASE e = email
        <5>1. accounts[e] = 0 /\ accounts'[e] = accounts[e] + 1
          BY <1>3, <2>1, <3>1, <4>1
        <5> QED
          BY <5>1
      <4>2. CASE e # email
        BY <2>1, <3>1, <4>2
      <4> QED
        BY <4>1, <4>2
    <3>3. accounts' \in [Emails -> Nat]
      BY <2>1, <3>1, <3>2
    <3> QED
      BY <3>2, <3>3 DEF AccountsInv, OneAccountPerEmail
  <2>3. TablesKept /\ SessionsInv' /\ PreviewsInv' /\ sessions' = sessions
    BY <1>1, Untouched DEF IInv, SessionsInv, PreviewsInv, Opened
  <2>4. CallInv(s, calls[t][s], sessions', previews') /\ calls[t][s].kind \in {"login", "register"}
    BY <1>1 DEF IInv, CallsInv, CallInv
  <2>5. Put(t, s, [calls[t][s] EXCEPT !.pc = "account"])
    BY <2>1 DEF Step
  <2> QED
    BY <1>1, <2>2, <2>3, <2>4, <2>5, StepKeeps, CallStep
<1> QED
  BY <1>2, <1>3

LEMMA CreateSessionKeeps ==
  ASSUME IInv, NEW t \in Tabs, NEW s \in Slots, CreateSession(t, s) PROVE IInv'
<1> DEFINE call == calls[t][s]
           n == Min(Unused)
<1>1. call.pc = "account" /\ Browser /\ UNCHANGED <<accounts, previews>> /\ CallInv(s, call, sessions, previews)
  BY DEF CreateSession, Pc, IInv, CallsInv
<1>2. CASE Refuse(t, s) /\ UNCHANGED sessions
  BY <1>1, <1>2, RefuseKeeps DEF Server
<1>3. ASSUME Unused # {}, NEW ok \in BOOLEAN,
             sessions' = [sessions EXCEPT ![n] = [sessions[n] EXCEPT !.owner = call.email, !.state = "live"]],
             Put(t, s, [call EXCEPT !.pc = "answered", !.ok = ok, !.token = n, !.as = call.email,
                                    !.cookie = "set"])
      PROVE  IInv'
  <2>1. n \in Sessions /\ sessions[n].state = "unused"
    BY <1>3, MinIsMember DEF Unused, Sessions
  <2>2. call.email \in Users /\ call \in CallType /\ call.kind \in {"login", "register"}
    BY <1>1 DEF CallInv, CallType
  <2>3. sessions \in [Sessions -> SessionType]
    BY DEF IInv, SessionsInv
  <2> DEFINE new == [call EXCEPT !.pc = "answered", !.ok = ok, !.token = n, !.as = call.email,
                                 !.cookie = "set"]
             opened == [sessions[n] EXCEPT !.owner = call.email, !.state = "live"]
  <2>4. /\ new \in CallType /\ new.pc = "answered" /\ new.kind = call.kind
    <3> HIDE DEF n, call
    <3>1. n \in 0..MaxSessions
      BY <2>1 DEF Sessions
    <3> QED
      BY <2>2, <3>1 DEF CallType, PcSet
  <2>5. opened \in SessionType /\ opened.state = "live"
    BY <2>1, <2>2, <2>3 DEF SessionType
  <2> HIDE DEF new, n
  <2>6. Put(t, s, new) /\ sessions' = [sessions EXCEPT ![n] = opened]
    BY <1>3 DEF new
  <2> HIDE DEF opened
  <2>7. CallInv(s, new, sessions', previews')
    BY <1>1, <2>2, <2>4 DEF CallInv
  <2>8. TablesKept
    BY <1>1, <2>1, <2>3, <2>5, <2>6 DEF TablesKept
  <2>9. SessionsInv'
    BY <2>1, <2>3, <2>5, <2>6 DEF IInv, SessionsInv
  <2>10. PreviewsInv'
    BY <1>1, <2>8, OpenedStays DEF IInv, PreviewsInv
  <2>11. AccountsInv'
    BY <1>1 DEF IInv, AccountsInv, OneAccountPerEmail
  <2> QED
    BY <1>1, <2>4, <2>6, <2>7, <2>8, <2>9, <2>10, <2>11, CallStep
<1> QED
  BY <1>2, <1>3 DEF CreateSession

LEMMA LogoutKeeps == ASSUME IInv, NEW t \in Tabs, NEW s \in Slots, Logout(t, s) PROVE IInv'
<1> DEFINE call == calls[t][s]
<1>1. /\ call.pc = "admitted" /\ call.kind = "logout" /\ Browser /\ UNCHANGED <<accounts, previews>>
      /\ CallInv(s, call, sessions, previews) /\ sessions \in [Sessions -> SessionType]
  BY DEF Logout, Is, Pc, IInv, CallsInv, SessionsInv
<1>2. call.token = call.csrf /\ call.csrf \in Sessions
  BY <1>1 DEF CallInv, NeedsCsrf, Opened
<1> DEFINE new == [call EXCEPT !.pc = "answered", !.ok = TRUE, !.cookie = "clear"]
           ended == [sessions[call.token] EXCEPT !.state = "deleted", !.endedBy = call.csrf]
<1>3. new \in CallType /\ new.pc = "answered" /\ new.kind = "logout"
  BY <1>1 DEF CallInv, CallType, PcSet
<1>4. /\ ended \in SessionType /\ ended.state = "deleted" /\ ended.endedBy = call.token
      /\ ended.owner = sessions[call.token].owner
  <2>1. sessions[call.token] \in SessionType /\ call.csrf \in 0..MaxSessions /\ call.csrf = call.token
    BY <1>1, <1>2 DEF Sessions
  <2> HIDE DEF call
  <2> QED
    BY <2>1 DEF SessionType
<1>5. /\ sessions' = IF Live(call.token) THEN [sessions EXCEPT ![call.token] = ended] ELSE sessions
      /\ Put(t, s, new)
  BY DEF Logout
<1> HIDE DEF new, ended
<1>6. CallInv(s, new, sessions', previews')
  BY <1>1, <1>3 DEF CallInv
<1>7. TablesKept
  BY <1>1, <1>2, <1>4, <1>5 DEF TablesKept
<1>8. SessionsInv'
  BY <1>1, <1>2, <1>4, <1>5 DEF IInv, SessionsInv
<1>9. PreviewsInv'
  BY <1>1, <1>7, OpenedStays DEF IInv, PreviewsInv
<1>10. AccountsInv'
  BY <1>1 DEF IInv, AccountsInv, OneAccountPerEmail
<1> QED
  BY <1>1, <1>3, <1>5, <1>6, <1>7, <1>8, <1>9, <1>10, CallStep

LEMMA InsertPreviewKeeps ==
  ASSUME IInv, NEW t \in Tabs, NEW s \in Slots, InsertPreview(t, s) PROVE IInv'
<1> DEFINE call == calls[t][s]
           r == Min(UnusedRows)
<1>1. /\ call.pc = "admitted" /\ call.kind = "preview" /\ Browser /\ UNCHANGED <<accounts, sessions>>
      /\ CallInv(s, call, sessions, previews)
  BY DEF InsertPreview, Is, Pc, IInv, CallsInv
<1>2. CASE Refuse(t, s) /\ UNCHANGED previews
  BY <1>1, <1>2, RefuseKeeps DEF Server
<1>3. ASSUME UnusedRows # {},
             previews' = [previews EXCEPT ![r] = [owner |-> call.as, csrf |-> call.csrf, status |-> "queued"]],
             Put(t, s, [call EXCEPT !.pc = "inserted", !.row = r])
      PROVE  IInv'
  <2>1. r \in Previews
    BY <1>3, MinIsMember DEF UnusedRows, Previews
  <2>2. call \in CallType /\ Opened(call.csrf, call.as, sessions)
    BY <1>1 DEF CallInv, NeedsCsrf
  <2> DEFINE new == [call EXCEPT !.pc = "inserted", !.row = r]
             row == [owner |-> call.as, csrf |-> call.csrf, status |-> "queued"]
  <2>3. new \in CallType /\ new.pc = "inserted" /\ new.kind = call.kind /\ new.row = r
    <3> HIDE DEF r, call
    <3>1. r \in 0..MaxPreviews
      BY <2>1 DEF Previews
    <3> QED
      BY <2>2, <3>1 DEF CallType, PcSet
  <2>4. row \in PreviewType /\ row.status = "queued" /\ Opened(row.csrf, row.owner, sessions)
    BY <2>2 DEF CallType, PreviewType, Statuses
  <2>5. SessionsInv' /\ AccountsInv' /\ sessions' = sessions
    BY <1>1 DEF IInv, SessionsInv, AccountsInv, OneAccountPerEmail
  <2> HIDE DEF new, row, r
  <2>6. previews' = [previews EXCEPT ![r] = row] /\ Put(t, s, new)
    BY <1>3 DEF new, row
  <2>7. PreviewsInv'
    <3>1. previews \in [Previews -> PreviewType]
      BY DEF IInv, PreviewsInv
    <3>2. previews' \in [Previews -> PreviewType]
      BY <2>4, <2>6, <3>1
    <3>3. ASSUME NEW q \in Previews, previews'[q].status # "unused"
          PROVE  Opened(previews'[q].csrf, previews'[q].owner, sessions)
      BY <2>1, <2>4, <2>6, <3>1, <3>3 DEF IInv, PreviewsInv
    <3> QED
      BY <2>5, <3>2, <3>3 DEF PreviewsInv
  <2>8. previews'[r].status = "queued"
    BY <2>1, <2>4, <2>6 DEF IInv, PreviewsInv
  <2>9. TablesKept
    BY <2>1, <2>5, <2>6, <2>8 DEF TablesKept, IInv, PreviewsInv
  <2>10. CallInv(s, new, sessions', previews')
    BY <1>1, <2>1, <2>3, <2>8 DEF CallInv
  <2> QED
    BY <1>1, <2>3, <2>5, <2>6, <2>7, <2>9, <2>10, CallStep
<1> QED
  BY <1>2, <1>3 DEF InsertPreview

(* A row that is settled or removed stays that of the same user and session. *)
LEMMA VerdictKeepsRows ==
  ASSUME IInv, UNCHANGED sessions, NEW r, NEW verdict \in Statuses, verdict # "unused",
         r \in Previews => previews[r].status # "unused",
         previews' = [previews EXCEPT ![r].status = verdict]
  PROVE  PreviewsInv' /\ TablesKept
<1>1. previews \in [Previews -> PreviewType]
  BY DEF IInv, PreviewsInv
<1>2. ASSUME NEW q \in Previews
      PROVE  /\ previews'[q] \in PreviewType
             /\ previews'[q].csrf = previews[q].csrf /\ previews'[q].owner = previews[q].owner
             /\ previews'[q].status # "unused" <=> previews[q].status # "unused"
  BY <1>1 DEF PreviewType
<1>3. previews' \in [Previews -> PreviewType]
  BY <1>1, <1>2
<1> QED
  BY <1>2, <1>3 DEF IInv, PreviewsInv, TablesKept

LEMMA PublishPreviewKeeps ==
  ASSUME IInv, NEW t \in Tabs, NEW s \in Slots, PublishPreview(t, s) PROVE IInv'
<1> DEFINE call == calls[t][s]
<1>1. /\ call.pc = "inserted" /\ Browser /\ UNCHANGED <<accounts, sessions>> /\ CallInv(s, call, sessions, previews)
  BY DEF PublishPreview, Pc, IInv, CallsInv
<1>2. call.row \in Previews /\ previews[call.row].status # "unused"
  BY <1>1 DEF CallInv
<1>3. SessionsInv' /\ AccountsInv' /\ sessions' = sessions
  BY <1>1 DEF IInv, SessionsInv, AccountsInv, OneAccountPerEmail
<1>4. PICK ok \in BOOLEAN : Answer(t, s, ok)
  BY DEF PublishPreview, Refuse
<1>5. PreviewsInv' /\ TablesKept
  <2>1. CASE UNCHANGED previews
    BY <1>3, <2>1, Untouched DEF IInv, PreviewsInv, Opened
  <2>2. CASE previews' = [previews EXCEPT ![call.row].status = "deleted"]
    BY <1>2, <1>3, <2>2, VerdictKeepsRows DEF Statuses
  <2> QED
    BY <2>1, <2>2 DEF PublishPreview
<1>6. PICK new : Put(t, s, new) /\ new.pc # "idle" /\ CallInv(s, new, sessions', previews')
  <2>1. CallsInv
    BY DEF IInv
  <2> QED
    BY <1>1, <1>2, <1>4, <1>5, <2>1, AnswerIs
<1> QED
  BY <1>1, <1>3, <1>5, <1>6, CallStep

LEMMA PollKeeps == ASSUME IInv, NEW t \in Tabs, NEW s \in Slots, Poll(t, s) PROVE IInv'
<1> DEFINE call == calls[t][s]
<1>1. /\ call.pc = "admitted" /\ call.kind = "poll" /\ Browser /\ Server
      /\ CallInv(s, call, sessions, previews)
  BY DEF Poll, Is, Pc, IInv, CallsInv
<1>2. call.row \in Previews /\ call \in CallType
  BY <1>1 DEF CallInv
<1>3. PICK seen \in Statuses : seen = previews[call.row].status
  BY <1>2 DEF IInv, PreviewsInv, PreviewType
<1>4. PICK ok \in BOOLEAN : ok = (seen # "deleted" /\ previews[call.row].owner = call.as)
  OBVIOUS
<1> DEFINE new == [call EXCEPT !.pc = "answered", !.status = seen, !.ok = ok]
<1>5. Put(t, s, new)
  BY <1>3, <1>4, Zenon DEF Poll
<1>6. new \in CallType /\ new.pc = "answered" /\ new.kind = "poll" /\ new.row = call.row
  BY <1>1, <1>2 DEF CallType, PcSet
<1> HIDE DEF new
<1>7. CallInv(s, new, sessions, previews)
  BY <1>1, <1>2, <1>6 DEF CallInv
<1> QED
  BY <1>1, <1>5, <1>6, <1>7, QuietStep

LEMMA FailKeeps == ASSUME IInv, NEW t \in Tabs, NEW s \in Slots, Fail(t, s) PROVE IInv'
<1> DEFINE call == calls[t][s]
           new == [call EXCEPT !.pc = "answered", !.ok = FALSE, !.cookie = "keep"]
<1>1. /\ call.pc # "idle" /\ Browser /\ Server /\ Put(t, s, new) /\ CallInv(s, call, sessions, previews)
  BY DEF Fail, Pc, IInv, CallsInv
<1>2. /\ new \in CallType /\ new.pc = "answered" /\ ~new.ok /\ new.kind = call.kind /\ new.row = call.row
  BY <1>1 DEF CallInv, CallType, PcSet
<1> HIDE DEF new
<1>3. CallInv(s, new, sessions, previews)
  BY <1>1, <1>2 DEF CallInv
<1> QED
  BY <1>1, <1>2, <1>3, QuietStep

LEMMA SendKeeps == ASSUME IInv, NEW t \in Tabs, NEW s \in Slots, Send(t, s) PROVE IInv'
<1> DEFINE call == calls[t][s]
           new == [call EXCEPT !.pc = "sent", !.token = jar]
<1>1. /\ call.pc # "idle" /\ Browser /\ Server /\ Put(t, s, new) /\ CallInv(s, call, sessions, previews)
      /\ jar \in 0..MaxSessions
  BY DEF Send, Pc, IInv, CallsInv, TabsInv
<1>2. /\ new \in CallType /\ new.pc = "sent" /\ new.kind = call.kind /\ new.row = call.row
  BY <1>1 DEF CallInv, CallType, PcSet
<1> HIDE DEF new
<1>3. CallInv(s, new, sessions, previews)
  BY <1>1, <1>2 DEF CallInv
<1> QED
  BY <1>1, <1>2, <1>3, QuietStep

LEMMA PollAgainKeeps == ASSUME IInv, NEW t \in Tabs, PollAgain(t) PROVE IInv'
<1> DEFINE call == calls[t]["preview"]
           new == [Composed("poll") EXCEPT !.row = call.row, !.polls = call.polls]
<1>1. "preview" \in Slots
  BY DEF Slots
<1>2. /\ call.pc = "wait" /\ Browser /\ Server /\ Put(t, "preview", new)
      /\ CallInv("preview", call, sessions, previews) /\ jar \in 0..MaxSessions
  BY <1>1 DEF PollAgain, Pc, IInv, CallsInv, TabsInv
<1>3. call.row \in Previews /\ call \in CallType
  BY <1>2 DEF CallInv
<1>4. Composed("poll") \in CallType /\ Composed("poll").pc = "composed" /\ Composed("poll").kind = "poll"
  BY <1>2, ComposedIs DEF Kinds
<1>5. new \in CallType /\ new.pc = "composed" /\ new.kind = "poll" /\ new.row = call.row
  BY <1>3, <1>4 DEF CallType
<1> HIDE DEF new
<1>6. CallInv("preview", new, sessions, previews)
  BY <1>3, <1>5 DEF CallInv
<1> QED
  BY <1>1, <1>2, <1>5, <1>6, QuietStep

-----------------------------------------------------------------------------
(* The steps of the tabs. *)
LEMMA RoutedIs ==
  ASSUME NEW tab \in TabType
  PROVE  Routed(tab) \in TabType /\ Routed(tab).previewing = tab.previewing
BY DEF Routed, TabType

(* A tab starts a call or takes its answer: the server is not involved.     *)
LEMMA TabStep ==
  ASSUME IInv, NEW t \in Tabs, NEW s \in Slots, NEW call, Put(t, s, call),
         CallInv(s, call, sessions, previews), Server,
         NEW tab \in TabType, tabs' = [tabs EXCEPT ![t] = tab],
         jar' \in 0..MaxSessions, acts' \in 0..MaxActs,
         IF s = "preview" THEN tab.previewing <=> call.pc # "idle"
                          ELSE tab.previewing = tabs[t].previewing
  PROVE  IInv'
<1>1. /\ TablesKept /\ AccountsInv' /\ SessionsInv' /\ PreviewsInv'
      /\ sessions' = sessions /\ previews' = previews
  BY RowsStay DEF Server
<1>2. CallsInv'
  BY <1>1, PutKeeps DEF IInv
<1>3. call \in CallType
  BY DEF CallInv
<1>4. /\ calls'[t][s] = call
      /\ \A u \in Tabs, r \in Slots : u # t \/ r # s => calls'[u][r] = calls[u][r]
  BY <1>3, PutIs DEF IInv
<1>5. tabs \in [Tabs -> TabType]
  BY DEF IInv, TabsInv
<1>6. ASSUME NEW u \in Tabs PROVE tabs'[u].previewing <=> calls'[u]["preview"].pc # "idle"
  <2>1. tabs[u].previewing <=> calls[u]["preview"].pc # "idle"
    BY DEF IInv, TabsInv
  <2>2. "preview" \in Slots
    BY DEF Slots
  <2>3. CASE u # t
    BY <1>4, <1>5, <2>1, <2>2, <2>3
  <2>4. CASE u = t /\ s = "preview"
    BY <1>4, <1>5, <2>4
  <2>5. CASE u = t /\ s # "preview"
    BY <1>4, <1>5, <2>1, <2>2, <2>5
  <2> QED
    BY <2>3, <2>4, <2>5
<1>7. TabsInv'
  BY <1>5, <1>6 DEF TabsInv
<1> QED
  BY <1>1, <1>2, <1>7 DEF IInv

LEMMA Acting == ASSUME IInv, Act PROVE acts' \in 0..MaxActs
BY WebConstants DEF Act, IInv, TabsInv

LEMMA FollowKeeps == ASSUME IInv, NEW t \in Tabs, Follow(t) PROVE IInv'
<1>1. PICK page \in {"login", "register"} :
        tabs' = [tabs EXCEPT ![t] = Routed([tabs[t] EXCEPT !.page = page])]
  BY DEF Follow
<1>2. tabs \in [Tabs -> TabType]
  BY DEF IInv, TabsInv
<1>3. [tabs[t] EXCEPT !.page = page] \in TabType
      /\ [tabs[t] EXCEPT !.page = page].previewing = tabs[t].previewing
  BY <1>2 DEF TabType
<1> DEFINE tab == Routed([tabs[t] EXCEPT !.page = page])
<1>4. tab \in TabType /\ tab.previewing = tabs[t].previewing
  BY <1>3, RoutedIs
<1>5. UNCHANGED <<jar, calls>> /\ Server /\ acts' \in 0..MaxActs
  BY Acting DEF Follow
<1> HIDE DEF tab
<1>6. tabs' = [tabs EXCEPT ![t] = tab]
  BY <1>1 DEF tab
<1>7. /\ AccountsInv' /\ SessionsInv' /\ PreviewsInv' /\ sessions' = sessions /\ previews' = previews
  BY <1>5, RowsStay DEF Server
<1>8. CallsInv'
  BY <1>5, <1>7 DEF IInv, CallsInv
<1>9. TabsInv'
  BY <1>2, <1>4, <1>5, <1>6 DEF IInv, TabsInv
<1> QED
  BY <1>7, <1>8, <1>9 DEF IInv

(* The form of a page, or the sign-out of the application. *)
LEMMA FormKeeps == ASSUME IInv, NEW t \in Tabs, Submit(t) \/ SignOut(t) PROVE IInv'
<1>1. tabs \in [Tabs -> TabType] /\ jar \in 0..MaxSessions
  BY DEF IInv, TabsInv
<1>2. PICK kind \in {"login", "register", "logout"}, email \in Users :
        Put(t, "form", [Composed(kind) EXCEPT !.email = email])
  <2>1. CASE Submit(t)
    BY <2>1 DEF Submit, Users
  <2>2. CASE SignOut(t)
    <3>1. Composed("logout") \in CallType
      BY <1>1, ComposedIs DEF Kinds
    <3>2. [Composed("logout") EXCEPT !.email = Composed("logout").email] = Composed("logout")
          /\ Composed("logout").email \in Users
      BY <3>1 DEF CallType
    <3> QED
      BY <2>2, <3>2 DEF SignOut
  <2> QED
    BY <2>1, <2>2
<1> DEFINE new == [Composed(kind) EXCEPT !.email = email]
<1>3. Composed(kind) \in CallType /\ Composed(kind).pc = "composed" /\ Composed(kind).kind = kind
  BY <1>1, ComposedIs DEF Kinds
<1>4. new \in CallType /\ new.pc = "composed" /\ new.kind = kind
  BY <1>3 DEF CallType
<1>5. Put(t, "form", new)
  BY <1>2
<1> HIDE DEF new
<1>6. CallInv("form", new, sessions, previews)
  BY <1>4 DEF CallInv
<1>7. Server /\ tabs' = tabs /\ jar' = jar /\ acts' \in 0..MaxActs
  BY Acting DEF Submit, SignOut
<1>8. tabs' = [tabs EXCEPT ![t] = tabs[t]] /\ tabs[t] \in TabType /\ "form" \in Slots
  BY <1>1, <1>7 DEF Slots
<1> QED
  BY <1>1, <1>5, <1>6, <1>7, <1>8, TabStep

LEMMA RunPreviewKeeps == ASSUME IInv, NEW t \in Tabs, RunPreview(t) PROVE IInv'
<1>1. tabs \in [Tabs -> TabType] /\ jar \in 0..MaxSessions
  BY DEF IInv, TabsInv
<1>2. Composed("preview") \in CallType /\ Composed("preview").pc = "composed"
      /\ Composed("preview").kind = "preview"
  BY <1>1, ComposedIs DEF Kinds
<1>3. CallInv("preview", Composed("preview"), sessions, previews)
  BY <1>2 DEF CallInv
<1>4. /\ Server /\ Put(t, "preview", Composed("preview")) /\ jar' = jar /\ acts' \in 0..MaxActs
      /\ tabs' = [tabs EXCEPT ![t].previewing = TRUE]
  BY Acting DEF RunPreview
<1> DEFINE tab == [tabs[t] EXCEPT !.previewing = TRUE]
<1>5. tab \in TabType /\ tab.previewing /\ tabs' = [tabs EXCEPT ![t] = tab] /\ "preview" \in Slots
  BY <1>1, <1>4 DEF TabType, Slots
<1> HIDE DEF tab
<1> QED
  BY <1>1, <1>2, <1>3, <1>4, <1>5, TabStep

LEMMA DeliverKeeps ==
  ASSUME IInv, NEW t \in Tabs, NEW s \in Slots, Deliver(t, s)
  PROVE  /\ calls[t][s].pc = "answered" /\ CallInv(s, calls[t][s], sessions, previews)
         /\ Server /\ jar' \in 0..MaxSessions /\ acts' \in 0..MaxActs
<1>1. calls[t][s] \in CallType /\ jar \in 0..MaxSessions /\ acts \in 0..MaxActs
  BY DEF IInv, CallsInv, TabsInv
<1>2. Cookies(calls[t][s]) \in 0..MaxSessions
  BY <1>1, WebConstants DEF Cookies, CallType, NoSession
<1> QED
  BY <1>1, <1>2 DEF Deliver, Pc, IInv, CallsInv

LEMMA MeAnsweredKeeps == ASSUME IInv, NEW t \in Tabs, MeAnswered(t) PROVE IInv'
<1>1. tabs \in [Tabs -> TabType] /\ "me" \in Slots
  BY DEF IInv, TabsInv, Slots
<1>2. /\ CallInv("me", calls[t]["me"], sessions, previews) /\ Put(t, "me", Idle)
      /\ Server /\ jar' \in 0..MaxSessions /\ acts' \in 0..MaxActs
  BY <1>1, DeliverKeeps DEF MeAnswered
<1>3. PICK user \in Users : user = IF calls[t]["me"].ok THEN calls[t]["me"].as ELSE Nobody
  BY <1>2 DEF CallInv, CallType, Users
<1> DEFINE known == [tabs[t] EXCEPT !.loading = FALSE, !.user = user]
<1>4. known \in TabType /\ known.previewing = tabs[t].previewing
  BY <1>1 DEF TabType
<1>5. tabs' = [tabs EXCEPT ![t] = Routed(known)]
  BY <1>3, Zenon DEF MeAnswered
<1> HIDE DEF known
<1>6. Routed(known) \in TabType /\ Routed(known).previewing = tabs[t].previewing
  BY <1>4, RoutedIs
<1> QED
  BY <1>1, <1>2, <1>5, <1>6, IdleKeeps, TabStep

LEMMA FormAnsweredKeeps == ASSUME IInv, NEW t \in Tabs, FormAnswered(t) PROVE IInv'
<1> DEFINE call == calls[t]["form"]
<1>1. tabs \in [Tabs -> TabType] /\ "form" \in Slots
  BY DEF IInv, TabsInv, Slots
<1>2. /\ CallInv("form", call, sessions, previews) /\ Put(t, "form", Idle)
      /\ Server /\ jar' \in 0..MaxSessions /\ acts' \in 0..MaxActs
  BY <1>1, DeliverKeeps DEF FormAnswered
<1>3. call.as \in Users /\ Nobody \in Users
  BY <1>2 DEF CallInv, CallType, Users
<1>4. PICK tab \in TabType : /\ tabs' = [tabs EXCEPT ![t] = tab]
                             /\ tab.previewing = tabs[t].previewing
  <2> DEFINE out == [tabs[t] EXCEPT !.user = Nobody, !.page = "login"]
             in == [tabs[t] EXCEPT !.user = call.as, !.page = "app"]
  <2>1. out \in TabType /\ out.previewing = tabs[t].previewing
    BY <1>1, <1>3 DEF TabType
  <2>2. in \in TabType /\ in.previewing = tabs[t].previewing
    BY <1>1, <1>3 DEF TabType
  <2>3. tabs' = [tabs EXCEPT ![t] = CASE call.ok /\ call.kind = "logout" -> Routed(out)
                                      [] call.ok /\ call.kind # "logout" -> Routed(in)
                                      [] OTHER -> tabs[t]]
    BY DEF FormAnswered
  <2> HIDE DEF out, in
  <2>4. /\ Routed(out) \in TabType /\ Routed(out).previewing = tabs[t].previewing
        /\ Routed(in) \in TabType /\ Routed(in).previewing = tabs[t].previewing
    BY <2>1, <2>2, RoutedIs
  <2>5. CASE call.ok /\ call.kind = "logout"
    BY <2>3, <2>4, <2>5
  <2>6. CASE call.ok /\ call.kind # "logout"
    BY <2>3, <2>4, <2>6
  <2>7. CASE ~call.ok
    BY <1>1, <2>3, <2>7
  <2> QED
    BY <2>5, <2>6, <2>7
<1> QED
  BY <1>1, <1>2, <1>4, IdleKeeps, TabStep

LEMMA PreviewAnsweredKeeps == ASSUME IInv, NEW t \in Tabs, PreviewAnswered(t) PROVE IInv'
<1> DEFINE call == calls[t]["preview"]
           polls == IF call.kind = "poll" THEN call.polls + 1 ELSE 0
<1>1. tabs \in [Tabs -> TabType] /\ "preview" \in Slots
  BY DEF IInv, TabsInv, Slots
<1>2. /\ call.pc = "answered" /\ CallInv("preview", call, sessions, previews)
      /\ Server /\ jar' \in 0..MaxSessions /\ acts' \in 0..MaxActs
  BY <1>1, DeliverKeeps DEF PreviewAnswered
<1>3. /\ tabs' = [tabs EXCEPT ![t].previewing = ~Settled(call, polls)]
      /\ Put(t, "preview", IF Settled(call, polls) THEN Idle ELSE [call EXCEPT !.pc = "wait", !.polls = polls])
  BY DEF PreviewAnswered
<1>4. call \in CallType /\ polls \in 0..MaxPolls
  BY <1>2, WebConstants DEF CallInv, CallType
<1>5. PICK more \in BOOLEAN : more = ~Settled(call, polls)
  OBVIOUS
<1> DEFINE tab == [tabs[t] EXCEPT !.previewing = more]
<1>6. tab \in TabType /\ tab.previewing = more
  BY <1>1 DEF TabType
<1>7. tabs' = [tabs EXCEPT ![t] = tab]
  <2>1. tabs' = [tabs EXCEPT ![t].previewing = more]
    BY <1>3, <1>5, Zenon
  <2> QED
    BY <2>1
<1> HIDE DEF tab
<1>8. CASE ~more
  <2>1. Put(t, "preview", Idle)
    BY <1>3, <1>5, <1>8
  <2> QED
    BY <1>1, <1>2, <1>6, <1>7, <1>8, <2>1, IdleKeeps, IdleIs, TabStep
<1>9. CASE more
  <2>1. call.ok /\ polls # MaxPolls
    BY <1>5, <1>9 DEF Settled
  <2> DEFINE new == [call EXCEPT !.pc = "wait", !.polls = polls]
  <2>2. Put(t, "preview", new)
    BY <1>3, <1>5, <1>9
  <2>3. polls \in 0..(MaxPolls - 1)
    BY <1>4, <2>1, WebConstants
  <2>4. call.kind \in {"preview", "poll"} /\ call.row \in Previews
    BY <1>2, <2>1 DEF CallInv
  <2>5. new \in CallType /\ new.pc = "wait" /\ new.kind = call.kind /\ new.row = call.row
    <3> HIDE DEF polls, call
    <3> QED
      BY <1>4, <2>3 DEF CallType, PcSet
  <2> HIDE DEF new
  <2>6. CallInv("preview", new, sessions, previews)
    BY <2>4, <2>5 DEF CallInv
  <2> QED
    BY <1>1, <1>2, <1>6, <1>7, <1>9, <2>2, <2>5, <2>6, TabStep
<1> QED
  BY <1>8, <1>9

-----------------------------------------------------------------------------
(* The worker and the clock. *)
LEMMA CallsStay == ASSUME IInv, TablesKept, UNCHANGED calls PROVE CallsInv'
BY CallStays DEF IInv, CallsInv

LEMMA WorkerSettlesKeeps == ASSUME IInv, NEW r \in Previews, WorkerSettles(r) PROVE IInv'
<1>1. /\ previews[r].status # "unused" /\ UNCHANGED <<accounts, sessions, calls, jar, tabs, acts>>
  BY DEF WorkerSettles, Browser
<1>2. PICK verdict \in {"succeeded", "failed"} : previews' = [previews EXCEPT ![r].status = verdict]
  BY DEF WorkerSettles
<1>3. PreviewsInv' /\ TablesKept
  BY <1>1, <1>2, VerdictKeepsRows DEF Statuses
<1>4. CallsInv'
  BY <1>1, <1>3, CallsStay
<1>5. AccountsInv' /\ SessionsInv' /\ TabsInv'
  BY <1>1 DEF IInv, AccountsInv, OneAccountPerEmail, SessionsInv, TabsInv
<1> QED
  BY <1>3, <1>4, <1>5 DEF IInv

LEMMA SessionExpiresKeeps == ASSUME IInv, NEW n \in Sessions, SessionExpires(n) PROVE IInv'
<1>1. /\ sessions[n].state = "live" /\ acts' \in 0..MaxActs /\ UNCHANGED <<accounts, previews, calls, tabs>>
      /\ jar' \in {jar, NoSession}
  BY Acting DEF SessionExpires, Live
<1>2. sessions \in [Sessions -> SessionType]
  BY DEF IInv, SessionsInv
<1> DEFINE expired == [sessions[n] EXCEPT !.state = "expired"]
<1>3. expired \in SessionType /\ expired.state = "expired" /\ expired.owner = sessions[n].owner
  BY <1>2 DEF SessionType
<1>4. sessions' = [sessions EXCEPT ![n] = expired]
  BY <1>2 DEF SessionExpires
<1> HIDE DEF expired
<1>5. TablesKept
  BY <1>1, <1>2, <1>3, <1>4 DEF TablesKept
<1>6. SessionsInv'
  BY <1>2, <1>3, <1>4 DEF IInv, SessionsInv
<1>7. PreviewsInv'
  BY <1>1, <1>5, OpenedStays DEF IInv, PreviewsInv
<1>8. CallsInv'
  BY <1>1, <1>5, CallsStay
<1>9. AccountsInv' /\ TabsInv'
  BY <1>1, WebConstants DEF IInv, AccountsInv, OneAccountPerEmail, TabsInv, NoSession
<1> QED
  BY <1>6, <1>7, <1>8, <1>9 DEF IInv

-----------------------------------------------------------------------------
LEMMA Initially == ASSUME Init PROVE IInv
<1>1. AccountsInv
  BY DEF Init, AccountsInv, OneAccountPerEmail
<1>2. SessionsInv
  BY WebConstants DEF Init, SessionsInv, SessionType, Users, NoSession
<1>3. PreviewsInv
  BY WebConstants DEF Init, PreviewsInv, PreviewType, Users, Statuses, NoSession
<1>4. jar = 0 /\ jar \in 0..MaxSessions /\ acts \in 0..MaxActs
  BY WebConstants DEF Init, NoSession
<1>5. Composed("me") \in CallType /\ Composed("me").pc = "composed" /\ Composed("me").kind = "me"
  BY <1>4, ComposedIs DEF Kinds
<1>6. CallInv("me", Composed("me"), sessions, previews)
  BY <1>5 DEF CallInv
<1>7. ASSUME NEW t \in Tabs, NEW s \in Slots
      PROVE  /\ CallInv(s, calls[t][s], sessions, previews) /\ (s = "preview" => calls[t][s] = Idle)
             /\ calls[t][s] \in CallType
  <2>1. calls[t][s] = IF s = "me" /\ t \in Loading THEN Composed("me") ELSE Idle
    BY DEF Init
  <2>2. CASE s = "me" /\ t \in Loading
    BY <1>5, <1>6, <2>1, <2>2
  <2>3. CASE ~(s = "me" /\ t \in Loading)
    BY <2>1, <2>3, IdleIs, IdleKeeps
  <2> QED
    BY <2>2, <2>3
<1>8. calls \in [Tabs -> [Slots -> CallType]]
  <2>1. calls = [t \in Tabs |-> [s \in Slots |-> IF s = "me" /\ t \in Loading THEN Composed("me") ELSE Idle]]
    BY DEF Init
  <2> QED
    BY <1>5, <2>1, IdleIs
<1>9. CallsInv
  BY <1>7, <1>8 DEF CallsInv
<1>10. TabsInv
  <2>1. tabs = [t \in Tabs |-> [page |-> "register", user |-> Nobody, loading |-> t \in Loading,
                                previewing |-> FALSE]]
    BY DEF Init
  <2>2. tabs \in [Tabs -> TabType] /\ \A t \in Tabs : ~tabs[t].previewing
    BY <2>1 DEF TabType, Users
  <2>3. \A t \in Tabs : calls[t]["preview"].pc = "idle"
    BY <1>7, IdleIs DEF Slots
  <2> QED
    BY <1>4, <2>2, <2>3 DEF TabsInv
<1> QED
  BY <1>1, <1>2, <1>3, <1>9, <1>10 DEF IInv

LEMMA Stutter == ASSUME IInv, UNCHANGED vars PROVE IInv'
<1>1. AccountsInv' /\ SessionsInv' /\ PreviewsInv' /\ TablesKept
  BY RowsStay DEF vars
<1>2. CallsInv'
  BY <1>1, CallsStay DEF vars
<1>3. TabsInv'
  BY DEF vars, IInv, TabsInv
<1> QED
  BY <1>1, <1>2, <1>3 DEF IInv

LEMMA Inductive == ASSUME IInv, [Next]_vars PROVE IInv'
<1>1. ASSUME NEW t \in Tabs, User(t) PROVE IInv'
  BY <1>1, FollowKeeps, FormKeeps, RunPreviewKeeps DEF User
<1>2. ASSUME NEW t \in Tabs, NEW s \in Slots, Handle(t, s) PROVE IInv'
  BY <1>2, AdmitKeeps, SignKeeps, InsertUserKeeps, CreateSessionKeeps, LogoutKeeps, InsertPreviewKeeps,
     PublishPreviewKeeps, PollKeeps DEF Handle
<1>3. ASSUME NEW t \in Tabs, Progress(t) PROVE IInv'
  BY <1>2, <1>3, MeAnsweredKeeps, FormAnsweredKeeps, PreviewAnsweredKeeps, PollAgainKeeps, SendKeeps
  DEF Progress, Answered
<1> QED
  BY <1>1, <1>3, FailKeeps, WorkerSettlesKeeps, SessionExpiresKeeps, Stutter DEF Next

LEMMA Invariant == Spec => []IInv
BY Initially, Inductive, PTL DEF Spec

(* The types; in particular a tab shows that it runs a preview exactly as    *)
(* long as the preview's call is under way, and polls within the limit.      *)
THEOREM Typing == Spec => []TypeOK
<1>1. ASSUME IInv PROVE TypeOK
  <2>1. /\ accounts \in [Emails -> Nat] /\ jar \in 0..MaxSessions /\ acts \in 0..MaxActs
        /\ sessions \in [Sessions -> SessionType] /\ tabs \in [Tabs -> TabType]
        /\ previews \in [Previews -> PreviewType]
    BY <1>1 DEF IInv, AccountsInv, SessionsInv, PreviewsInv, TabsInv
  <2>2. ASSUME NEW t \in Tabs PROVE tabs[t].previewing = (Pc(t, "preview") # "idle")
    BY <1>1, <2>1 DEF IInv, TabsInv, TabType, Pc
  <2>3. ASSUME NEW t \in Tabs, NEW s \in Slots PROVE calls[t][s].polls < MaxPolls
    <3>1. calls[t][s].polls \in 0..(MaxPolls - 1)
      BY <1>1 DEF IInv, CallsInv, CallType
    <3> QED
      BY <3>1, WebConstants
  <2> QED
    BY <2>1, <2>2, <2>3 DEF TypeOK, SessionType, TabType, PreviewType, Users, Statuses
<1> QED
  BY <1>1, Invariant, PTL

(* Registrations with one email may overlap between the look-up and the      *)
(* insertion: one of them gets the account.                                  *)
THEOREM AccountsAreUnique == Spec => []OneAccountPerEmail
<1>1. IInv => OneAccountPerEmail
  BY DEF IInv, AccountsInv
<1> QED
  BY <1>1, Invariant, PTL

(* Signing in as somebody else in another tab cannot redirect a mutation     *)
(* that is on its way: the preview belongs to the user, and the sign-out     *)
(* ends the session, whose CSRF cookie was read when the call was composed.  *)
THEOREM MutationsKeepTheirSession == Spec => []MutationsRunAsComposed
<1>1. ASSUME IInv PROVE MutationsRunAsComposed
  BY <1>1 DEF IInv, SessionsInv, PreviewsInv, Opened, Sessions, NoSession, MutationsRunAsComposed
<1> QED
  BY <1>1, Invariant, PTL
-----------------------------------------------------------------------------
(* What is ahead of the call of a preview: its polls, and the steps of the  *)
(* present round.                                                           *)
RoundsLeft(call) == IF call.kind = "preview" /\ call.pc # "wait" THEN MaxPolls + 1
                                                                 ELSE MaxPolls - call.polls
StepsLeft(pc) == CASE pc = "wait" -> 6 [] pc = "composed" -> 5 [] pc = "sent" -> 4
                   [] pc = "admitted" -> 3 [] pc = "inserted" -> 2 [] OTHER -> 1
Variant(call) == 6 * RoundsLeft(call) + StepsLeft(call.pc)

Lowers(new, call) == Variant(new) <= Variant(call) /\ (new.pc # call.pc => Variant(new) < Variant(call))

LEMMA VariantRange ==
  ASSUME NEW call \in CallType PROVE Variant(call) \in 1..(6 * MaxPolls + 12)
<1>1. RoundsLeft(call) \in 1..(MaxPolls + 1)
  BY WebConstants DEF RoundsLeft, CallType
<1>2. StepsLeft(call.pc) \in 1..6
  BY DEF StepsLeft
<1> QED
  BY <1>1, <1>2, WebConstants DEF Variant

(* Within a round only the place of the call changes. *)
LEMMA RoundGoesOn ==
  ASSUME NEW call \in CallType, NEW new \in CallType, call.pc # "wait", new.pc # "wait",
         new.kind = call.kind, new.polls = call.polls,
         new.pc # call.pc => StepsLeft(new.pc) < StepsLeft(call.pc)
  PROVE  Lowers(new, call)
<1>1. RoundsLeft(new) = RoundsLeft(call) /\ RoundsLeft(call) \in Int
  BY WebConstants DEF RoundsLeft, CallType
<1>2. StepsLeft(new.pc) \in Int /\ StepsLeft(call.pc) \in Int
  BY DEF StepsLeft
<1> QED
  BY <1>1, <1>2 DEF Lowers, Variant

LEMMA PutLowers ==
  ASSUME IInv, NEW t \in Tabs, NEW next \in CallType, Put(t, "preview", next),
         next.kind = calls[t]["preview"].kind, next.polls = calls[t]["preview"].polls,
         calls[t]["preview"].pc # "wait", next.pc # "wait",
         next.pc # calls[t]["preview"].pc => StepsLeft(next.pc) < StepsLeft(calls[t]["preview"].pc)
  PROVE  Lowers(calls'[t]["preview"], calls[t]["preview"])
<1>1. CallsInv /\ calls[t]["preview"] \in CallType /\ "preview" \in Slots
  BY DEF IInv, CallsInv, Slots
<1>2. calls'[t]["preview"] = next
  BY <1>1, PutIs
<1>3. Lowers(next, calls[t]["preview"])
  BY <1>1, RoundGoesOn
<1> QED
  BY <1>2, <1>3

(* The step of the tab, the network or the server on the call of a preview. *)
LEMMA ServedLowers ==
  ASSUME IInv, NEW t \in Tabs, Send(t, "preview") \/ Handle(t, "preview") \/ Fail(t, "preview")
  PROVE  Lowers(calls'[t]["preview"], calls[t]["preview"])
<1> DEFINE call == calls[t]["preview"]
           new == calls'[t]["preview"]
<1>1. call \in CallType /\ CallInv("preview", call, sessions, previews) /\ CallsInv
  BY DEF IInv, CallsInv, Slots
<1>2. CASE Send(t, "preview")
  <2> DEFINE next == [call EXCEPT !.pc = "sent", !.token = jar]
  <2>1. next \in CallType /\ next.kind = call.kind /\ next.polls = call.polls /\ next.pc = "sent"
    BY <1>1 DEF CallType, PcSet, IInv, TabsInv
  <2>2. call.pc = "composed" /\ Put(t, "preview", next)
    BY <1>2 DEF Send, Pc
  <2> HIDE DEF next
  <2>3. /\ call.pc # "wait" /\ next.pc # "wait"
        /\ next.pc # call.pc => StepsLeft(next.pc) < StepsLeft(call.pc)
    BY <2>1, <2>2 DEF StepsLeft
  <2> QED
    BY <2>1, <2>2, <2>3, PutLowers
<1>3. CASE Fail(t, "preview")
  <2> DEFINE next == [call EXCEPT !.pc = "answered", !.ok = FALSE, !.cookie = "keep"]
  <2>1. next \in CallType /\ next.kind = call.kind /\ next.polls = call.polls /\ next.pc = "answered"
    BY <1>1 DEF CallType, PcSet
  <2>2. call.pc \in {"sent", "inserted", "answered"} /\ Put(t, "preview", next)
    BY <1>3 DEF Fail, Pc
  <2> HIDE DEF next
  <2>3. /\ call.pc # "wait" /\ next.pc # "wait"
        /\ next.pc # call.pc => StepsLeft(next.pc) < StepsLeft(call.pc)
    BY <2>1, <2>2 DEF StepsLeft
  <2> QED
    BY <2>1, <2>2, <2>3, PutLowers
<1>4. ASSUME NEW ok \in BOOLEAN, Answer(t, "preview", ok), call.pc \in {"sent", "admitted", "inserted"}
      PROVE  Lowers(new, call)
  <2> DEFINE next == [call EXCEPT !.pc = "answered", !.ok = ok]
  <2>1. next \in CallType /\ next.kind = call.kind /\ next.polls = call.polls /\ next.pc = "answered"
    BY <1>1 DEF CallType, PcSet
  <2>2. Put(t, "preview", next)
    BY <1>4 DEF Answer
  <2> HIDE DEF next
  <2>3. /\ call.pc # "wait" /\ next.pc # "wait"
        /\ next.pc # call.pc => StepsLeft(next.pc) < StepsLeft(call.pc)
    BY <1>4, <2>1, <2>2 DEF StepsLeft
  <2> QED
    BY <1>4, <2>1, <2>2, <2>3, PutLowers
<1>5. CASE Admit(t, "preview")
  <2>1. call.pc = "sent" /\ call.kind \in {"preview", "poll"}
    BY <1>1, <1>5 DEF Admit, CallInv
  <2>2. CASE Refuse(t, "preview")
    BY <1>4, <2>1, <2>2 DEF Refuse
  <2>3. CASE ~Refuse(t, "preview")
    <3>1. Live(call.token) /\ Put(t, "preview", [call EXCEPT !.pc = IF call.kind = "me" THEN "answered" ELSE "admitted",
                         !.ok = call.kind = "me",
                         !.as = IF NeedsSession(call.kind) THEN sessions[call.token].owner ELSE Nobody])
      BY <1>5, <2>1, <2>3 DEF Admit, NeedsSession
    <3>2. PICK as \in Users : as = sessions[call.token].owner
      BY <1>1, <3>1 DEF Live, NoSession, CallType, Sessions, IInv, SessionsInv, SessionType
    <3> DEFINE next == [call EXCEPT !.pc = "admitted", !.ok = FALSE, !.as = as]
    <3>3. next \in CallType /\ next.kind = call.kind /\ next.polls = call.polls /\ next.pc = "admitted"
      BY <1>1 DEF CallType, PcSet
    <3>4. NeedsSession(call.kind) /\ call.kind # "me"
      BY <2>1 DEF NeedsSession
    <3>5. (call.kind = "me") = FALSE
      BY <3>4
    <3>6. Put(t, "preview", next)
      BY <3>1, <3>2, <3>4, <3>5, Zenon
    <3> HIDE DEF next
    <3>7. /\ call.pc # "wait" /\ next.pc # "wait"
          /\ next.pc # call.pc => StepsLeft(next.pc) < StepsLeft(call.pc)
      BY <2>1, <3>3, <3>6 DEF StepsLeft
    <3> QED
      BY <2>1, <3>3, <3>6, <3>7, PutLowers
  <2> QED
    BY <2>2, <2>3
<1>6. CASE InsertPreview(t, "preview")
  <2>1. call.pc = "admitted"
    BY <1>6 DEF InsertPreview, Is, Pc
  <2>2. CASE Refuse(t, "preview")
    BY <1>4, <2>1, <2>2 DEF Refuse
  <2>3. CASE ~Refuse(t, "preview")
    <3>1. UnusedRows # {} /\ Put(t, "preview", [call EXCEPT !.pc = "inserted", !.row = Min(UnusedRows)])
      BY <1>6, <2>3 DEF InsertPreview
    <3>2. Min(UnusedRows) \in Previews
      BY <3>1, MinIsMember DEF UnusedRows, Previews
    <3> DEFINE r == Min(UnusedRows)
    <3>3. r \in 0..MaxPreviews
      BY <3>2 DEF Previews
    <3> HIDE DEF r
    <3> DEFINE next == [call EXCEPT !.pc = "inserted", !.row = r]
    <3>4. next \in CallType /\ next.kind = call.kind /\ next.polls = call.polls /\ next.pc = "inserted"
      BY <1>1, <3>3 DEF CallType, PcSet
    <3>5. Put(t, "preview", next)
      BY <3>1 DEF r
    <3> HIDE DEF next
    <3>6. /\ call.pc # "wait" /\ next.pc # "wait"
          /\ next.pc # call.pc => StepsLeft(next.pc) < StepsLeft(call.pc)
      BY <2>1, <3>4, <3>5 DEF StepsLeft
    <3> QED
      BY <2>1, <3>4, <3>5, <3>6, PutLowers
  <2> QED
    BY <2>2, <2>3
<1>7. CASE PublishPreview(t, "preview")
  BY <1>4, <1>7 DEF PublishPreview, Pc, Refuse
<1>8. CASE Poll(t, "preview")
  <2>1. call.pc = "admitted" /\ call.kind = "poll" /\ call.row \in Previews
    BY <1>1, <1>8 DEF Poll, Is, Pc, CallInv
  <2>2. previews[call.row] \in PreviewType
    BY <2>1 DEF IInv, PreviewsInv
  <2>3. PICK status \in Statuses : status = previews[call.row].status
    BY <2>2 DEF PreviewType
  <2>4. PICK ok \in BOOLEAN :
          ok = (previews[call.row].status # "deleted" /\ previews[call.row].owner = call.as)
    OBVIOUS
  <2> DEFINE next == [call EXCEPT !.pc = "answered", !.status = status, !.ok = ok]
  <2>5. next \in CallType /\ next.kind = call.kind /\ next.polls = call.polls /\ next.pc = "answered"
    BY <1>1 DEF CallType, PcSet
  <2>6. Put(t, "preview", next)
    BY <1>8, <2>3, <2>4, Zenon DEF Poll
  <2> HIDE DEF next
  <2>7. /\ call.pc # "wait" /\ next.pc # "wait"
        /\ next.pc # call.pc => StepsLeft(next.pc) < StepsLeft(call.pc)
    BY <2>1, <2>5, <2>6 DEF StepsLeft
  <2> QED
    BY <2>1, <2>5, <2>6, <2>7, PutLowers
<1>9. /\ ~Login(t, "preview") /\ ~Register(t, "preview") /\ ~InsertUser(t, "preview")
       /\ ~CreateSession(t, "preview") /\ ~Logout(t, "preview")
  BY <1>1 DEF Login, Register, InsertUser, CreateSession, Logout, Is, Pc, CallInv
<1> QED
  BY <1>2, <1>3, <1>5, <1>6, <1>7, <1>8, <1>9 DEF Handle

(* The next poll begins with the count of the last, and an answer that does *)
(* not end the preview leaves one round less.                               *)
LEMMA RoundsLower ==
  ASSUME IInv, NEW t \in Tabs, PollAgain(t) \/ PreviewAnswered(t), tabs'[t].previewing
  PROVE  Lowers(calls'[t]["preview"], calls[t]["preview"])
<1> DEFINE call == calls[t]["preview"]
           new == calls'[t]["preview"]
<1>1. call \in CallType /\ CallInv("preview", call, sessions, previews) /\ CallsInv
  BY DEF IInv, CallsInv, Slots
<1>2. call.polls \in 0..(MaxPolls - 1) /\ MaxPolls \in Nat
  BY <1>1, WebConstants DEF CallType
<1>3. CASE PollAgain(t)
  <2> DEFINE base == Composed("poll")
             next == [base EXCEPT !.row = call.row, !.polls = call.polls]
  <2>1. base \in CallType /\ base.pc = "composed" /\ base.kind = "poll"
    BY ComposedIs DEF IInv, TabsInv, Kinds
  <2>2. call.pc = "wait" /\ Put(t, "preview", next)
    BY <1>3 DEF PollAgain, Pc
  <2> HIDE DEF base
  <2>3. next \in CallType /\ next.pc = "composed" /\ next.kind = "poll" /\ next.polls = call.polls
    BY <1>1, <2>1 DEF CallType
  <2> HIDE DEF next
  <2>4. new = next
    BY <1>1, <2>2, <2>3, PutIs DEF Slots
  <2>5. RoundsLeft(new) = MaxPolls - call.polls /\ RoundsLeft(call) = MaxPolls - call.polls
    BY <2>2, <2>3, <2>4 DEF RoundsLeft
  <2>6. StepsLeft(new.pc) = 5 /\ StepsLeft(call.pc) = 6
    BY <2>2, <2>3, <2>4 DEF StepsLeft
  <2> QED
    BY <1>2, <2>5, <2>6 DEF Lowers, Variant
<1>4. CASE PreviewAnswered(t)
  <2> DEFINE polls == IF call.kind = "poll" THEN call.polls + 1 ELSE 0
             next == [call EXCEPT !.pc = "wait", !.polls = polls]
  <2>1. call.pc = "answered" /\ call.kind \in {"preview", "poll"}
    BY <1>1, <1>4 DEF PreviewAnswered, Deliver, Pc, CallInv
  <2>2. ~Settled(call, polls)
    <3>1. tabs' = [tabs EXCEPT ![t].previewing = ~Settled(call, polls)] /\ tabs \in [Tabs -> TabType]
      BY <1>4 DEF PreviewAnswered, IInv, TabsInv
    <3> QED
      BY <3>1 DEF TabType
  <2>3. Put(t, "preview", next)
    BY <1>4, <2>2 DEF PreviewAnswered
  <2>4. polls \in 0..(MaxPolls - 1) /\ polls = IF call.kind = "poll" THEN call.polls + 1 ELSE 0
    BY <1>2, <2>2, WebConstants DEF Settled
  <2> HIDE DEF polls
  <2>5. next \in CallType /\ next.pc = "wait" /\ next.kind = call.kind /\ next.polls = polls
    BY <1>1, <2>4 DEF CallType, PcSet
  <2> HIDE DEF next
  <2>6. new = next
    BY <1>1, <2>3, <2>5, PutIs DEF Slots
  <2>7. RoundsLeft(new) = MaxPolls - polls
    BY <2>5, <2>6 DEF RoundsLeft
  <2>8. RoundsLeft(call) = IF call.kind = "preview" THEN MaxPolls + 1 ELSE MaxPolls - call.polls
    BY <2>1 DEF RoundsLeft
  <2>9. StepsLeft(new.pc) = 6 /\ StepsLeft(call.pc) = 1
    BY <2>1, <2>5, <2>6 DEF StepsLeft
  <2>10. CASE call.kind = "preview"
    BY <1>2, <2>4, <2>7, <2>8, <2>9, <2>10 DEF Lowers, Variant
  <2>11. CASE call.kind = "poll"
    BY <1>2, <2>4, <2>7, <2>8, <2>9, <2>11 DEF Lowers, Variant
  <2> QED
    BY <2>1, <2>10, <2>11
<1> QED
  BY <1>3, <1>4

(* No other step touches the call of a preview that is under way. *)
LEMMA OthersKeepPreview ==
  ASSUME IInv, Next, NEW t \in Tabs, tabs[t].previewing,
         ~(Send(t, "preview") \/ Handle(t, "preview") \/ Fail(t, "preview")),
         ~(PollAgain(t) \/ PreviewAnswered(t))
  PROVE  calls'[t]["preview"] = calls[t]["preview"]
<1>1. ASSUME NEW u \in Tabs, NEW s \in Slots, u # t \/ s # "preview", NEW call, Put(u, s, call)
      PROVE  calls'[t]["preview"] = calls[t]["preview"]
  BY <1>1 DEF Put, IInv, CallsInv, Slots
<1>2. ASSUME NEW u \in Tabs, NEW s \in Slots, Handle(u, s)
      PROVE  calls'[t]["preview"] = calls[t]["preview"]
  <2>1. u # t \/ s # "preview"
    BY <1>2
  <2>2. \E call : Put(u, s, call)
    BY <1>2, Zenon DEF Handle, Admit, Login, Register, InsertUser, CreateSession, Logout, InsertPreview,
                       PublishPreview, Poll, Refuse, Answer, Step
  <2> QED
    BY <1>1, <2>1, <2>2
<1>3. ASSUME NEW u \in Tabs, NEW s \in Slots, Send(u, s) \/ Fail(u, s)
      PROVE  calls'[t]["preview"] = calls[t]["preview"]
  <2>1. (u # t \/ s # "preview") /\ \E call : Put(u, s, call)
    BY <1>3, Zenon DEF Send, Fail
  <2> QED
    BY <1>1, <2>1
<1>4. ASSUME NEW u \in Tabs, Answered(u) \/ PollAgain(u)
      PROVE  calls'[t]["preview"] = calls[t]["preview"]
  <2>1. PollAgain(u) \/ PreviewAnswered(u) => u # t /\ \E call : Put(u, "preview", call)
    BY Zenon DEF PollAgain, PreviewAnswered
  <2>2. MeAnswered(u) => Put(u, "me", Idle)
    BY DEF MeAnswered
  <2>3. FormAnswered(u) => Put(u, "form", Idle)
    BY DEF FormAnswered
  <2> QED
    BY <1>1, <1>4, <2>1, <2>2, <2>3 DEF Answered, Slots
<1>5. ASSUME NEW u \in Tabs, User(u) PROVE calls'[t]["preview"] = calls[t]["preview"]
  <2>1. RunPreview(u) => u # t /\ Put(u, "preview", Composed("preview"))
    BY DEF RunPreview
  <2>2. Submit(u) \/ SignOut(u) => \E call : Put(u, "form", call)
    BY Zenon DEF Submit, SignOut
  <2>3. Follow(u) => calls' = calls
    BY DEF Follow
  <2> QED
    BY <1>1, <1>5, <2>1, <2>2, <2>3 DEF User, Slots
<1>6. ASSUME NEW r \in Previews, WorkerSettles(r) PROVE calls' = calls
  BY <1>6 DEF WorkerSettles
<1>7. ASSUME NEW n \in Sessions, SessionExpires(n) PROVE calls' = calls
  BY <1>7 DEF SessionExpires
<1> QED
  BY <1>2, <1>3, <1>4, <1>5, <1>6, <1>7 DEF Next, Progress

(* A preview polls boundedly often, whatever becomes of the worker, the     *)
(* session and the answers (runPreview): a step that takes its call to      *)
(* another place lowers a natural number, and no step raises it.            *)
THEOREM PreviewIsBounded ==
  Spec => /\ [](\A t \in Tabs : Variant(calls[t]["preview"]) \in 1..(6 * MaxPolls + 12))
          /\ [][\A t \in Tabs : tabs[t].previewing /\ tabs'[t].previewing =>
                  Lowers(calls'[t]["preview"], calls[t]["preview"])]_vars
<1>1. IInv => \A t \in Tabs : Variant(calls[t]["preview"]) \in 1..(6 * MaxPolls + 12)
  <2> SUFFICES ASSUME IInv, NEW t \in Tabs PROVE Variant(calls[t]["preview"]) \in 1..(6 * MaxPolls + 12)
    OBVIOUS
  <2>1. calls[t]["preview"] \in CallType
    BY DEF IInv, CallsInv, Slots
  <2> QED
    BY <2>1, VariantRange
<1>2. IInv /\ [Next]_vars => [\A t \in Tabs : tabs[t].previewing /\ tabs'[t].previewing =>
                                Lowers(calls'[t]["preview"], calls[t]["preview"])]_vars
  <2> SUFFICES ASSUME IInv, Next, NEW t \in Tabs, tabs[t].previewing, tabs'[t].previewing
               PROVE  Lowers(calls'[t]["preview"], calls[t]["preview"])
    OBVIOUS
  <2>1. CASE Send(t, "preview") \/ Handle(t, "preview") \/ Fail(t, "preview")
    BY <2>1, ServedLowers
  <2>2. CASE PollAgain(t) \/ PreviewAnswered(t)
    BY <2>2, RoundsLower
  <2>3. calls[t]["preview"] \in CallType
    BY DEF IInv, CallsInv, Slots
  <2>4. Lowers(calls[t]["preview"], calls[t]["preview"])
    <3>1. Variant(calls[t]["preview"]) \in 1..(6 * MaxPolls + 12)
      BY <2>3, VariantRange
    <3> QED
      BY <3>1, WebConstants DEF Lowers
  <2> QED
    BY <2>1, <2>2, <2>4, OthersKeepPreview
<1> QED
  BY <1>1, <1>2, Invariant, PTL DEF Spec
=============================================================================
