----------------------------- MODULE WebClient ------------------------------
(***************************************************************************)
(* A browser with several tabs of the web interface and the account routes *)
(* of the API (apps/web/src: lib/api.ts, auth-provider.tsx, app-shell.tsx, *)
(* the login, register and new-monitor pages; apps/api/src/plugins/auth.ts,*)
(* server.ts, POST /api/previews, GET /api/executions/:id).                *)
(*                                                                         *)
(* The tabs share the cookie jar.  createSession sets the session and the  *)
(* CSRF cookie together, so one session number stands for both.  A call    *)
(* reads the CSRF cookie when it is composed and gets its cookies when it  *)
(* is sent; its answer sets or clears them when it arrives.                *)
(***************************************************************************)
EXTENDS Naturals, FiniteSets, FiniteSetsExt

CONSTANTS
  Tabs, Emails,
  Loading,       \* tabs that are still waiting for /auth/me in the beginning
  MaxSessions,   \* bound on the sessions of a behaviour
  MaxPreviews,   \* bound on the previews of a behaviour
  MaxActs,       \* bound on what the user does and on sessions that expire
  MaxPolls,      \* attempts of runPreview
  Nobody

ASSUME WebConstants ==
  /\ MaxSessions \in Nat /\ MaxPreviews \in Nat /\ MaxActs \in Nat /\ MaxPolls \in Nat \ {0}
  /\ Nobody \notin Emails /\ Loading \subseteq Tabs

NoSession == 0
Sessions == 1..MaxSessions
Previews == 1..MaxPreviews
Slots == {"me", "form", "preview"}

VARIABLES
  accounts,  \* rows of users for each email
  sessions,  \* rows of sessions: owner and state
  jar,       \* the cookies of the browser
  tabs,      \* page, user, loading, previewing of each tab
  calls,     \* calls of each tab: to /auth/me, of a form or sign-out, of a preview
  previews,  \* executions of previews
  acts

vars == <<accounts, sessions, jar, tabs, calls, previews, acts>>

Idle == [pc |-> "idle", kind |-> "none", email |-> Nobody, csrf |-> NoSession, token |-> NoSession,
         as |-> Nobody, row |-> 0, polls |-> 0, ok |-> FALSE, cookie |-> "keep", status |-> "none"]
Composed(kind) == [Idle EXCEPT !.pc = "composed", !.kind = kind, !.csrf = jar]

Init == /\ accounts = [e \in Emails |-> 0]
        /\ sessions = [n \in Sessions |-> [owner |-> Nobody, state |-> "unused", endedBy |-> NoSession]]
        /\ jar = NoSession
        /\ tabs = [t \in Tabs |-> [page |-> "register", user |-> Nobody, loading |-> t \in Loading,
                                   previewing |-> FALSE]]
        /\ calls = [t \in Tabs |-> [s \in Slots |-> IF s = "me" /\ t \in Loading THEN Composed("me") ELSE Idle]]
        /\ previews = [r \in Previews |-> [owner |-> Nobody, csrf |-> NoSession, status |-> "unused"]]
        /\ acts = 0

Pc(t, s) == calls[t][s].pc
Is(t, s, pc, kinds) == Pc(t, s) = pc /\ calls[t][s].kind \in kinds
Put(t, s, call) == calls' = [calls EXCEPT ![t][s] = call]
Step(t, s, pc) == Put(t, s, [calls[t][s] EXCEPT !.pc = pc])
Answer(t, s, ok) == Put(t, s, [calls[t][s] EXCEPT !.pc = "answered", !.ok = ok])
Refuse(t, s) == Answer(t, s, FALSE)

Server == UNCHANGED <<accounts, sessions, previews>>
Browser == UNCHANGED <<jar, tabs, acts>>

-----------------------------------------------------------------------------
(* What the user sees: a form, or the application once the user is known.  *)
ShowsApp(t) == tabs[t].page = "app" /\ ~tabs[t].loading /\ tabs[t].user # Nobody

(* The login page leaves when the user is known, the application when not. *)
Routed(tab) == IF tab.loading THEN tab
               ELSE IF tab.page = "app" /\ tab.user = Nobody THEN [tab EXCEPT !.page = "login"]
               ELSE IF tab.page = "login" /\ tab.user # Nobody THEN [tab EXCEPT !.page = "app"]
               ELSE tab

Act == acts < MaxActs /\ acts' = acts + 1

Follow(t) == /\ tabs[t].page \in {"login", "register"} /\ Act
             /\ \E page \in {"login", "register"} \ {tabs[t].page} :
                  tabs' = [tabs EXCEPT ![t] = Routed([@ EXCEPT !.page = page])]
             /\ UNCHANGED <<jar, calls>> /\ Server

(* The forms do not wait for the answer to /auth/me. *)
Submit(t) == /\ tabs[t].page \in {"login", "register"} /\ Pc(t, "form") = "idle" /\ Act
             /\ \E e \in Emails : Put(t, "form", [Composed(tabs[t].page) EXCEPT !.email = e])
             /\ UNCHANGED <<jar, tabs>> /\ Server

SignOut(t) == /\ ShowsApp(t) /\ Pc(t, "form") = "idle" /\ Act
              /\ Put(t, "form", Composed("logout"))
              /\ UNCHANGED <<jar, tabs>> /\ Server

RunPreview(t) == /\ ShowsApp(t) /\ ~tabs[t].previewing /\ Act
                 /\ tabs' = [tabs EXCEPT ![t].previewing = TRUE]
                 /\ Put(t, "preview", Composed("preview"))
                 /\ UNCHANGED jar /\ Server

PollsFromZero(t) == /\ Pc(t, "preview") = "wait"
                    /\ Put(t, "preview", [Composed("poll") EXCEPT !.row = calls[t]["preview"].row])
                    /\ Browser /\ Server

(* After the wait of 750 ms. *)
PollAgain(t) == /\ Pc(t, "preview") = "wait"
                /\ Put(t, "preview", [Composed("poll") EXCEPT !.row = calls[t]["preview"].row,
                                                             !.polls = calls[t]["preview"].polls])
                /\ Browser /\ Server

(* The browser attaches the cookies it has by now. *)
Send(t, s) == /\ Pc(t, s) = "composed"
              /\ Put(t, s, [calls[t][s] EXCEPT !.pc = "sent", !.token = jar])
              /\ Browser /\ Server

-----------------------------------------------------------------------------
Live(n) == n # NoSession /\ sessions[n].state = "live"
ChecksPresenceOnly(call) == call.token # NoSession /\ call.csrf # NoSession
SafeEqual(call) == call.token # NoSession /\ call.csrf = call.token
NeedsCsrf(kind) == kind \in {"logout", "preview"}
NeedsSession(kind) == kind \in {"me", "logout", "preview", "poll"}

(* The hook against forged requests, then authenticate; /auth/me has nothing *)
(* left to do.                                                              *)
Admit(t, s) ==
  LET call == calls[t][s] IN
  /\ call.pc = "sent"
  /\ IF (NeedsCsrf(call.kind) => SafeEqual(call)) /\ (NeedsSession(call.kind) => Live(call.token))
       THEN Put(t, s, [call EXCEPT !.pc = IF call.kind = "me" THEN "answered" ELSE "admitted",
                         !.ok = call.kind = "me",
                         !.as = IF NeedsSession(call.kind) THEN sessions[call.token].owner ELSE Nobody])
       ELSE Refuse(t, s)
  /\ Browser /\ Server

(* An unknown email and a wrong password get the same answer. *)
Login(t, s) == /\ Is(t, s, "admitted", {"login"})
               /\ \/ Refuse(t, s)
                  \/ accounts[calls[t][s].email] > 0 /\ Step(t, s, "account")
               /\ Browser /\ Server

(* The email is looked up, and hashing the password takes its time. *)
Register(t, s) == /\ Is(t, s, "admitted", {"register"})
                  /\ IF accounts[calls[t][s].email] > 0 THEN Refuse(t, s) ELSE Step(t, s, "hashed")
                  /\ Browser /\ Server

InsertWithoutUniqueIndex(t, s) ==
  /\ Pc(t, s) = "hashed"
  /\ accounts' = [accounts EXCEPT ![calls[t][s].email] = @ + 1] /\ Step(t, s, "account")
  /\ UNCHANGED <<sessions, previews>> /\ Browser

(* users_email_unique: the error handler answers 409. *)
InsertUser(t, s) ==
  /\ Pc(t, s) = "hashed"
  /\ IF accounts[calls[t][s].email] > 0
       THEN Refuse(t, s) /\ UNCHANGED accounts
       ELSE accounts' = [accounts EXCEPT ![calls[t][s].email] = @ + 1] /\ Step(t, s, "account")
  /\ UNCHANGED <<sessions, previews>> /\ Browser

Unused == {n \in Sessions : sessions[n].state = "unused"}

(* createSession, then the audit log.  When only the latter fails, the      *)
(* answer is an error that sets the cookies all the same.                   *)
CreateSession(t, s) ==
  /\ Pc(t, s) = "account"
  /\ \/ Refuse(t, s) /\ UNCHANGED sessions
     \/ /\ Unused # {}
        /\ sessions' = [sessions EXCEPT ![Min(Unused)] = [@ EXCEPT !.owner = calls[t][s].email, !.state = "live"]]
        /\ \E ok \in BOOLEAN :
             Put(t, s, [calls[t][s] EXCEPT !.pc = "answered", !.ok = ok, !.token = Min(Unused),
                                           !.as = calls[t][s].email, !.cookie = "set"])
  /\ UNCHANGED <<accounts, previews>> /\ Browser

Logout(t, s) ==
  LET call == calls[t][s] IN
  /\ Is(t, s, "admitted", {"logout"})
  /\ sessions' = IF Live(call.token)
                   THEN [sessions EXCEPT ![call.token] = [@ EXCEPT !.state = "deleted", !.endedBy = call.csrf]]
                   ELSE sessions
  /\ Put(t, s, [call EXCEPT !.pc = "answered", !.ok = TRUE, !.cookie = "clear"])
  /\ UNCHANGED <<accounts, previews>> /\ Browser

UnusedRows == {r \in Previews : previews[r].status = "unused"}

(* The input or the URL is refused, or the execution is inserted. *)
InsertPreview(t, s) ==
  LET call == calls[t][s] IN
  /\ Is(t, s, "admitted", {"preview"})
  /\ \/ Refuse(t, s) /\ UNCHANGED previews
     \/ /\ UnusedRows # {}
        /\ previews' = [previews EXCEPT ![Min(UnusedRows)] =
                          [owner |-> call.as, csrf |-> call.csrf, status |-> "queued"]]
        /\ Put(t, s, [call EXCEPT !.pc = "inserted", !.row = Min(UnusedRows)])
  /\ UNCHANGED <<accounts, sessions>> /\ Browser

(* A job that cannot be queued takes the row with it. *)
PublishPreview(t, s) ==
  /\ Pc(t, s) = "inserted"
  /\ \/ Answer(t, s, TRUE) /\ UNCHANGED previews
     \/ Refuse(t, s) /\ previews' = [previews EXCEPT ![calls[t][s].row].status = "deleted"]
  /\ UNCHANGED <<accounts, sessions>> /\ Browser

(* Only the owner sees an execution. *)
Poll(t, s) ==
  LET call == calls[t][s]  row == previews[call.row] IN
  /\ Is(t, s, "admitted", {"poll"})
  /\ Put(t, s, [call EXCEPT !.pc = "answered", !.status = row.status,
                            !.ok = row.status # "deleted" /\ row.owner = call.as])
  /\ Browser /\ Server

(* The request or its answer is lost, or the API dies before it publishes.  *)
Fail(t, s) == /\ Pc(t, s) \in {"sent", "inserted", "answered"}
              /\ Put(t, s, [calls[t][s] EXCEPT !.pc = "answered", !.ok = FALSE, !.cookie = "keep"])
              /\ Browser /\ Server

Handle(t, s) == \/ Admit(t, s) \/ Login(t, s) \/ Register(t, s) \/ InsertUser(t, s)
                \/ CreateSession(t, s) \/ Logout(t, s) \/ InsertPreview(t, s) \/ PublishPreview(t, s)
                \/ Poll(t, s)

-----------------------------------------------------------------------------
Cookies(call) == CASE call.cookie = "set" -> call.token
                   [] call.cookie = "clear" -> NoSession
                   [] OTHER -> jar

Deliver(t, s) == Pc(t, s) = "answered" /\ jar' = Cookies(calls[t][s]) /\ UNCHANGED acts /\ Server

(* /auth/me: the user, or nobody for any error, even after a sign-in. *)
MeAnswered(t) ==
  /\ Deliver(t, "me") /\ Put(t, "me", Idle)
  /\ tabs' = [tabs EXCEPT ![t] = Routed([@ EXCEPT !.loading = FALSE,
                 !.user = IF calls[t]["me"].ok THEN calls[t]["me"].as ELSE Nobody])]

(* signIn, signUp, signOut: only a success changes the user and the page.   *)
FormAnswered(t) ==
  LET call == calls[t]["form"] IN
  /\ Deliver(t, "form") /\ Put(t, "form", Idle)
  /\ tabs' = [tabs EXCEPT ![t] =
       CASE call.ok /\ call.kind = "logout" -> Routed([@ EXCEPT !.user = Nobody, !.page = "login"])
         [] call.ok /\ call.kind # "logout" -> Routed([@ EXCEPT !.user = call.as, !.page = "app"])
         [] OTHER -> @]

Verdict(call) == call.kind = "poll" /\ call.status # "queued"
Settled(call, polls) == ~call.ok \/ Verdict(call) \/ polls = MaxPolls

(* runPreview: the first poll follows at once, the others after a wait, as  *)
(* long as attempts are left and no verdict is there.                       *)
PreviewAnswered(t) ==
  LET call == calls[t]["preview"]
      polls == IF call.kind = "poll" THEN call.polls + 1 ELSE 0
  IN /\ Deliver(t, "preview")
     /\ tabs' = [tabs EXCEPT ![t].previewing = ~Settled(call, polls)]
     /\ Put(t, "preview", IF Settled(call, polls) THEN Idle ELSE [call EXCEPT !.pc = "wait", !.polls = polls])

(* The worker settles a preview; a session gets too old. *)
WorkerSettles(r) == /\ previews[r].status = "queued"
                    /\ \E verdict \in {"succeeded", "failed"} : previews' = [previews EXCEPT ![r].status = verdict]
                    /\ UNCHANGED <<accounts, sessions, calls>> /\ Browser

SessionExpires(n) == /\ Live(n) /\ Act
                     /\ sessions' = [sessions EXCEPT ![n].state = "expired"]
                     /\ jar' \in {jar, IF jar = n THEN NoSession ELSE jar}
                     /\ UNCHANGED <<accounts, previews, calls, tabs>>

Answered(t) == MeAnswered(t) \/ FormAnswered(t) \/ PreviewAnswered(t)
Progress(t) == Answered(t) \/ PollAgain(t) \/ \E s \in Slots : Send(t, s) \/ Handle(t, s)
User(t) == Follow(t) \/ Submit(t) \/ SignOut(t) \/ RunPreview(t)

Next == \/ \E t \in Tabs : User(t) \/ Progress(t) \/ \E s \in Slots : Fail(t, s)
        \/ \E r \in Previews : WorkerSettles(r)
        \/ \E n \in Sessions : SessionExpires(n)

Spec == Init /\ [][Next]_vars

(* A call is sent, handled and answered, or fails; timers fire.  Nothing is *)
(* assumed of the worker.                                                   *)
Fairness == \A t \in Tabs : WF_vars(Progress(t))
FairSpec == Spec /\ Fairness

-----------------------------------------------------------------------------
TypeOK ==
  /\ accounts \in [Emails -> Nat]
  /\ sessions \in [Sessions -> [owner : Emails \cup {Nobody}, endedBy : 0..MaxSessions,
                                state : {"unused", "live", "expired", "deleted"}]]
  /\ jar \in 0..MaxSessions
  /\ tabs \in [Tabs -> [page : {"login", "register", "app"}, user : Emails \cup {Nobody},
                        loading : BOOLEAN, previewing : BOOLEAN]]
  /\ \A t \in Tabs : tabs[t].previewing = (Pc(t, "preview") # "idle")
  /\ \A t \in Tabs, s \in Slots : calls[t][s].polls < MaxPolls
  /\ previews \in [Previews -> [owner : Emails \cup {Nobody}, csrf : 0..MaxSessions,
                                status : {"unused", "queued", "succeeded", "failed", "deleted"}]]
  /\ acts \in 0..MaxActs

(* An email has one account, however registrations with it overlap. *)
OneAccountPerEmail == \A e \in Emails : accounts[e] <= 1

(* A mutation runs under the session whose CSRF cookie the page read, even   *)
(* when another tab signs in as somebody else before the cookies are sent.   *)
MutationsRunAsComposed ==
  /\ \A r \in Previews : previews[r].status # "unused" =>
       previews[r].csrf # NoSession /\ previews[r].owner = sessions[previews[r].csrf].owner
  /\ \A n \in Sessions : sessions[n].state = "deleted" => sessions[n].endedBy = n

(* Running a preview ends, whatever becomes of the worker and the session.   *)
PreviewingEnds == \A t \in Tabs : tabs[t].previewing ~> ~tabs[t].previewing
=============================================================================
