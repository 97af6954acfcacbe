------------------------------ MODULE Sessions ------------------------------
(***************************************************************************)
(* Who is signed in to the web console: the login through Feishu, the      *)
(* table of sessions, and the administrators who end the sessions of       *)
(* others after a preview.                                                 *)
(*                                                                         *)
(* The server handles requests concurrently.  A login keeps its state in   *)
(* the memory of the process, leaves the lock to talk to Feishu, and takes *)
(* the time of its session before it gets its turn at the table.  A        *)
(* governance request authenticates first and acts later.  States and      *)
(* sessions are numbered as they appear.                                   *)
(***************************************************************************)
EXTENDS Naturals, Sequences, FiniteSets

CONSTANTS
    Browsers, People, OwnerOf,      \* OwnerOf[b]: the administrator at b
    StateLife, SessionLife, PreviewLife,
    MaxStates, MaxSessions,         \* max_pending_states, max_sessions
    MaxLogins, MaxPreviews, MaxTime,\* bounds: logins, previews, the clock
    Visits                          \* bound: callbacks with one state

ASSUME SessionsAssumption ==
    /\ OwnerOf \in [Browsers -> People]
    /\ StateLife \in Nat /\ SessionLife \in Nat /\ PreviewLife \in Nat
    /\ MaxStates \in Nat /\ MaxSessions \in Nat /\ MaxLogins \in Nat
    /\ MaxPreviews \in Nat /\ MaxTime \in Nat /\ Visits \in Nat

States == 1 .. MaxLogins

VARIABLES
    clock,
    pending,        \* _states: the states not used yet
    begun,          \* of each state begun: its browser
    visits, logins, \* callbacks delivered, and those being handled
    sessions,       \* workflow_console_sessions
    issued, ended,  \* of each session: the state it was issued for, its end
    cookies,        \* of each browser: the state and the session it carries
    work,           \* of each browser: the request of its administrator
    previews, events

oauth == <<pending, begun, visits, logins>>
table == <<sessions, issued, ended>>
admin == <<work, previews, events>>
sessionsVars == <<clock, oauth, table, cookies, admin>>

NoWork == [op |-> "none"]

SessionsInit ==
    /\ clock = 0
    /\ pending = {} /\ begun = << >> /\ visits = [s \in States |-> 0] /\ logins = {}
    /\ sessions = {} /\ issued = << >> /\ ended = << >>
    /\ cookies = [b \in Browsers |-> [state |-> 0, session |-> 0]]
    /\ work = [b \in Browsers |-> NoWork] /\ previews = << >> /\ events = << >>

-----------------------------------------------------------------------------
(* The table *)

(* get_active *)
Active(b) ==
    {x \in sessions : x.id = cookies[b].session /\ x.expires > clock}

(* S goes, each for a reason. *)
Drop(S, why) ==
    /\ sessions' = sessions \ S
    /\ ended' = [i \in DOMAIN ended |->
                    IF \E x \in S : x.id = i THEN why ELSE ended[i]]
    /\ UNCHANGED issued

Expired(now) == {x \in sessions : x.expires <= now}

(* The n oldest of S; which of several of one age is up to the digests. *)
Oldest(S, n) ==
    {V \in SUBSET S : /\ Cardinality(V) = n
                      /\ \A x \in V, y \in S \ V : x.created <= y.created}

(* create: one transaction under the lock of issuing. *)
Store(state, now) ==
    LET kept == sessions \ Expired(now)
        id == Len(issued) + 1
        room == Cardinality(kept) + 1 - MaxSessions IN
    \E V \in Oldest(kept, IF room > 0 THEN room ELSE 0) :
        /\ sessions' = (kept \ V) \cup
              {[id |-> id, person |-> OwnerOf[begun[state]],
                created |-> now, expires |-> now + SessionLife]}
        /\ issued' = Append(issued, state)
        /\ ended' = Append([i \in DOMAIN ended |->
                       IF \E x \in V : x.id = i THEN "evicted"
                       ELSE IF \E x \in Expired(now) : x.id = i THEN "expired"
                       ELSE ended[i]], "live")

-----------------------------------------------------------------------------
(* FeishuConsoleOAuthFlow *)

(* begin, for a browser that is not signed in *)
Login(b) ==
    /\ Len(begun) < MaxLogins /\ Active(b) = {}
    /\ LET s == Len(begun) + 1
           kept == {p \in pending : p.expires > clock}
           room == Cardinality(kept) >= MaxStates IN
       /\ \E old \in IF room THEN {p \in kept : \A q \in kept : p.expires <= q.expires}
                     ELSE {[state |-> 0]} :
             pending' = (kept \ {old}) \cup {[state |-> s, expires |-> clock + StateLife]}
       /\ begun' = Append(begun, b)
       /\ cookies' = [cookies EXCEPT ![b].state = s]
    /\ Drop({x \in sessions : x.id = cookies[b].session}, "expired")
    /\ UNCHANGED <<clock, visits, logins, admin>>

(* A slip: the state is looked up and stays. *)
Peeked(p) == pending

Popped(p) == pending \ {p}

(* Feishu sends the browser back, or the page is loaded once more; only    *)
(* the browser that carries the state is heard, and the state is used up   *)
(* before Feishu is asked. *)
Callback(s) ==
    /\ s <= Len(begun) /\ visits[s] < Visits
    /\ visits' = [visits EXCEPT ![s] = @ + 1]
    /\ \E p \in pending :
        /\ p.state = s /\ cookies[begun[s]].state = s
        /\ pending' = Popped(p)
        /\ logins' = IF p.expires <= clock THEN logins
                     ELSE logins \cup {[state |-> s, visit |-> visits'[s],
                                        pc |-> "exchange", at |-> 0]}
    /\ UNCHANGED <<clock, begun, table, cookies, admin>>

(* Feishu tells who it is, or the login fails. *)
Exchange(c) ==
    /\ c.pc = "exchange"
    /\ \/ logins' = (logins \ {c}) \cup {[c EXCEPT !.pc = "issue", !.at = clock]}
       \/ logins' = logins \ {c}
    /\ UNCHANGED <<clock, pending, begun, visits, table, cookies, admin>>

(* The answer to the callback carries the new session home, unless the     *)
(* browser has gone on without waiting for it. *)
Answer(s) ==
    \/ cookies' = [cookies EXCEPT ![begun[s]].session = Len(issued')]
    \/ UNCHANGED cookies

Issue(c) ==
    /\ c.pc = "issue"
    /\ logins' = logins \ {c}
    /\ Store(c.state, c.at) /\ Answer(c.state)
    /\ UNCHANGED <<clock, pending, begun, visits, admin>>

Logout(b) ==
    /\ cookies[b].session # 0
    /\ Drop({x \in sessions : x.id = cookies[b].session}, "logout")
    /\ cookies' = [cookies EXCEPT ![b].session = 0]
    /\ UNCHANGED <<clock, oauth, admin>>

-----------------------------------------------------------------------------
(* ConsoleAdminSessionService, one request of a browser at a time *)

(* What the page has ever listed or previewed, however long ago. *)
Shown(op) == IF op = "preview" THEN DOMAIN issued ELSE DOMAIN previews

Request(b) ==
    /\ work[b] = NoWork
    /\ \E x \in Active(b), op \in {"preview", "confirm"} : \E n \in Shown(op) :
          work' = [work EXCEPT ![b] = [op |-> op, of |-> n, current |-> x.id]]
    /\ UNCHANGED <<clock, oauth, table, cookies, previews, events>>

(* A session ends its own life with a logout only. *)
Foreign(b, id) == id # work[b].current

Target(b) == {x \in sessions : /\ x.id = work[b].of /\ Foreign(b, x.id)
                               /\ x.expires > clock}

Preview(b) ==
    /\ work[b].op = "preview"
    /\ work' = [work EXCEPT ![b] = NoWork]
    /\ \/ /\ Target(b) = {} /\ UNCHANGED previews
       \/ /\ Len(previews) < MaxPreviews
          /\ \E x \in Target(b) :
              previews' = Append(previews,
                  [actor |-> OwnerOf[b], target |-> x,
                   expires |-> clock + PreviewLife, consumed |-> FALSE])
    /\ UNCHANGED <<clock, oauth, table, cookies, events>>

(* A slip: it does not matter whether there was a row to delete. *)
DeletedAnyway(p) == p.expires > clock

(* The frozen row is still there. *)
Deleted(p) == p.expires > clock /\ p.target \in sessions /\ p.target.expires > clock

Confirm(b) ==
    /\ work[b].op = "confirm"
    /\ work' = [work EXCEPT ![b] = NoWork]
    /\ LET n == work[b].of  p == previews[n] IN
       IF /\ p.actor = OwnerOf[b] /\ ~p.consumed
          /\ Foreign(b, p.target.id) /\ Deleted(p)
       THEN /\ Drop({p.target} \cap sessions, "revoked")
            /\ previews' = [previews EXCEPT ![n].consumed = TRUE]
            /\ events' = Append(events,
                  [actor |-> OwnerOf[b], target |-> p.target.id, preview |-> n])
       ELSE UNCHANGED <<table, previews, events>>
    /\ UNCHANGED <<clock, oauth, cookies>>

-----------------------------------------------------------------------------
Tick ==
    /\ clock < MaxTime /\ clock' = clock + 1
    /\ UNCHANGED <<oauth, table, cookies, admin>>

(* The console stops and starts: states and requests are lost, not the table. *)
Restart ==
    /\ pending' = {} /\ logins' = {} /\ work' = [b \in Browsers |-> NoWork]
    /\ UNCHANGED <<clock, begun, visits, table, cookies, previews, events>>

SessionsNext ==
    \/ \E b \in Browsers : Login(b) \/ Logout(b) \/ Request(b) \/ Preview(b) \/ Confirm(b)
    \/ \E s \in States : Callback(s)
    \/ \E c \in logins : Exchange(c) \/ Issue(c)
    \/ Tick \/ Restart

SessionsSpec == SessionsInit /\ [][SessionsNext]_sessionsVars

-----------------------------------------------------------------------------
(* Types of all variables. *)
SessionsTypeOK ==
    /\ clock \in 0 .. MaxTime /\ begun \in Seq(Browsers)
    /\ \A x \in sessions : x.id \in DOMAIN issued /\ x.person \in People
    /\ \A b \in Browsers : cookies[b].session \in 0 .. Len(issued)
    /\ Len(ended) = Len(issued) /\ Len(previews) <= MaxPreviews

(* A sign-in makes one session, however often its page comes back and      *)
(* whatever is evicted meanwhile: no two sessions were issued for one      *)
(* state, the session a browser carries was issued for a login this        *)
(* browser began, and neither table exceeds its limit (console_auth.py     *)
(* finish pops the state under the lock; create evicts and inserts in one  *)
(* transaction). *)
OneSessionPerSignIn ==
    /\ SessionsTypeOK
    /\ \A i, j \in DOMAIN issued : issued[i] = issued[j] => i = j
    /\ \A b \in Browsers : cookies[b].session # 0 => begun[issued[cookies[b].session]] = b
    /\ Cardinality(sessions) <= MaxSessions /\ Cardinality(pending) <= MaxStates

(* The audit of revocations is true: its events and the consumed previews  *)
(* are the same, no session has two, and a session is in the audit exactly *)
(* when this is how it ended - not when it was logged out, evicted or      *)
(* expired between preview and confirmation - and a session in the table   *)
(* has not ended (console_admin_sessions.py 223-322). *)
AuditIsTrue ==
    /\ \A i, j \in DOMAIN events :
        events[i].target = events[j].target \/ events[i].preview = events[j].preview => i = j
    /\ \A n \in DOMAIN previews :
        previews[n].consumed <=> \E i \in DOMAIN events : events[i].preview = n
    /\ \A id \in DOMAIN issued :
        /\ ended[id] = "revoked" <=> \E i \in DOMAIN events : events[i].target = id
        /\ ended[id] = "live" <=> \E x \in sessions : x.id = id

=============================================================================
