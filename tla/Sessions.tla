------------------------------- MODULE Sessions -------------------------------
(***************************************************************************)
(* Who may do what (internal/auth/session.go, server.go, and the handlers  *)
(* of handlers.go that log in and out and manage users), over the user     *)
(* store.  Sessions and login attempts live in memory and end with the     *)
(* process.  A login takes three locks one after the other, so logins and  *)
(* changes of the users come in between.  Time passes in ticks.            *)
(***************************************************************************)
EXTENDS Accounts, FiniteSets, TLC

CONSTANTS Logins,    \* concurrent login requests
          Ids,       \* bound: sessions at a time
          Grants,    \* bound: the roles users are created with
          Attempts,  \* failed attempts after which a name is refused
          Window,    \* how long an attempt counts
          TTL,       \* sessionTTL
          MaxTime,   \* bound: time
          NoSession

\* Times are numbers, some attempts are allowed, and logins can be counted.
ASSUME SessionsAssumption == /\ Attempts \in Nat \ {0} /\ Window \in Nat \ {0}
                             /\ TTL \in Nat \ {0} /\ MaxTime \in Nat
                             /\ Grants \subseteq Roles /\ IsFiniteSet(Logins)

Session == [user : Names, role : Roles, expires : 0..(MaxTime + TTL)]
\* What stands for no session is none.
ASSUME NoSessionAssumption == NoSession \notin Session

VARIABLES now,
          sessions,   \* SessionManager.sessions: id -> [user, role, expires]
          attempts,   \* Handler.loginAttempts: name -> time -> how many
          login,      \* where each login request is, and for whom
          refusals,   \* history: wrong passwords answered within the window
          issued      \* history: what each session was made with, until a logout

memory == <<sessions, attempts, login, refusals, issued>>
vars == <<accounts, now, memory>>

Times == 0..MaxTime
NoAttempts == [u \in Names |-> [t \in Times |-> 0]]
Idle == [phase |-> "idle", user |-> "admin", role |-> "viewer"]

TypeOK ==
  /\ TypeOKAccounts
  /\ now \in Times
  /\ sessions \in [Ids -> Session \cup {NoSession}]
  /\ attempts \in [Names -> [Times -> Nat]] /\ refusals \in [Names -> [Times -> Nat]]
  /\ login \in [Logins -> [phase : {"idle", "allowed", "right", "wrong"}, user : Names, role : Roles]]
  /\ issued \in [Ids -> Session \cup {NoSession}]

Empty == /\ sessions' = [i \in Ids |-> NoSession] /\ issued' = [i \in Ids |-> NoSession]
         /\ attempts' = NoAttempts /\ refusals' = NoAttempts
         /\ login' = [l \in Logins |-> Idle]

Init == /\ InitAccounts
        /\ now = 0
        /\ sessions = [i \in Ids |-> NoSession] /\ issued = [i \in Ids |-> NoSession]
        /\ attempts = NoAttempts /\ refusals = NoAttempts
        /\ login = [l \in Logins |-> Idle]

------------------------------------------------------------------------------
\* Login: the limit, the password, and the session or the recorded attempt.

\* Mutation: off by one.
LimitedMutant(count) == count > Attempts
Limited(count) == count >= Attempts

Total(f) == LET sum[t \in 0..(MaxTime + 1)] == IF t = 0 THEN 0 ELSE sum[t - 1] + f[t - 1]
            IN sum[MaxTime + 1]

Recent(f) == [t \in Times |-> IF t <= now /\ now - t < Window THEN f[t] ELSE 0]

\* isRateLimited also drops the attempts that count no more.
CheckLimit(l, u) ==
  /\ up /\ login[l].phase = "idle"
  /\ attempts' = [attempts EXCEPT ![u] = Recent(@)]
  /\ login' = IF Limited(Total(Recent(attempts[u]))) THEN login
              ELSE [login EXCEPT ![l] = [Idle EXCEPT !.phase = "allowed", !.user = u]]
  /\ UNCHANGED <<accounts, now, sessions, refusals, issued>>

Authenticate(l) ==
  /\ up /\ login[l].phase = "allowed"
  /\ LET u == login[l].user
     IN \/ /\ u \in DOMAIN users
           /\ login' = [login EXCEPT ![l].phase = "right", ![l].role = users[u]]
        \/ login' = [login EXCEPT ![l].phase = "wrong"]
  /\ UNCHANGED <<accounts, now, sessions, attempts, refusals, issued>>

RecordAttempt(l) ==
  /\ up /\ login[l].phase = "wrong"
  /\ attempts' = [attempts EXCEPT ![login[l].user][now] = @ + 1]
  /\ refusals' = [refusals EXCEPT ![login[l].user][now] = @ + 1]
  /\ login' = [login EXCEPT ![l] = Idle]
  /\ UNCHANGED <<accounts, now, sessions, issued>>

\* Mutation: a session at its last moment is dropped too.
ExpiredMutant(s) == s.expires <= now
Expired(s) == s.expires < now

\* RequireAuth, by Get.
Valid(i) == sessions[i] # NoSession /\ ~Expired(sessions[i])

CreateSession(l, i) ==
  /\ up /\ login[l].phase = "right" /\ ~Valid(i)
  /\ LET s == [user |-> login[l].user, role |-> login[l].role, expires |-> now + TTL]
     IN /\ sessions' = [sessions EXCEPT ![i] = s]
        /\ issued' = [issued EXCEPT ![i] = s]
  /\ login' = [login EXCEPT ![l] = Idle]
  /\ UNCHANGED <<accounts, now, attempts, refusals>>

\* A session that is out of date is not looked for.
Logout(i) ==
  /\ up /\ Valid(i)
  /\ sessions' = [sessions EXCEPT ![i] = NoSession]
  /\ issued' = [issued EXCEPT ![i] = NoSession]
  /\ UNCHANGED <<accounts, now, attempts, login, refusals>>

\* cleanupLoop, from time to time.
Cleanup ==
  /\ up
  /\ sessions' = [i \in Ids |-> IF sessions[i] # NoSession /\ Expired(sessions[i]) THEN NoSession
                                ELSE sessions[i]]
  /\ UNCHANGED <<accounts, now, attempts, login, refusals, issued>>

------------------------------------------------------------------------------
\* The routes that only an administrator may use.

RoleCanManageUsers(role) == role = "admin"

\* requireAdmin looks at the role the session was made with.
ByAdmin == \E i \in Ids : Valid(i) /\ RoleCanManageUsers(sessions[i].role)

\* What ends with the process ends here too.
Kept == IF up' THEN UNCHANGED memory ELSE Empty

CreateUser(u, role) == ByAdmin /\ Create(u, role) /\ UNCHANGED now /\ Kept
DeleteUser(u) == ByAdmin /\ Delete(u) /\ UNCHANGED now /\ Kept

------------------------------------------------------------------------------
Starting == Start /\ UNCHANGED <<now, memory>>
Editing == Edit /\ UNCHANGED <<now, memory>>
Stopping == Stop /\ Empty /\ UNCHANGED now

Tick == /\ now < MaxTime /\ now' = now + 1
        /\ refusals' = [u \in Names |-> [t \in Times |-> IF t + Window > now' THEN refusals[u][t] ELSE 0]]
        /\ UNCHANGED <<accounts, sessions, attempts, login, issued>>

Next ==
  \/ Starting \/ Editing \/ Stopping \/ Tick \/ Cleanup
  \/ \E l \in Logins, u \in Names : CheckLimit(l, u)
  \/ \E l \in Logins : Authenticate(l) \/ RecordAttempt(l) \/ \E i \in Ids : CreateSession(l, i)
  \/ \E i \in Ids : Logout(i)
  \/ \E u \in Names, role \in Grants : CreateUser(u, role)
  \/ \E u \in Names : DeleteUser(u)

Spec == Init /\ [][Next]_vars

------------------------------------------------------------------------------
\* Properties.

\* Within any window no more wrong passwords are answered for a name than the limit
\* and the logins that had passed it together; attempts are never forgotten early.
RefusalsAreBounded ==
  \A u \in Names : Total(refusals[u]) < Attempts + Cardinality(Logins)

\* A session lasts for its time with the rights it was made with, or until its
\* logout, whenever the clean-up runs, and no longer.
SessionsLastTheirTime ==
  \A i \in Ids : Valid(i) <=> issued[i] # NoSession /\ now <= issued[i].expires
=============================================================================
