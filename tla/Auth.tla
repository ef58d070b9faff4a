-------------------------------- MODULE Auth --------------------------------
(***************************************************************************)
(* Logins, sessions and the session middleware of the management API.      *)
(*                                                                         *)
(* A caller is one HTTP request in flight: a login waits for the password  *)
(* hash between the rate check and the registration of its failure, and an *)
(* admitted request runs its handler after the middleware let it pass.     *)
(* The code reads the time and then waits for a mutex of AuthInner         *)
(* (register_failure alone reads it under the mutex), so what the time was *)
(* is part of a waiting call; every other step below runs under one of the *)
(* two mutexes.  A session token is a number, its hash and its CSRF token  *)
(* are not represented; time is a counter.                                 *)
(***************************************************************************)
EXTENDS Naturals, Sequences, FiniteSets

CONSTANTS
  Address,             \* client addresses
  Caller,              \* requests that can be in flight together
  LoginWindow,         \* LOGIN_WINDOW
  MaxLoginFailures,    \* MAX_LOGIN_FAILURES
  MaxFailureAddresses, \* MAX_FAILURE_ADDRESSES
  MaxSessions,         \* MAX_SESSIONS
  SessionTtl,          \* session_ttl
  MaxClock,            \* bound: length of the run
  MaxTokens            \* bound: sessions ever created

ASSUME TtlAssumption == SessionTtl \in Nat
ASSUME LoginAssumption ==
  IsFiniteSet(Caller) /\ MaxLoginFailures \in Nat \ {0} /\ LoginWindow \in Nat

VARIABLES
  clock,     \* Instant::now()
  failures,  \* AuthInner.failures: times of the failed logins per address, numbered
             \* (the deque's order is never used)
  sessions,  \* AuthInner.sessions: expiry per live token
  calls,     \* what each caller is doing
  ends,      \* history: expiry of every token ever issued
  loggedOut  \* history: tokens that were revoked

authVars == <<clock, failures, sessions, calls, ends, loggedOut>>

Idle == [step |-> "idle"]

AuthInit ==
  /\ clock = 0 /\ failures = <<>> /\ sessions = <<>>
  /\ calls = [c \in Caller |-> Idle]
  /\ ends = <<>> /\ loggedOut = {}

\* A map without some of its keys (HashMap::retain, HashMap::remove).
Keep(f, S) == [x \in DOMAIN f \cap S |-> f[x]]
Without(f, x) == Keep(f, DOMAIN f \ {x})

\* HashMap::insert.
With(f, x, y) == [z \in DOMAIN f \cup {x} |-> IF z = x THEN y ELSE f[z]]

Goes(c, call) == calls' = [calls EXCEPT ![c] = call]

Tick ==
  /\ clock < MaxClock
  /\ clock' = clock + 1
  /\ UNCHANGED <<failures, sessions, calls, ends, loggedOut>>

-----------------------------------------------------------------------------
(* Login. *)

\* Attempts older than the window are dropped, and addresses without any.  A
\* time after now, which another call has read meanwhile, is in the window:
\* duration_since saturates.
InWindow(now, t) == now <= t + LoginWindow
Recent(now, times) == {i \in DOMAIN times : InWindow(now, times[i])}
Retained(now) ==
  LET recent == [a \in DOMAIN failures |-> Keep(failures[a], Recent(now, failures[a]))]
  IN Keep(recent, {a \in DOMAIN recent : DOMAIN recent[a] # {}})

Attempts(f, a) == IF a \in DOMAIN f THEN f[a] ELSE <<>>
Size(times) == Cardinality(DOMAIN times)

\* push_back of the time.
Pushed(times) == With(times, CHOOSE i \in 1 .. Size(times) + 1 : i \notin DOMAIN times, clock)

LimitPassed(a, now) == Size(Attempts(Retained(now), a)) > MaxLoginFailures
RateLimited(a, now) == Size(Attempts(Retained(now), a)) >= MaxLoginFailures

\* login, is_rate_limited: the time is read before the mutex is awaited.
Login(c, a) ==
  /\ calls[c] = Idle
  /\ Goes(c, [step |-> "rate", address |-> a, now |-> clock])
  /\ UNCHANGED <<clock, failures, sessions, ends, loggedOut>>

\* With the mutex the map is cleaned and the address gets an entry; an address
\* at the limit is answered 429.
LoginCheck(c) ==
  /\ calls[c].step = "rate"
  /\ LET a == calls[c].address
         now == calls[c].now
     IN /\ failures' = With(Retained(now), a, Attempts(Retained(now), a))
        /\ Goes(c, IF RateLimited(a, now) THEN Idle ELSE [step |-> "verify", address |-> a])
  /\ UNCHANGED <<clock, sessions, ends, loggedOut>>

\* verify is false: register_failure makes room by removing some address when
\* the map is full and does not have this one.
LoginFails(c) ==
  /\ calls[c].step = "verify"
  /\ LET a == calls[c].address
         full == /\ Cardinality(DOMAIN failures) >= MaxFailureAddresses
                 /\ a \notin DOMAIN failures
     IN \E kept \in IF full THEN {Without(failures, b) : b \in DOMAIN failures}
                            ELSE {failures} :
          failures' = With(kept, a, Pushed(Attempts(kept, a)))
  /\ Goes(c, Idle)
  /\ UNCHANGED <<clock, sessions, ends, loggedOut>>

\* verify is true: clear_failures.
LoginSucceeds(c) ==
  /\ calls[c].step = "verify"
  /\ failures' = Without(failures, calls[c].address)
  /\ Goes(c, [step |-> "create", since |-> clock])
  /\ UNCHANGED <<clock, sessions, ends, loggedOut>>

\* sessions.retain(expires_at > now).
AllSessions(now) == sessions
Unexpired(now) == Keep(sessions, {t \in DOMAIN sessions : sessions[t] > now})

\* create_session: the time is read twice before the mutex is awaited, for the
\* new session (made) and for the expired ones (now); at the limit some session
\* makes room.
CreateSession(c) ==
  /\ calls[c].step = "create" /\ Len(ends) < MaxTokens
  /\ \E made, now \in calls[c].since .. clock :
       LET token == Len(ends) + 1
           full == Cardinality(DOMAIN Unexpired(now)) >= MaxSessions
       IN /\ made <= now
          /\ \E kept \in IF full THEN {Without(Unexpired(now), t) : t \in DOMAIN Unexpired(now)}
                                 ELSE {Unexpired(now)} :
               sessions' = With(kept, token, made + SessionTtl)
          /\ ends' = Append(ends, made + SessionTtl)
  /\ Goes(c, Idle)
  /\ UNCHANGED <<clock, failures, loggedOut>>

-----------------------------------------------------------------------------
(* Requests with a session cookie. *)

\* require_session, authenticate: the time is read before the mutex is awaited.
Authenticate(c, t) ==
  /\ calls[c] = Idle
  /\ Goes(c, [step |-> "authenticate", token |-> t, now |-> clock])
  /\ UNCHANGED <<clock, failures, sessions, ends, loggedOut>>

\* With the mutex the sessions expired at that time are dropped and the token
\* is looked up; then the CSRF header of a request that may change something;
\* 401 and 403 end the request.
Admits(t, now, reads, csrf) == t \in DOMAIN Unexpired(now) /\ (reads \/ csrf)
RequireSession(c, reads, csrf) ==
  /\ calls[c].step = "authenticate"
  /\ LET t == calls[c].token
         now == calls[c].now
     IN /\ sessions' = Unexpired(now)
        /\ Goes(c, IF Admits(t, now, reads, csrf) THEN [step |-> "handler", token |-> t]
                                                  ELSE Idle)
  /\ UNCHANGED <<clock, failures, ends, loggedOut>>

\* logout, of a session that may have expired or been evicted by now.
Logout(c) ==
  /\ calls[c].step = "handler"
  /\ sessions' = Without(sessions, calls[c].token)
  /\ loggedOut' = loggedOut \cup {calls[c].token}
  /\ Goes(c, Idle)
  /\ UNCHANGED <<clock, failures, ends>>

\* Any other handler answers, or the client disconnects: axum drops the
\* handler's future where it waits.
Ends(c) ==
  /\ calls[c] # Idle
  /\ Goes(c, Idle)
  /\ UNCHANGED <<clock, failures, sessions, ends, loggedOut>>

-----------------------------------------------------------------------------
AuthNext ==
  \/ Tick
  \/ \E c \in Caller :
       \/ \E a \in Address : Login(c, a)
       \/ LoginCheck(c)
       \/ LoginFails(c) \/ LoginSucceeds(c) \/ CreateSession(c)
       \/ \E t \in DOMAIN ends : Authenticate(c, t)
       \/ \E reads, csrf \in BOOLEAN : RequireSession(c, reads, csrf)
       \/ Logout(c) \/ Ends(c)

AuthSpec == AuthInit /\ [][AuthNext]_authVars

-----------------------------------------------------------------------------
(* Properties. *)

\* The failures of an address that count within a window exceed the limit by
\* less than the number of requests in flight: each may have passed the rate
\* check before the others' failures were registered (is_rate_limited and
\* register_failure are two steps around the password hash).  A success, or
\* another address that needs room in the map, makes an address start again.
GuessesAreLimited ==
  \A a \in DOMAIN failures :
    Cardinality(Recent(clock, failures[a])) < MaxLoginFailures + Cardinality(Caller)

\* No request is let through with a session that is logged out by the time it
\* is let through, or that had expired when authenticate read the time, whatever
\* logins, evictions, logouts and requests happen while it waits for the mutex.
\* (A session that expires during that wait is still good for this request.)
AdmittedOnlyWhileOpen ==
  [][\A c \in Caller :
       calls[c].step # "handler" /\ calls'[c].step = "handler" =>
         LET t == calls'[c].token IN t \notin loggedOut /\ calls[c].now < ends[t]]_authVars
=============================================================================
