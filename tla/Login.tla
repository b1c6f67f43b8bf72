------------------------------- MODULE Login -------------------------------
(***************************************************************************)
(* Register, login, logout and the session middleware of package handler,  *)
(* for one account.  Postgres keeps the time of the last login, in whole   *)
(* seconds; a token carries the time of its own login and is accepted      *)
(* while the two are the same.  Handlers run beside each other and split   *)
(* at their database call; responses reach the browser late, out of order  *)
(* or not at all.  A token is the second it carries.                       *)
(***************************************************************************)
EXTENDS Naturals

CONSTANTS Browsers, NoBrowser,
          Calls,     \* bound: requests under way
          MaxClock   \* bound: seconds

ASSUME MaxClockAssumption == MaxClock \in Nat /\ MaxClock > 1
ASSUME BrowsersAssumption == NoBrowser \notin Browsers

VARIABLES
  clock,    \* time.Now().Unix()
  session,  \* player.session_ts; NoToken: the player is not registered
  jar,      \* the two cookies of a browser
  call,     \* where each request stands
  stored,   \* the seconds that logins have stored (read by no code)
  again,    \* those that two logins have stored (read by no code)
  latest,   \* the last of the seconds that logins have stored (read by no code)
  left      \* those that a logout has ended (read by no code)

loginVars == <<clock, session, jar, call, stored, again, latest, left>>

NoToken == 0

Seconds == 1..MaxClock

Tokens == {NoToken} \cup Seconds

NoCookies == [access |-> NoToken, refresh |-> NoToken]

(* "ts" is that of the player in the handler's hands.                      *)
Request(at, browser, ts, cookies) ==
  [at |-> at, browser |-> browser, ts |-> ts, cookies |-> cookies]

Idle == Request("idle", NoBrowser, NoToken, NoCookies)

Now(c, at) == call[c].at = at

Goes(c, at) == call' = [call EXCEPT ![c].at = at]

Done(c) == call' = [call EXCEPT ![c] = Idle]

LoginInit ==
  /\ clock = 2
  /\ session = NoToken
  /\ jar = [b \in Browsers |-> NoCookies]
  /\ call = [c \in Calls |-> Idle]
  /\ stored = {} /\ again = {} /\ latest = NoToken /\ left = {}

-----------------------------------------------------------------------------
(* login and register.                                                     *)

(* The time is taken after the password has been compared.                 *)
Login(c, b) ==
  /\ Now(c, "idle") /\ session # NoToken
  /\ call' = [call EXCEPT ![c] = Request("login", b, clock, NoCookies)]
  /\ UNCHANGED <<clock, session, jar, stored, again, latest, left>>

Register(c, b) ==
  /\ Now(c, "idle")
  /\ call' = [call EXCEPT ![c] = Request("register", b, clock, NoCookies)]
  /\ UNCHANGED <<clock, session, jar, stored, again, latest, left>>

Stores(c) ==
  /\ session' = call[c].ts
  /\ stored' = stored \cup {call[c].ts}
  /\ again' = again \cup (stored \cap {call[c].ts})
  /\ latest' = call[c].ts
  /\ Goes(c, "entered")
  /\ UNCHANGED <<clock, jar, left>>

UpdatePlayerSession(c) == Now(c, "login") /\ Stores(c)

(* The insert fails for a name that is taken.                              *)
CreatePlayer(c) == Now(c, "register") /\ session = NoToken /\ Stores(c)

(* Any failure of the two.                                                 *)
EnterFails(c) ==
  /\ Now(c, "login") \/ Now(c, "register")
  /\ Done(c)
  /\ UNCHANGED <<clock, session, jar, stored, again, latest, left>>

(* The response sets both cookies.                                         *)
Entered(c) ==
  /\ Now(c, "entered")
  /\ LET b == call[c].browser
     IN jar' \in {jar, [jar EXCEPT ![b] = [access |-> call[c].ts, refresh |-> call[c].ts]]}
  /\ Done(c)
  /\ UNCHANGED <<clock, session, stored, again, latest, left>>

-----------------------------------------------------------------------------
(* sessionMiddleware.                                                      *)

Send(c, b) ==
  /\ Now(c, "idle")
  /\ call' = [call EXCEPT ![c] = Request("sent", b, NoToken, jar[b])]
  /\ UNCHANGED <<clock, session, jar, stored, again, latest, left>>

Refreshes(c) == call[c].cookies.access = NoToken

(* Mutant: a refresh token is good by itself.                              *)
ValidTokens(c) ==
  IF Refreshes(c) THEN {call[c].cookies.refresh}
  ELSE {call[c].cookies.access} \cap {session}

(* The access cookie decides if it is there, else the refresh cookie does. *)
(* dbPlayerFromToken compares with what is stored.                         *)
Accepted(c) ==
  {IF Refreshes(c) THEN call[c].cookies.refresh ELSE call[c].cookies.access} \cap {session}

(* The handler works with the player of the database.                      *)
LetIn(c) ==
  /\ Now(c, "sent")
  /\ \E ts \in Accepted(c) \ {NoToken} : call' = [call EXCEPT ![c].at = "in", ![c].ts = ts]
  /\ UNCHANGED <<clock, session, jar, stored, again, latest, left>>

(* No token, a token of another session, or GetPlayer fails: refreshCookie *)
(* takes the refresh cookie back, the other path takes nothing back.       *)
Refuse(c) ==
  /\ Now(c, "sent")
  /\ IF Refreshes(c) /\ call[c].cookies.refresh # NoToken /\ Accepted(c) = {}
     THEN Goes(c, "refused")
     ELSE Done(c)
  /\ UNCHANGED <<clock, session, jar, stored, again, latest, left>>

(* deleteCookie names neither domain nor path, so a browser may keep what  *)
(* newRefreshCookie set.                                                   *)
Refused(c) ==
  /\ Now(c, "refused")
  /\ jar' \in {jar, [jar EXCEPT ![call[c].browser].refresh = NoToken]}
  /\ Done(c)
  /\ UNCHANGED <<clock, session, stored, again, latest, left>>

(* The response of a handler that only reads, or of a logout that failed,  *)
(* with the access cookie that is new after a refresh.                     *)
Served(c) ==
  /\ Now(c, "in")
  /\ jar' \in {jar, IF Refreshes(c) THEN [jar EXCEPT ![call[c].browser].access = call[c].ts] ELSE jar}
  /\ Done(c)
  /\ UNCHANGED <<clock, session, stored, again, latest, left>>

-----------------------------------------------------------------------------
(* logout.                                                                 *)

(* Mutant: the session is written back as it was.                          *)
SameSecond(ts) == ts

(* Mutant: the session is made one second newer.                           *)
OneAhead(ts) == ts + 1

OneBack(ts) == ts - 1

Logout(c) ==
  /\ Now(c, "in")
  /\ session' = OneBack(call[c].ts)
  /\ left' = left \cup {call[c].ts}
  /\ Goes(c, "out")
  /\ UNCHANGED <<clock, jar, stored, again, latest>>

(* Only cookies that came with the request are deleted: after a refresh    *)
(* the response sets an access cookie that is worth nothing.               *)
LoggedOut(c) ==
  /\ Now(c, "out")
  /\ LET b == call[c].browser
         access == IF Refreshes(c) THEN {call[c].ts} ELSE {jar[b].access, NoToken}
     IN \/ UNCHANGED jar
        \/ \E a \in access, r \in {jar[b].refresh, NoToken} :
             jar' = [jar EXCEPT ![b] = [access |-> a, refresh |-> r]]
  /\ Done(c)
  /\ UNCHANGED <<clock, session, stored, again, latest, left>>

-----------------------------------------------------------------------------
(* The browser drops cookies whose time is over, the access cookie an hour *)
(* after it was made, the refresh cookie a year after the login.           *)
CookieExpires(b) ==
  /\ jar' \in {[jar EXCEPT ![b].access = NoToken], [jar EXCEPT ![b].refresh = NoToken]}
  /\ UNCHANGED <<clock, session, call, stored, again, latest, left>>

Tick ==
  /\ clock < MaxClock
  /\ clock' = clock + 1
  /\ UNCHANGED <<session, jar, call, stored, again, latest, left>>

Handle(c) ==
  \/ UpdatePlayerSession(c) \/ CreatePlayer(c) \/ EnterFails(c) \/ Entered(c)
  \/ LetIn(c) \/ Refuse(c) \/ Refused(c)
  \/ Served(c) \/ Logout(c) \/ LoggedOut(c)

Ask(c, b) == Login(c, b) \/ Register(c, b) \/ Send(c, b)

LoginNext ==
  \/ \E c \in Calls : Handle(c)
  \/ \E c \in Calls, b \in Browsers : Ask(c, b)
  \/ \E b \in Browsers : CookieExpires(b)
  \/ Tick

LoginSpec == LoginInit /\ [][LoginNext]_loginVars
-----------------------------------------------------------------------------
Cookies == [access : Tokens, refresh : Tokens]

(* Type invariant; no session is newer than the clock.                     *)
LoginTypeOK ==
  /\ clock \in Seconds
  /\ session \in 0..clock
  /\ jar \in [Browsers -> Cookies]
  /\ call \in [Calls -> [at : {"idle", "login", "register", "entered", "sent", "in", "refused", "out"},
                         browser : Browsers \cup {NoBrowser}, ts : Tokens, cookies : Cookies]]
  /\ stored \subseteq Seconds /\ again \subseteq stored /\ left \subseteq stored
  /\ latest \in Tokens

(* A session that a login or a logout has ended does not come back, whoever*)
(* is late with a login, a logout or a refresh, except by the grain of the *)
(* clock: another login in the same second, or a logout of a login one     *)
(* second later, which writes one second back (handler/handler.go:153,183).*)
EndedSessionStaysEnded ==
  [][session' # session /\ session' \in stored
       => session' \in again' \/ session' + 1 \in stored]_loginVars

(* A request is let in with the second of the login that was stored last,  *)
(* or with the second before one that logged out: whatever cookies are sent*)
(* or set late, a login shuts out all others, and a logout its own         *)
(* (handler/middleware.go:59-76, 113, 133).                                *)
EntersBySession ==
  [][\A c \in Calls :
       call'[c].at = "in" /\ call[c].at # "in"
         => /\ call'[c].ts \in stored
            /\ call'[c].ts = latest \/ call'[c].ts + 1 \in left]_loginVars

=============================================================================
