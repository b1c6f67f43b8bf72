---------------------------- MODULE AccessProofs ----------------------------
(***************************************************************************)
(* Theorems about Access (and with it Login) for any number of browsers,   *)
(* requests, seconds and crashes and any life of an invite.                *)
(***************************************************************************)
EXTENDS Access, TLAPS

(* Every token that is about was made by a login whose second is stored,   *)
(* and no second lies ahead of the clock.                                  *)
Minted(t) == t = NoToken \/ t \in stored

JarMinted == \A b \in Browsers : Minted(jar[b].access) /\ Minted(jar[b].refresh)

CallMinted ==
  \A c \in Calls :
    /\ Minted(call[c].cookies.access) /\ Minted(call[c].cookies.refresh)
    /\ call[c].at \in {"login", "register"} => call[c].ts \in 1..clock
    /\ call[c].at \in {"entered", "in", "out"} => call[c].ts \in stored

SecondsPast == stored \subseteq 1..clock

(* A login stored what the session is, or a logout wrote it one back.      *)
SessionSource == session = latest \/ session + 1 \in left

LoginInv == LoginTypeOK /\ SecondsPast /\ JarMinted /\ CallMinted /\ SessionSource

(* An invite has a game.                                                   *)
InviteInv ==
  /\ made \in 0..clock
  /\ invite \in {NoToken} \cup made..clock
  /\ crashes \in 0..MaxCrashes
  /\ made = NoToken => invite = NoToken

IInv == LoginInv /\ InviteInv

USE MaxClockAssumption, BrowsersAssumption, LifeAssumption DEF NoToken, Seconds, Tokens

LEMMA InitInv == AccessInit => IInv
<1> SUFFICES ASSUME AccessInit PROVE IInv
  OBVIOUS
<1>1. LoginTypeOK
  BY DEF AccessInit, LoginInit, LoginTypeOK, Cookies, NoCookies, Idle, Request
<1>2. SecondsPast /\ JarMinted /\ SessionSource
  BY DEF AccessInit, LoginInit, SecondsPast, JarMinted, Minted, NoCookies, SessionSource
<1>3. CallMinted
  BY DEF AccessInit, LoginInit, CallMinted, Minted, NoCookies, Idle, Request
<1>4. InviteInv
  BY DEF AccessInit, LoginInit, InviteInv
<1>5. QED BY <1>1, <1>2, <1>3, <1>4 DEF IInv, LoginInv

-----------------------------------------------------------------------------
(* What a step of login must leave: the steps of Login one by one.         *)

LEMMA NewCallInv ==
  ASSUME LoginInv, NEW c \in Calls,
         NEW at \in {"login", "register", "sent"}, NEW b \in Browsers,
         NEW ts \in Tokens, at # "sent" => ts = clock,
         NEW cookies \in Cookies, Minted(cookies.access), Minted(cookies.refresh),
         call' = [call EXCEPT ![c] = [at |-> at, browser |-> b, ts |-> ts, cookies |-> cookies]],
         UNCHANGED <<clock, session, jar, stored, again, latest, left>>
  PROVE  LoginInv'
<1>1. LoginTypeOK'
  BY DEF LoginInv, LoginTypeOK
<1>2. SecondsPast' /\ JarMinted' /\ SessionSource'
  BY DEF LoginInv, SecondsPast, JarMinted, Minted, SessionSource
<1>3. CallMinted'
  BY DEF LoginInv, LoginTypeOK, CallMinted, Minted
<1>4. QED BY <1>1, <1>2, <1>3 DEF LoginInv

LEMMA AskInv ==
  ASSUME LoginInv, NEW c \in Calls, NEW b \in Browsers, Ask(c, b)
  PROVE  LoginInv'
<1>1. NoCookies \in Cookies /\ Minted(NoCookies.access) /\ Minted(NoCookies.refresh)
  BY DEF NoCookies, Cookies, Minted
<1>2. UNCHANGED <<clock, session, jar, stored, again, latest, left>>
  BY DEF Ask, Login, Register, Send
<1>3. clock \in Tokens
  BY DEF LoginInv, LoginTypeOK
<1>4. CASE Login(c, b)
  <2>1. call' = [call EXCEPT ![c] = [at |-> "login", browser |-> b, ts |-> clock, cookies |-> NoCookies]]
    BY <1>4 DEF Login, Request
  <2>2. QED BY <2>1, <1>1, <1>2, <1>3, NewCallInv
<1>5. CASE Register(c, b)
  <2>1. call' = [call EXCEPT ![c] = [at |-> "register", browser |-> b, ts |-> clock, cookies |-> NoCookies]]
    BY <1>5 DEF Register, Request
  <2>2. QED BY <2>1, <1>1, <1>2, <1>3, NewCallInv
<1>6. CASE Send(c, b)
  <2>1. call' = [call EXCEPT ![c] = [at |-> "sent", browser |-> b, ts |-> NoToken, cookies |-> jar[b]]]
    BY <1>6 DEF Send, Request
  <2>2. jar[b] \in Cookies /\ Minted(jar[b].access) /\ Minted(jar[b].refresh)
    BY DEF LoginInv, LoginTypeOK, JarMinted
  <2>3. NoToken \in Tokens
    OBVIOUS
  <2>4. QED BY <2>1, <2>2, <2>3, <1>2, NewCallInv
<1>7. QED BY <1>4, <1>5, <1>6 DEF Ask

(* A request that ends leaves no trace but the cookies it sets.            *)
LEMMA ResponseInv ==
  ASSUME LoginInv, NEW c \in Calls, Done(c),
         NEW b, NEW cookies \in Cookies, Minted(cookies.access), Minted(cookies.refresh),
         jar' \in {jar, [jar EXCEPT ![b] = cookies]},
         UNCHANGED <<clock, session, stored, again, latest, left>>
  PROVE  LoginInv'
<1>1. LoginTypeOK'
  <2>1. jar' \in [Browsers -> Cookies]
    BY DEF LoginInv, LoginTypeOK
  <2>2. call' \in [Calls -> [at : {"idle", "login", "register", "entered", "sent", "in", "refused", "out"},
                            browser : Browsers \cup {NoBrowser}, ts : Tokens, cookies : Cookies]]
    BY DEF LoginInv, LoginTypeOK, Done, Idle, Request, NoCookies, Cookies
  <2>3. /\ clock' \in Seconds /\ session' \in 0..clock' /\ latest' \in Tokens
        /\ stored' \subseteq Seconds /\ again' \subseteq stored' /\ left' \subseteq stored'
    BY DEF LoginInv, LoginTypeOK
  <2>4. QED BY <2>1, <2>2, <2>3, Zenon DEF LoginTypeOK
<1>2. SecondsPast' /\ SessionSource'
  BY DEF LoginInv, SecondsPast, SessionSource
<1>3. JarMinted'
  BY DEF LoginInv, LoginTypeOK, JarMinted, Minted
<1>4. CallMinted'
  BY DEF LoginInv, LoginTypeOK, CallMinted, Minted, Done, Idle, Request, NoCookies
<1>5. QED BY <1>1, <1>2, <1>3, <1>4 DEF LoginInv

LEMMA ServedInv ==
  ASSUME LoginInv, NEW c \in Calls, Served(c)
  PROVE  LoginInv'
<1> DEFINE b == call[c].browser
           cookies == [access |-> call[c].ts, refresh |-> jar[b].refresh]
<1>1. CASE jar' = jar
  <2>1. NoCookies \in Cookies /\ Minted(NoCookies.access) /\ Minted(NoCookies.refresh)
    BY DEF NoCookies, Cookies, Minted
  <2>2. Done(c) /\ UNCHANGED <<clock, session, stored, again, latest, left>>
    BY DEF Served
  <2>3. jar' \in {jar, [jar EXCEPT ![b] = NoCookies]}
    BY <1>1
  <2>4. QED BY <2>1, <2>2, <2>3, ResponseInv
<1>2. CASE jar' # jar
  <2>1. b \in Browsers /\ jar' = [jar EXCEPT ![b] = cookies]
    BY <1>2 DEF Served, LoginInv, LoginTypeOK, Cookies
  <2>2. cookies \in Cookies /\ Minted(cookies.access) /\ Minted(cookies.refresh)
    BY <2>1 DEF Served, Now, LoginInv, LoginTypeOK, CallMinted, JarMinted, Minted, Cookies
  <2>3. Done(c) /\ UNCHANGED <<clock, session, stored, again, latest, left>>
    BY DEF Served
  <2>4. QED BY <2>1, <2>2, <2>3, ResponseInv
<1>3. QED BY <1>1, <1>2

(* A request that goes on with the player it has, or with one whose second *)
(* is stored.                                                              *)
LEMMA GoesInv ==
  ASSUME LoginInv, NEW c \in Calls,
         NEW at \in {"entered", "in", "refused", "out"}, NEW ts \in Tokens,
         call' = [call EXCEPT ![c].at = at, ![c].ts = ts],
         at # "refused" => ts \in stored',
         stored \subseteq stored', stored' \subseteq 1..clock,
         again' \subseteq stored', session' \in 0..clock,
         left' \subseteq stored', latest' \in Tokens, SessionSource',
         UNCHANGED <<clock, jar>>
  PROVE  LoginInv'
<1>1. SecondsPast'
  BY DEF SecondsPast
<1>2. LoginTypeOK'
  <2>1. call' \in [Calls -> [at : {"idle", "login", "register", "entered", "sent", "in", "refused", "out"},
                            browser : Browsers \cup {NoBrowser}, ts : Tokens, cookies : Cookies]]
    BY DEF LoginInv, LoginTypeOK
  <2>2. clock' \in Seconds /\ clock' = clock /\ session' \in 0..clock' /\ jar' \in [Browsers -> Cookies]
    BY DEF LoginInv, LoginTypeOK
  <2>3. stored' \subseteq Seconds /\ left' \subseteq stored' /\ latest' \in Tokens
    BY <2>2, LoginInv DEF LoginInv, LoginTypeOK
  <2>4. QED BY <2>1, <2>2, <2>3, Zenon DEF LoginTypeOK
<1>3. JarMinted'
  BY DEF LoginInv, JarMinted, Minted
<1>4. CallMinted'
  BY DEF LoginInv, LoginTypeOK, CallMinted, Minted
<1>5. QED BY <1>1, <1>2, <1>3, <1>4 DEF LoginInv

LEMMA StoresInv ==
  ASSUME LoginInv, NEW c \in Calls, Stores(c), call[c].at \in {"login", "register"}
  PROVE  LoginInv'
<1> DEFINE ts == call[c].ts
<1>1. ts \in 1..clock /\ ts \in Tokens
  BY DEF LoginInv, LoginTypeOK, CallMinted
<1>2. call' = [call EXCEPT ![c].at = "entered", ![c].ts = ts]
  BY DEF Stores, Goes, LoginInv, LoginTypeOK
<1>3. /\ stored \subseteq stored' /\ stored' \subseteq 1..clock /\ ts \in stored'
      /\ UNCHANGED <<clock, jar>>
  BY <1>1 DEF Stores, LoginInv, SecondsPast
<1>4. again' \subseteq stored' /\ left' \subseteq stored'
  BY DEF Stores, LoginInv, LoginTypeOK
<1>5. session' \in 0..clock /\ latest' \in Tokens /\ SessionSource'
  BY <1>1 DEF Stores, LoginInv, LoginTypeOK, SessionSource
<1>6. QED BY <1>1, <1>2, <1>3, <1>4, <1>5, GoesInv

(* The handler's player is the one that the token was made for, so its     *)
(* second is stored.                                                       *)
LEMMA LetInInv ==
  ASSUME LoginInv, NEW c \in Calls, LetIn(c)
  PROVE  /\ LoginInv'
         /\ session \in stored /\ call' = [call EXCEPT ![c].at = "in", ![c].ts = session]
<1>1. PICK ts \in Accepted(c) \ {NoToken} : call' = [call EXCEPT ![c].at = "in", ![c].ts = ts]
  BY DEF LetIn
<1>2. ts = session /\ Minted(ts) /\ ts # NoToken
  BY <1>1 DEF Accepted, LoginInv, CallMinted
<1>3. ts \in stored /\ ts \in Tokens
  BY <1>2 DEF Minted, LoginInv, LoginTypeOK
<1>4. /\ session' \in 0..clock /\ again' \subseteq stored'
      /\ left' \subseteq stored' /\ latest' \in Tokens /\ SessionSource'
      /\ UNCHANGED <<clock, jar>> /\ stored' = stored /\ stored' \subseteq 1..clock
  BY DEF LetIn, LoginInv, LoginTypeOK, SecondsPast, SessionSource
<1>5. call' = [call EXCEPT ![c].at = "in", ![c].ts = ts]
  BY <1>1
<1>6. LoginInv'
  BY <1>3, <1>4, <1>5, GoesInv
<1>7. QED BY <1>1, <1>2, <1>3, <1>6

LEMMA LogoutInv ==
  ASSUME LoginInv, NEW c \in Calls, Logout(c)
  PROVE  LoginInv' /\ session' + 1 \in stored
<1> DEFINE ts == call[c].ts
<1>1. ts \in stored /\ ts \in Tokens /\ ts \in 1..clock
  BY DEF Logout, Now, LoginInv, LoginTypeOK, CallMinted, SecondsPast
<1>2. call' = [call EXCEPT ![c].at = "out", ![c].ts = ts]
  BY DEF Logout, Goes, LoginInv, LoginTypeOK
<1>3. clock \in Nat
  BY DEF LoginInv, LoginTypeOK
<1>4. session' \in 0..clock /\ session' + 1 = ts
  BY <1>1, <1>3 DEF Logout, OneBack
<1>5. /\ again' \subseteq stored' /\ UNCHANGED <<clock, jar>>
      /\ stored' = stored /\ stored' \subseteq 1..clock
      /\ left' = left \cup {ts} /\ latest' \in Tokens
  BY DEF Logout, LoginInv, LoginTypeOK, SecondsPast
<1>6. left' \subseteq stored' /\ SessionSource'
  BY <1>1, <1>4, <1>5 DEF SessionSource, LoginInv, LoginTypeOK
<1>7. QED BY <1>1, <1>2, <1>4, <1>5, <1>6, GoesInv

LEMMA RefuseInv ==
  ASSUME LoginInv, NEW c \in Calls, Refuse(c)
  PROVE  LoginInv'
<1>1. UNCHANGED <<clock, session, jar, stored, again, latest, left>>
  BY DEF Refuse
<1>2. CASE Done(c)
  <2>1. NoCookies \in Cookies /\ Minted(NoCookies.access) /\ Minted(NoCookies.refresh)
    BY DEF NoCookies, Cookies, Minted
  <2>2. jar' \in {jar, [jar EXCEPT ![NoBrowser] = NoCookies]}
    BY <1>1
  <2>3. QED BY <1>1, <1>2, <2>1, <2>2, ResponseInv
<1>3. CASE Goes(c, "refused")
  <2>1. call[c].ts \in Tokens
    BY DEF LoginInv, LoginTypeOK
  <2>2. call' = [call EXCEPT ![c].at = "refused", ![c].ts = call[c].ts]
    BY <1>3 DEF Goes, LoginInv, LoginTypeOK
  <2>3. /\ again' \subseteq stored' /\ session' \in 0..clock
        /\ left' \subseteq stored' /\ latest' \in Tokens /\ SessionSource'
    BY <1>1 DEF LoginInv, LoginTypeOK, SessionSource
  <2>4. stored' = stored /\ stored' \subseteq 1..clock /\ UNCHANGED <<clock, jar>>
    BY <1>1 DEF LoginInv, SecondsPast
  <2>5. QED BY <2>1, <2>2, <2>3, <2>4, GoesInv
<1>4. QED BY <1>2, <1>3 DEF Refuse

LEMMA EnteredInv ==
  ASSUME LoginInv, NEW c \in Calls, Entered(c)
  PROVE  LoginInv'
<1> DEFINE b == call[c].browser
           cookies == [access |-> call[c].ts, refresh |-> call[c].ts]
<1>1. cookies \in Cookies /\ Minted(cookies.access) /\ Minted(cookies.refresh)
  BY DEF Entered, Now, LoginInv, LoginTypeOK, CallMinted, Minted, Cookies
<1>2. Done(c) /\ UNCHANGED <<clock, session, stored, again, latest, left>>
  BY DEF Entered
<1>3. jar' \in {jar, [jar EXCEPT ![b] = cookies]}
  BY DEF Entered
<1>4. QED BY <1>1, <1>2, <1>3, ResponseInv

LEMMA EndsInv ==
  ASSUME LoginInv, NEW c \in Calls, Done(c), UNCHANGED <<clock, session, jar, stored, again, latest, left>>
  PROVE  LoginInv'
<1>1. NoCookies \in Cookies /\ Minted(NoCookies.access) /\ Minted(NoCookies.refresh)
  BY DEF NoCookies, Cookies, Minted
<1>2. jar' \in {jar, [jar EXCEPT ![NoBrowser] = NoCookies]}
  OBVIOUS
<1>3. QED BY <1>1, <1>2, ResponseInv

LEMMA RefusedInv ==
  ASSUME LoginInv, NEW c \in Calls, Refused(c)
  PROVE  LoginInv'
<1> DEFINE b == call[c].browser
           cookies == [access |-> jar[b].access, refresh |-> NoToken]
<1>1. Done(c) /\ UNCHANGED <<clock, session, stored, again, latest, left>>
  BY DEF Refused
<1>2. CASE jar' = jar
  BY <1>1, <1>2, EndsInv
<1>3. CASE jar' # jar
  <2>1. b \in Browsers /\ jar' = [jar EXCEPT ![b] = cookies]
    BY <1>3 DEF Refused, LoginInv, LoginTypeOK, Cookies
  <2>2. cookies \in Cookies /\ Minted(cookies.access) /\ Minted(cookies.refresh)
    BY <2>1 DEF LoginInv, LoginTypeOK, JarMinted, Minted, Cookies
  <2>3. QED BY <1>1, <2>1, <2>2, ResponseInv
<1>4. QED BY <1>2, <1>3

LEMMA LoggedOutInv ==
  ASSUME LoginInv, NEW c \in Calls, LoggedOut(c)
  PROVE  LoginInv'
<1> DEFINE b == call[c].browser
           accesses == IF Refreshes(c) THEN {call[c].ts} ELSE {jar[b].access, NoToken}
<1>1. Done(c) /\ UNCHANGED <<clock, session, stored, again, latest, left>>
  BY DEF LoggedOut
<1>2. CASE jar' = jar
  BY <1>1, <1>2, EndsInv
<1>3. CASE jar' # jar
  <2>1. PICK a \in accesses, r \in {jar[b].refresh, NoToken} :
          jar' = [jar EXCEPT ![b] = [access |-> a, refresh |-> r]]
    BY <1>3 DEF LoggedOut
  <2> DEFINE cookies == [access |-> a, refresh |-> r]
  <2>2. b \in Browsers
    BY <1>3, <2>1 DEF LoginInv, LoginTypeOK
  <2>3. call[c].ts \in Tokens /\ call[c].ts \in stored /\ jar[b] \in Cookies
    BY <2>2 DEF LoggedOut, Now, LoginInv, LoginTypeOK, CallMinted
  <2>4. Minted(a) /\ Minted(r) /\ a \in Tokens /\ r \in Tokens
    BY <2>2, <2>3 DEF LoginInv, JarMinted, Minted, Cookies
  <2>5. cookies \in Cookies /\ Minted(cookies.access) /\ Minted(cookies.refresh)
    BY <2>4 DEF Cookies
  <2>6. jar' \in {jar, [jar EXCEPT ![b] = cookies]}
    BY <2>1
  <2>7. QED BY <1>1, <2>5, <2>6, ResponseInv
<1>4. QED BY <1>2, <1>3

LEMMA HandleInv ==
  ASSUME LoginInv, NEW c \in Calls, Handle(c)
  PROVE  LoginInv'
<1>1. ASSUME UpdatePlayerSession(c) \/ CreatePlayer(c) PROVE LoginInv'
  BY <1>1, StoresInv DEF UpdatePlayerSession, CreatePlayer, Now
<1>2. ASSUME EnterFails(c) PROVE LoginInv'
  BY <1>2, EndsInv DEF EnterFails
<1>3. QED
  BY <1>1, <1>2, EnteredInv, LetInInv, RefuseInv, RefusedInv, ServedInv, LogoutInv, LoggedOutInv
     DEF Handle

LEMMA CookieExpiresInv ==
  ASSUME LoginInv, NEW b \in Browsers, CookieExpires(b)
  PROVE  LoginInv'
<1>1. jar' \in [Browsers -> Cookies]
  <2>1. jar \in [Browsers -> Cookies] /\ jar[b] \in Cookies /\ NoToken \in Tokens
    BY DEF LoginInv, LoginTypeOK
  <2>2. CASE jar' = [jar EXCEPT ![b].access = NoToken]
    BY <2>1, <2>2 DEF Cookies
  <2>3. CASE jar' = [jar EXCEPT ![b].refresh = NoToken]
    BY <2>1, <2>3 DEF Cookies
  <2>4. QED BY <2>2, <2>3 DEF CookieExpires
<1>2. LoginTypeOK'
  BY <1>1 DEF CookieExpires, LoginInv, LoginTypeOK
<1>3. JarMinted'
  <2>1. SUFFICES ASSUME NEW d \in Browsers
                 PROVE  (Minted(jar[d].access) /\ Minted(jar[d].refresh))'
    BY DEF JarMinted
  <2>2. /\ jar'[d].access = jar[d].access \/ jar'[d].access = NoToken
        /\ jar'[d].refresh = jar[d].refresh \/ jar'[d].refresh = NoToken
    BY DEF CookieExpires, LoginInv, LoginTypeOK, Cookies
  <2>3. Minted(jar[d].access) /\ Minted(jar[d].refresh) /\ stored' = stored
    BY DEF CookieExpires, LoginInv, JarMinted
  <2>4. QED BY <2>2, <2>3 DEF Minted
<1>4. CallMinted' /\ SecondsPast' /\ SessionSource'
  BY DEF CookieExpires, LoginInv, CallMinted, SecondsPast, Minted, SessionSource
<1>5. QED BY <1>2, <1>3, <1>4 DEF LoginInv

LEMMA TickInv ==
  ASSUME LoginInv, Tick
  PROVE  LoginInv'
<1>1. clock \in Nat /\ clock' = clock + 1 /\ clock' \in Seconds
  BY DEF Tick, LoginInv, LoginTypeOK
<1>2. LoginTypeOK'
  BY <1>1 DEF Tick, LoginInv, LoginTypeOK
<1>3. SecondsPast' /\ SessionSource'
  BY <1>1 DEF Tick, LoginInv, SecondsPast, SessionSource
<1>4. JarMinted'
  BY DEF Tick, LoginInv, JarMinted, Minted
<1>5. CallMinted'
  BY <1>1 DEF Tick, LoginInv, CallMinted, Minted
<1>6. QED BY <1>2, <1>3, <1>4, <1>5 DEF LoginInv

LEMMA LoginStepInv ==
  ASSUME LoginInv, LoginNext \/ UNCHANGED loginVars
  PROVE  LoginInv'
<1>1. CASE UNCHANGED loginVars
  BY <1>1 DEF loginVars, LoginInv, LoginTypeOK, SecondsPast, JarMinted, CallMinted, Minted,
     SessionSource
<1>2. CASE LoginNext
  BY <1>2, HandleInv, AskInv, CookieExpiresInv, TickInv DEF LoginNext
<1>3. QED BY <1>1, <1>2

-----------------------------------------------------------------------------
(* What a step does to the session.                                        *)

LEMMA EndedSessionStep ==
  ASSUME LoginInv, LoginNext, session' # session, session' \in stored
  PROVE  session' \in again' \/ session' + 1 \in stored
<1>1. ASSUME NEW c \in Calls, UpdatePlayerSession(c) \/ CreatePlayer(c)
      PROVE  session' \in again'
  BY <1>1 DEF UpdatePlayerSession, CreatePlayer, Stores
<1>2. ASSUME NEW c \in Calls, Logout(c)
      PROVE  session' + 1 \in stored
  BY <1>2, LogoutInv
<1>3. ASSUME NEW c \in Calls, EnterFails(c) \/ Entered(c) \/ LetIn(c) \/ Refuse(c)
                \/ Refused(c) \/ Served(c) \/ LoggedOut(c)
      PROVE  session' = session
  BY <1>3 DEF EnterFails, Entered, LetIn, Refuse, Refused, Served, LoggedOut
<1>4. ASSUME NEW c \in Calls, NEW b \in Browsers, Ask(c, b)
      PROVE  session' = session
  BY <1>4 DEF Ask, Login, Register, Send
<1>5. ASSUME NEW b \in Browsers, CookieExpires(b)
      PROVE  session' = session
  BY <1>5 DEF CookieExpires
<1>6. ASSUME Tick
      PROVE  session' = session
  BY <1>6 DEF Tick
<1>7. QED BY <1>1, <1>2, <1>3, <1>4, <1>5, <1>6 DEF LoginNext, Handle

(* The request of one step changes; the others stand where they stood.     *)
LEMMA OthersStand ==
  ASSUME LoginInv, NEW c \in Calls, NEW request, request.at # "in",
         call' = [call EXCEPT ![c] = request],
         NEW d \in Calls, call'[d].at = "in"
  PROVE  call[d].at = "in"
BY DEF LoginInv, LoginTypeOK

(* Whose session lets a request in.                                        *)
Entitled(ts) == ts \in stored /\ (ts = latest \/ ts + 1 \in left)

LEMMA EntersStep ==
  ASSUME LoginInv, LoginNext, NEW d \in Calls, call'[d].at = "in", call[d].at # "in"
  PROVE  Entitled(call'[d].ts)
<1>1. ASSUME NEW c \in Calls, Done(c)
      PROVE  FALSE
  BY <1>1, Idle.at # "in", OthersStand DEF Done, Idle, Request
<1>2. ASSUME NEW c \in Calls, NEW at \in {"entered", "refused", "out"}, Goes(c, at)
      PROVE  FALSE
  BY <1>2 DEF Goes, LoginInv, LoginTypeOK
<1>3. ASSUME NEW c \in Calls, Handle(c)
      PROVE  Entitled(call'[d].ts)
  <2>1. CASE UpdatePlayerSession(c) \/ CreatePlayer(c)
    BY <1>2, <2>1 DEF UpdatePlayerSession, CreatePlayer, Stores
  <2>2. CASE EnterFails(c) \/ Entered(c) \/ Refused(c) \/ Served(c) \/ LoggedOut(c)
    BY <1>1, <2>2 DEF EnterFails, Entered, Refused, Served, LoggedOut
  <2>3. CASE LetIn(c)
    <3>1. session \in stored /\ call' = [call EXCEPT ![c].at = "in", ![c].ts = session]
      BY <2>3, LetInInv
    <3>2. call'[d].ts = session
      BY <3>1 DEF LoginInv, LoginTypeOK
    <3>3. QED BY <3>1, <3>2 DEF Entitled, LoginInv, SessionSource
  <2>4. CASE Refuse(c)
    BY <1>1, <1>2, <2>4 DEF Refuse
  <2>5. CASE Logout(c)
    BY <1>2, <2>5 DEF Logout
  <2>6. QED BY <1>3, <2>1, <2>2, <2>3, <2>4, <2>5 DEF Handle
<1>4. ASSUME NEW c \in Calls, NEW b \in Browsers, Ask(c, b)
      PROVE  FALSE
  BY <1>4 DEF Ask, Login, Register, Send, Request, LoginInv, LoginTypeOK
<1>5. ASSUME Tick \/ \E b \in Browsers : CookieExpires(b)
      PROVE  FALSE
  BY <1>5 DEF Tick, CookieExpires
<1>6. QED BY <1>3, <1>4, <1>5 DEF LoginNext

-----------------------------------------------------------------------------
(* The game and its invite.                                                *)

LEMMA InviteStep ==
  ASSUME IInv, AccessNext
  PROVE  InviteInv'
<1>1. /\ clock \in Nat /\ made \in 0..clock /\ invite \in {NoToken} \cup made..clock
      /\ clock # NoToken /\ crashes \in 0..MaxCrashes /\ Life \in Nat /\ MaxCrashes \in Nat
      /\ made = NoToken => invite = NoToken
  BY DEF IInv, LoginInv, LoginTypeOK, InviteInv
<1>2. CASE LoginNext /\ UNCHANGED <<made, invite, crashes>>
  <2>1. clock' = clock \/ clock' = clock + 1
    <3>1. CASE Tick
      BY <3>1 DEF Tick
    <3>2. CASE ~Tick
      BY <1>2, <3>2 DEF LoginNext, Handle, Ask, UpdatePlayerSession, CreatePlayer, Stores, EnterFails,
       Entered, LetIn, Refuse, Refused, Served, Logout, LoggedOut, Login, Register, Send,
       CookieExpires
    <3>3. QED BY <3>1, <3>2
  <2>2. QED BY <1>1, <1>2, <2>1 DEF InviteInv
<1>3. ASSUME NEW c \in Calls, CreateRoom(c) PROVE InviteInv'
  BY <1>1, <1>3 DEF CreateRoom, Served, InviteInv
<1>4. ASSUME NEW c \in Calls, JoinRoom(c) PROVE InviteInv'
  BY <1>1, <1>4 DEF JoinRoom, Served, Stored, InviteInv
<1>5. CASE Cleanup
  BY <1>1, <1>5 DEF Cleanup, loginVars, InviteInv
<1>6. CASE Crash
  BY <1>1, <1>6 DEF Crash, InviteInv
<1>7. QED BY <1>2, <1>3, <1>4, <1>5, <1>6 DEF AccessNext

LEMMA CrashInv ==
  ASSUME LoginInv, Crash
  PROVE  LoginInv'
<1>1. LoginTypeOK'
  BY DEF Crash, LoginInv, LoginTypeOK, Idle, Request, NoCookies, Cookies
<1>2. SecondsPast' /\ JarMinted' /\ SessionSource'
  BY DEF Crash, LoginInv, SecondsPast, JarMinted, Minted, SessionSource
<1>3. CallMinted'
  BY DEF Crash, CallMinted, Minted, Idle, Request, NoCookies
<1>4. QED BY <1>1, <1>2, <1>3 DEF LoginInv

LEMMA NextInv == IInv /\ [AccessNext]_accessVars => IInv'
<1>1. CASE UNCHANGED accessVars
  <2>1. ASSUME LoginInv PROVE LoginInv'
    BY <1>1, <2>1, LoginStepInv DEF accessVars
  <2>2. clock' = clock /\ made' = made /\ invite' = invite /\ crashes' = crashes
    BY <1>1, Zenon DEF accessVars, loginVars
  <2>3. InviteInv => InviteInv'
    BY <2>2, Zenon DEF InviteInv
  <2>4. QED BY <2>1, <2>3 DEF IInv
<1>2. ASSUME IInv, AccessNext PROVE LoginInv'
  <2>1. LoginInv
    BY <1>2 DEF IInv
  <2>2. CASE LoginNext \/ Cleanup
    BY <2>1, <2>2, LoginStepInv DEF Cleanup
  <2>3. ASSUME NEW c \in Calls, CreateRoom(c) \/ JoinRoom(c) PROVE LoginInv'
    BY <2>1, <2>3, ServedInv DEF CreateRoom, JoinRoom
  <2>4. CASE Crash
    BY <2>1, <2>4, CrashInv
  <2>5. QED BY <1>2, <2>2, <2>3, <2>4 DEF AccessNext
<1>3. ASSUME IInv, AccessNext PROVE IInv'
  BY <1>2, <1>3, InviteStep DEF IInv
<1>4. QED BY <1>1, <1>3

LEMMA AlwaysIInv == AccessSpec => []IInv
BY InitInv, NextInv, PTL DEF AccessSpec

-----------------------------------------------------------------------------
(* A session is never newer than the clock, an invite never older than its *)
(* game.                                                                   *)
THEOREM AccessTypeCorrect == AccessSpec => []TypeOK
<1>1. IInv => TypeOK
  BY DEF IInv, LoginInv, InviteInv, TypeOK
<1>2. QED BY <1>1, AlwaysIInv, PTL

(* What a step that is not one of login does to session and requests.      *)
LEMMA RestOfAccess ==
  ASSUME IInv, AccessNext, ~LoginNext
  PROVE  session' = session /\ \A d \in Calls : call'[d].at = "in" => call[d].at = "in"
<1>1. ASSUME NEW c \in Calls, CreateRoom(c) \/ JoinRoom(c)
      PROVE  session' = session /\ \A d \in Calls : call'[d].at = "in" => call[d].at = "in"
  BY <1>1 DEF CreateRoom, JoinRoom, Served, Done, Idle, Request, IInv, LoginInv, LoginTypeOK
<1>2. CASE Cleanup
  BY <1>2 DEF Cleanup, loginVars
<1>3. CASE Crash
  BY <1>3 DEF Crash, Idle, Request
<1>4. QED BY <1>1, <1>2, <1>3 DEF AccessNext

(* A session that has ended comes back only by the grain of the clock.     *)
THEOREM SessionCorrect == AccessSpec => EndedSessionStaysEnded
<1>1. IInv /\ [AccessNext]_accessVars
        => [session' # session /\ session' \in stored
              => session' \in again' \/ session' + 1 \in stored]_loginVars
  <2> SUFFICES ASSUME IInv, [AccessNext]_accessVars,
                      session' # session, session' \in stored
               PROVE  session' \in again' \/ session' + 1 \in stored
    OBVIOUS
  <2>1. AccessNext
    BY DEF accessVars, loginVars
  <2>2. LoginNext
    BY <2>1, RestOfAccess
  <2>3. QED BY <2>2, EndedSessionStep DEF IInv
<1>2. QED BY <1>1, AlwaysIInv, PTL DEF AccessSpec, EndedSessionStaysEnded

(* Whatever cookies there are, a request is let in by the last login or by *)
(* the second before one that logged out.                                  *)
THEOREM EntersCorrect == AccessSpec => EntersBySession
<1>1. IInv /\ [AccessNext]_accessVars
        => [\A c \in Calls :
              call'[c].at = "in" /\ call[c].at # "in"
                => /\ call'[c].ts \in stored
                   /\ call'[c].ts = latest \/ call'[c].ts + 1 \in left]_loginVars
  <2> SUFFICES ASSUME IInv, [AccessNext]_accessVars,
                      NEW c \in Calls, call'[c].at = "in", call[c].at # "in"
               PROVE  Entitled(call'[c].ts)
    BY DEF Entitled
  <2>1. CASE UNCHANGED accessVars
    BY <2>1 DEF accessVars, loginVars
  <2>2. CASE LoginNext
    BY <2>2, EntersStep DEF IInv
  <2>3. CASE AccessNext /\ ~LoginNext
    BY <2>3, RestOfAccess
  <2>4. QED BY <2>1, <2>2, <2>3
<1>2. QED BY <1>1, AlwaysIInv, PTL DEF AccessSpec, EntersBySession
=============================================================================
