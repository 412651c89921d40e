------------------------------ MODULE ApiClient ------------------------------
(***************************************************************************)
(* apiFetch of one browser tab: the calls that are out, the 401s that make *)
(* them wait for a refresh, the single refresh they share, and the session *)
(* on the server as far as it tells a good refresh cookie from a replayed  *)
(* one.                                                                    *)
(*                                                                         *)
(* Both cookies of a generation are set by one answer, so a generation     *)
(* number stands for the access and the refresh token together.            *)
(***************************************************************************)
EXTENDS Naturals

CONSTANTS
  Calls,        \* the API calls of the page
  NoCall,       \* no refresh is in flight
  MaxExpiries   \* access tokens that expire

ASSUME ApiAssumption ==
  /\ NoCall \notin Calls
  /\ MaxExpiries \in Nat

VARIABLES
  call,             \* how far apiFetch is with each call
  retried,          \* the request was repeated after a refresh
  wire,             \* the generation a request on its way carries, 0 if none is
  answer,           \* the response on its way back
  refreshInFlight,  \* the call whose refresh is in flight
  awaits,           \* the call whose refresh a waiting call awaits
  refresh,          \* the /auth/refresh request of a call
  refreshGen,       \* the generation it carries
  cookie,           \* the generation in the browser's cookies
  issued,           \* the newest generation the server has issued
  expired,          \* access tokens up to this generation have expired
  revoked,          \* the server took a refresh for a replay
  grantLost         \* a granted refresh never reached the tab (history)

session   == <<cookie, issued, expired, revoked, grantLost>>
refreshes == <<refreshInFlight, awaits, refresh, refreshGen>>
requests  == <<call, retried, wire, answer>>
apiVars   == <<requests, refreshes, session>>

ApiInit ==
  /\ call = [c \in Calls |-> "idle"]
  /\ retried = [c \in Calls |-> FALSE]
  /\ wire = [c \in Calls |-> 0]
  /\ answer = [c \in Calls |-> "none"]
  /\ refreshInFlight = NoCall
  /\ awaits = [c \in Calls |-> NoCall]
  /\ refresh = [c \in Calls |-> "none"]
  /\ refreshGen = [c \in Calls |-> 0]
  /\ cookie = 1 /\ issued = 1 /\ expired = 0
  /\ revoked = FALSE
  /\ grantLost = FALSE

------------------------------------------------------------------------------
(* The call.                                                                *)

\* doRequest for the first time; a call is made once.
make(c) ==
  /\ call' = [call EXCEPT ![c] = "pending"]
  /\ wire' = [wire EXCEPT ![c] = cookie]

\* apiFetch returns or throws.
Settle(c, outcome) ==
  /\ call' = [call EXCEPT ![c] = outcome]
  /\ retried' = [retried EXCEPT ![c] = FALSE]

\* Mutant: every 401 starts a refresh of its own.
beginRefresh_each(c) ==
  /\ awaits' = [awaits EXCEPT ![c] = c]
  /\ refreshInFlight' = c
  /\ refresh' = [refresh EXCEPT ![c] = "sent"]
  /\ refreshGen' = [refreshGen EXCEPT ![c] = cookie]

\* Join the refresh in flight, or start one.
beginRefresh(c) ==
  IF refreshInFlight = NoCall
    THEN /\ awaits' = [awaits EXCEPT ![c] = c]
         /\ refreshInFlight' = c
         /\ refresh' = [refresh EXCEPT ![c] = "sent"]
         /\ refreshGen' = [refreshGen EXCEPT ![c] = cookie]
    ELSE /\ awaits' = [awaits EXCEPT ![c] = refreshInFlight]
         /\ UNCHANGED <<refreshInFlight, refresh, refreshGen>>

\* The response of a call arrives; a first 401 waits for a refresh.
receive(c) ==
  /\ call[c] = "pending" /\ answer[c] # "none"
  /\ answer' = [answer EXCEPT ![c] = "none"]
  /\ IF answer[c] = "unauthorized" /\ ~retried[c]
       THEN /\ call' = [call EXCEPT ![c] = "waiting"]
            /\ UNCHANGED retried
            /\ beginRefresh(c)
       ELSE /\ Settle(c, IF answer[c] = "ok" THEN "ok" ELSE "failed")
            /\ UNCHANGED refreshes
  /\ UNCHANGED <<wire, session>>

\* The network fails before or after the server saw the request.
network_error(c) ==
  /\ call[c] = "pending"
  /\ Settle(c, "failed")
  /\ wire' = [wire EXCEPT ![c] = 0]
  /\ answer' = [answer EXCEPT ![c] = "none"]
  /\ UNCHANGED <<refreshes, session>>

------------------------------------------------------------------------------
(* The server.                                                              *)

\* The request of c reaches the server, which answers with a if anyone listens.
Serve(c, a) ==
  /\ wire[c] # 0
  /\ wire' = [wire EXCEPT ![c] = 0]
  /\ answer' = [answer EXCEPT ![c] = IF call[c] = "pending" THEN a ELSE "none"]
  /\ UNCHANGED <<call, retried, refreshes, session>>

\* get_current_user accepts the access token.
Authorized(c) == wire[c] > expired /\ ~revoked

serve_unauthorized(c) == ~Authorized(c) /\ Serve(c, "unauthorized")

\* POST /auth/refresh: the newest token is rotated; an older one is a replay,
\* and every session of the user ends.
serve_refresh(c) ==
  /\ refresh[c] = "sent"
  /\ IF refreshGen[c] = issued /\ ~revoked
       THEN /\ issued' = issued + 1
            /\ refresh' = [refresh EXCEPT ![c] = "granted"]
            /\ UNCHANGED revoked
       ELSE /\ revoked' = TRUE
            /\ refresh' = [refresh EXCEPT ![c] = "refused"]
            /\ UNCHANGED issued
  /\ UNCHANGED <<requests, refreshInFlight, awaits, refreshGen, cookie, expired, grantLost>>

\* The access token in the browser expires.
access_expires ==
  /\ expired < cookie /\ cookie <= MaxExpiries
  /\ expired' = cookie
  /\ UNCHANGED <<requests, refreshes, cookie, issued, revoked, grantLost>>

------------------------------------------------------------------------------
(* The refresh settles. A call whose signal was aborted meanwhile (a member *)
(* of dead) is not repeated: its fetch rejects at once.                     *)

\* Mutant: only the call that started the refresh is told of its end.
Waiters_starter(c) == {d \in {c} : call[d] = "waiting"}

Waiters(c) == {d \in Calls : call[d] = "waiting" /\ awaits[d] = c}

Release(c, refreshed, dead) ==
  LET again == IF refreshed THEN Waiters(c) \ dead ELSE {} IN
  /\ refreshInFlight' = IF refreshInFlight = c THEN NoCall ELSE refreshInFlight
  /\ refresh' = [refresh EXCEPT ![c] = "none"]
  /\ refreshGen' = [refreshGen EXCEPT ![c] = 0]
  /\ awaits' = [d \in Calls |-> IF d \in Waiters(c) THEN NoCall ELSE awaits[d]]
  /\ call' = [d \in Calls |-> IF d \in again THEN "pending"
                              ELSE IF d \in Waiters(c) THEN "failed" ELSE call[d]]
  /\ retried' = [d \in Calls |-> retried[d] \/ d \in again]
  /\ wire' = [d \in Calls |-> IF d \in again THEN cookie' ELSE wire[d]]
  /\ UNCHANGED answer

\* The answer of /auth/refresh; a grant brings the cookies of the next generation.
receive_refresh(c, dead) ==
  /\ refresh[c] \in {"granted", "refused"}
  /\ cookie' = IF refresh[c] = "granted" THEN refreshGen[c] + 1 ELSE cookie
  /\ Release(c, refresh[c] = "granted", dead)
  /\ UNCHANGED <<issued, expired, revoked, grantLost>>

\* It is lost, on its way there or back.
refresh_error(c, dead) ==
  /\ refresh[c] \in {"sent", "granted", "refused"}
  /\ grantLost' = (grantLost \/ refresh[c] = "granted")
  /\ UNCHANGED <<cookie, issued, expired, revoked>>
  /\ Release(c, FALSE, dead)

ApiStep(c, dead) ==
  \/ receive(c) \/ network_error(c) \/ serve_unauthorized(c)
  \/ serve_refresh(c) \/ receive_refresh(c, dead) \/ refresh_error(c, dead)

------------------------------------------------------------------------------
(* Properties.                                                              *)

CallState == {"idle", "pending", "waiting", "ok", "failed"}

ApiTypeOK ==
  /\ call \in [Calls -> CallState]
  /\ retried \in [Calls -> BOOLEAN]
  /\ wire \in [Calls -> Nat]
  /\ answer \in [Calls -> {"none", "ok", "refused", "unauthorized"}]
  /\ refreshInFlight \in Calls \cup {NoCall}
  /\ awaits \in [Calls -> Calls \cup {NoCall}]
  /\ refresh \in [Calls -> {"none", "sent", "granted", "refused"}]
  /\ refreshGen \in [Calls -> Nat]
  /\ cookie \in Nat /\ issued \in Nat /\ expired \in Nat
  /\ revoked \in BOOLEAN
  /\ grantLost \in BOOLEAN

\* The tab never replays its own refresh token: however many calls are refused
\* at once and however late a refusal arrives, the server ends the session only
\* after an answer with new cookies got lost.
NoSelfReplay == revoked => grantLost
=============================================================================
