------------------------------- MODULE Session ------------------------------
(***************************************************************************)
(* The app's session: api.ts on the phone, refreshToken of auth.service.ts *)
(* on the server.  A login or a refresh issues a pair of tokens, its       *)
(* generation a number; Redis holds the generations that can be refreshed, *)
(* each once; the access token of a generation ages after 15 minutes.      *)
(***************************************************************************)
EXTENDS Integers, FiniteSets

CONSTANTS
  Requests,       \* API calls of the app that may be under way together
  MaxGen          \* bound: pairs ever issued

VARIABLES
  store,          \* the generation AsyncStorage holds, 0 for none
  redis,          \* the generations the server would refresh
  aged,           \* the generations whose access token has expired
  gen,            \* the generations issued so far
  req,            \* req[q]: the call q
  refresh         \* refresh[r]: the refresh that call r started

sessionVars == <<store, redis, aged, gen, req, refresh>>

ASSUME RequestsAssumption == IsFiniteSet(Requests) /\ MaxGen \in Nat

Ended == [pc |-> "ended"]
Calling(q, r) == req' = [req EXCEPT ![q] = r]
Refreshing(r, s) == refresh' = [refresh EXCEPT ![r] = s]
InFlight == {r \in Requests : refresh[r] # Ended}
WaitersOf(r) == {q \in Requests : req[q] = [pc |-> "waiting", on |-> r]}

NewPair ==
  /\ gen < MaxGen
  /\ gen' = gen + 1
  /\ redis' = redis \cup {gen + 1}

Login ==
  /\ store = 0
  /\ NewPair
  /\ store' = gen + 1
  /\ UNCHANGED <<aged, req, refresh>>

Logout ==
  /\ store # 0
  /\ store' = 0
  /\ UNCHANGED <<redis, aged, gen, req, refresh>>

(* rawFetch reads the access token as it sends.                            *)
Send(q) ==
  /\ req[q] = Ended
  /\ store # 0
  /\ Calling(q, [pc |-> "sent", with |-> store])
  /\ UNCHANGED <<store, redis, aged, gen, refresh>>

(* resolveResponse: served, no network, or a 401, which the first attempt  *)
(* takes to a refresh and the second hands to its caller.                  *)
Response(q) ==
  /\ req[q].pc \in {"sent", "resent"}
  /\ Calling(q, IF req[q].pc = "sent" /\ req[q].with \in aged \cup {0}
                THEN [pc |-> "denied"] ELSE Ended)
  /\ UNCHANGED <<store, redis, aged, gen, refresh>>

NoNetwork(q) ==
  /\ req[q].pc \in {"sent", "resent"}
  /\ Calling(q, Ended)
  /\ UNCHANGED <<store, redis, aged, gen, refresh>>

(* refreshTokens: the refresh in flight is joined, or one is started.      *)
Joined_None == {}
Joined == InFlight

RefreshTokens(q) ==
  /\ req[q].pc = "denied"
  /\ IF Joined # {}
     THEN \E r \in Joined :
            /\ Calling(q, [pc |-> "waiting", on |-> r])
            /\ UNCHANGED refresh
     ELSE /\ refresh[q] = Ended
          /\ Refreshing(q, [pc |-> "read"])
          /\ Calling(q, [pc |-> "waiting", on |-> q])
  /\ UNCHANGED <<store, redis, aged, gen>>

(***************************************************************************)
(* performRefresh.  It reads the stored token and sends it; a new pair is  *)
(* stored; after a 401 the token is read again, and a pair stored          *)
(* meanwhile is as good as a new one; any other failure of the server is a *)
(* refusal too.  What is settled is true, false, or no network.            *)
(***************************************************************************)
Settling(outcome) == [pc |-> "settling", outcome |-> outcome]

ReadToken(r) ==
  /\ refresh[r].pc = "read"
  /\ Refreshing(r, IF store = 0 THEN Settling("false")
                                ELSE [pc |-> "get", used |-> store])
  /\ UNCHANGED <<store, redis, aged, gen, req>>

SaveTokens(r) ==
  /\ refresh[r].pc = "answer" /\ refresh[r].got = "pair"
  /\ store' = refresh[r].new
  /\ Refreshing(r, Settling("true"))
  /\ UNCHANGED <<redis, aged, gen, req>>

Replaced(r) == store \notin {0, refresh[r].used}

RereadToken(r) ==
  /\ refresh[r].pc = "answer" /\ refresh[r].got = "401"
  /\ Refreshing(r, Settling(IF Replaced(r) THEN "true" ELSE "false"))
  /\ UNCHANGED <<store, redis, aged, gen, req>>

GiveUp(r) ==
  /\ refresh[r].pc = "answer" /\ refresh[r].got \in {"5xx", "none"}
  /\ Refreshing(r, Settling(IF refresh[r].got = "5xx" THEN "false" ELSE "none"))
  /\ UNCHANGED <<store, redis, aged, gen, req>>

(* The promise in flight is forgotten however it ended (`finally`), and    *)
(* all who wait on it go on: they send again, clear the tokens, or report  *)
(* that there is no network.                                               *)
Settled_UnlessRejected(r) ==
  IF refresh[r].outcome = "none" THEN [pc |-> "stuck"] ELSE Ended
Settled(r) == Ended

AfterRefresh(outcome) ==
  CASE outcome = "true" -> [pc |-> "again"]
    [] outcome = "false" -> [pc |-> "clearing"]
    [] outcome = "none" -> Ended

Settle(r) ==
  /\ refresh[r].pc = "settling"
  /\ Refreshing(r, Settled(r))
  /\ req' = [q \in Requests |-> IF q \in WaitersOf(r)
                                THEN AfterRefresh(refresh[r].outcome)
                                ELSE req[q]]
  /\ UNCHANGED <<store, redis, aged, gen>>

SendAgain(q) ==
  /\ req[q].pc = "again"
  /\ Calling(q, [pc |-> "resent", with |-> store])
  /\ UNCHANGED <<store, redis, aged, gen, refresh>>

(* Whatever is stored by now is erased.                                    *)
ClearTokens(q) ==
  /\ req[q].pc = "clearing"
  /\ store' = 0
  /\ Calling(q, Ended)
  /\ UNCHANGED <<redis, aged, gen, refresh>>

(***************************************************************************)
(* The server's side: the token is looked up in Redis, deleted, and a new  *)
(* pair is issued, each in a call of its own.                              *)
(***************************************************************************)
Answered(r, got) ==
  Refreshing(r, [pc |-> "answer", used |-> refresh[r].used, got |-> got])

LookUp(r) ==
  /\ refresh[r].pc = "get"
  /\ IF refresh[r].used \in redis
     THEN Refreshing(r, [refresh[r] EXCEPT !.pc = "delete"])
     ELSE Answered(r, "401")
  /\ UNCHANGED <<store, redis, aged, gen, req>>

Delete(r) ==
  /\ refresh[r].pc = "delete"
  /\ redis' = redis \ {refresh[r].used}
  /\ Refreshing(r, [refresh[r] EXCEPT !.pc = "issue"])
  /\ UNCHANGED <<store, aged, gen, req>>

IssueTokenPair(r) ==
  /\ refresh[r].pc = "issue"
  /\ NewPair
  /\ Refreshing(r, [pc |-> "answer", used |-> refresh[r].used,
                    got |-> "pair", new |-> gen + 1])
  /\ UNCHANGED <<store, aged, req>>

(* Redis or the database fails at any of the three calls.                  *)
ServerError(r) ==
  /\ refresh[r].pc \in {"get", "delete", "issue"}
  /\ Answered(r, "5xx")
  /\ UNCHANGED <<store, redis, aged, gen, req>>

NoRefreshAnswer(r) ==
  /\ refresh[r].pc \in {"get", "delete", "issue", "answer"}
  /\ Answered(r, "none")
  /\ UNCHANGED <<store, redis, aged, gen, req>>

(* A quarter of an hour passes, and a week, for the oldest first; a reset  *)
(* of the password deletes all of the driver's refresh keys.               *)
AgeAccess ==
  /\ \E g \in (1 .. gen) \ aged : aged' = 1 .. g
  /\ UNCHANGED <<store, redis, gen, req, refresh>>

ExpireRefresh ==
  /\ \E g \in redis : redis' = redis \ (1 .. g)
  /\ UNCHANGED <<store, aged, gen, req, refresh>>

RequestStep(q) ==
  \/ Response(q) \/ NoNetwork(q) \/ RefreshTokens(q)
  \/ SendAgain(q) \/ ClearTokens(q)
RefreshStep(r) ==
  \/ ReadToken(r) \/ LookUp(r) \/ Delete(r) \/ IssueTokenPair(r)
  \/ ServerError(r) \/ NoRefreshAnswer(r)
  \/ SaveTokens(r) \/ RereadToken(r) \/ GiveUp(r) \/ Settle(r)

(* The app is killed: nobody hears the answers under way.                  *)
Close ==
  /\ \E q \in Requests : req[q] # Ended
  /\ req' = [q \in Requests |-> Ended]
  /\ refresh' = [r \in Requests |-> Ended]
  /\ UNCHANGED <<store, redis, aged, gen>>
=============================================================================
