--------------------------- MODULE DriverAppProofs --------------------------
(***************************************************************************)
(* Theorems about the driver app, for any items, photos and calls, any     *)
(* routines under way together, and any number of troubles.                *)
(***************************************************************************)
EXTENDS Clients, ProofLemmas

(***************************************************************************)
(* The session and the stored lists are apart: neither touches the other's *)
(* state, and nor does the dashboard.                                      *)
(***************************************************************************)
LEMMA AppAlone ==
  ClientsSpec => [][SessionNext]_sessionVars /\ [][QueueNext]_phone
<1>1. [ClientsNext]_allVars => [SessionNext]_sessionVars /\ [QueueNext]_phone
  BY DEF ClientsNext, allVars, vars, App, OnPages, InReviews, InSlots, Next
<1>2. QED
  BY <1>1, PTL DEF ClientsSpec

-----------------------------------------------------------------------------
(***************************************************************************)
(* The session.  At most one refresh is in flight, and a token that the    *)
(* server has refused cannot be refreshed any more.                        *)
(***************************************************************************)
Asking(g) == [pc : {"get", "delete", "issue"}, used : 1 .. g]
Denied(g) == [pc : {"answer"}, used : 1 .. g, got : {"401", "5xx", "none"}]
Renewed(g) == [pc : {"answer"}, used : 1 .. g, got : {"pair"}, new : 1 .. g]
Ending == [pc : {"settling"}, outcome : {"true", "false", "none"}]
Refreshes(g) ==
  {[pc |-> "read"]} \cup Asking(g) \cup Denied(g) \cup Renewed(g) \cup Ending

SessionTypes ==
  /\ gen \in Nat /\ store \in 0 .. gen
  /\ redis \subseteq 1 .. gen /\ aged \subseteq 1 .. gen
  /\ refresh \in [Requests -> {Ended} \cup Refreshes(gen)]
OneRefresh ==
  \A q, r \in Requests : refresh[q] # Ended /\ refresh[r] # Ended => q = r
RefusedForGood ==
  \A r \in Requests : refresh[r].pc = "answer" /\ refresh[r].got = "401" =>
    refresh[r].used \notin redis
SessionInv == SessionTypes /\ OneRefresh /\ RefusedForGood

(* A refresh takes a step.                                                 *)
LEMMA RefreshTurns ==
  ASSUME SessionInv, NEW r \in Requests, NEW s \in {Ended} \cup Refreshes(gen'),
         Refreshing(r, s), gen' \in Nat, gen <= gen',
         store' \in 0 .. gen', redis' \subseteq 1 .. gen', UNCHANGED aged,
         redis' \subseteq redis \cup {gen + 1},
         s # Ended => \A q \in Requests : refresh[q] # Ended => q = r,
         s # Ended /\ s.pc = "answer" /\ s.got = "401" => s.used \notin redis'
  PROVE  SessionInv'
<1>1. Refreshes(gen) \subseteq Refreshes(gen')
  BY DEF SessionInv, SessionTypes, Refreshes, Asking, Denied, Renewed
<1>2. /\ refresh' \in [Requests -> {Ended} \cup Refreshes(gen')]
      /\ refresh'[r] = s /\ \A q \in Requests \ {r} : refresh'[q] = refresh[q]
  BY <1>1 DEF SessionInv, SessionTypes, Refreshing
<1>3. SessionTypes'
  BY <1>2 DEF SessionInv, SessionTypes
<1>4. OneRefresh'
  BY <1>2 DEF SessionInv, OneRefresh
<1>5. \A q \in Requests : refresh[q].pc = "answer" => refresh[q].used \in 1 .. gen
  BY DEF SessionInv, SessionTypes, Refreshes, Asking, Denied, Renewed, Ending, Ended
<1>6. \A q \in Requests \ {r} : refresh[q].pc = "answer" /\ refresh[q].got = "401" =>
        refresh[q].used \notin redis'
  <2>1. gen \in Nat /\ gen + 1 \notin 1 .. gen
    BY DEF SessionInv, SessionTypes
  <2>2. QED
    BY <1>5, <2>1 DEF SessionInv, RefusedForGood
<1>7. RefusedForGood'
  BY <1>2, <1>6 DEF RefusedForGood, Ended
<1>8. QED
  BY <1>3, <1>4, <1>7 DEF SessionInv

(* A refresh begins, or its outcome is settled.                            *)
LEMMA RefreshWaits ==
  ASSUME SessionInv, NEW r \in Requests, NEW s, Refreshing(r, s),
         s \in Ending \cup {[pc |-> "read"], Ended}, UNCHANGED <<redis, aged, gen>>,
         store' \in 0 .. gen,
         s # Ended => \A q \in Requests : refresh[q] # Ended => q = r
  PROVE  SessionInv'
<1>1. s \in {Ended} \cup Refreshes(gen') /\ (s # Ended => s.pc # "answer")
  BY DEF Refreshes, Ending
<1>2. /\ gen' \in Nat /\ gen <= gen' /\ store' \in 0 .. gen'
      /\ redis' \subseteq 1 .. gen' /\ redis' \subseteq redis \cup {gen + 1}
  BY DEF SessionInv, SessionTypes
<1> HIDE DEF SessionInv, Refreshing, Ending
<1>3. QED
  BY <1>1, <1>2, RefreshTurns

LEMMA SessionInvKept == SessionInv /\ [SessionNext]_sessionVars => SessionInv'
<1> SUFFICES ASSUME SessionInv, [SessionNext]_sessionVars PROVE SessionInv'
  OBVIOUS
<1>a. /\ gen \in Nat /\ store \in 0 .. gen
      /\ redis \subseteq 1 .. gen /\ aged \subseteq 1 .. gen
      /\ refresh \in [Requests -> {Ended} \cup Refreshes(gen)]
      /\ OneRefresh
  BY DEF SessionInv, SessionTypes
<1>b. ASSUME NEW r \in Requests, refresh[r].pc \in {"get", "delete", "issue"}
      PROVE  refresh[r] \in Asking(gen)
  BY <1>a, <1>b DEF Refreshes, Asking, Denied, Renewed, Ending, Ended
<1>c. \A r \in Requests : refresh[r].pc \in {"get", "delete", "issue", "answer"} =>
        /\ refresh[r] # Ended /\ refresh[r].used \in 1 .. gen
        /\ \A q \in Requests : refresh[q] # Ended => q = r
  BY <1>a DEF OneRefresh, Refreshes, Asking, Denied, Renewed, Ending, Ended
<1>1. ASSUME \/ Logout \/ AgeAccess \/ ExpireRefresh
             \/ \E q \in Requests :
                  \/ Send(q) \/ Response(q) \/ NoNetwork(q)
                  \/ SendAgain(q) \/ ClearTokens(q)
             \/ UNCHANGED sessionVars
      PROVE  SessionInv'
  <2>1. /\ UNCHANGED <<gen, refresh>> /\ store' \in {store, 0}
        /\ redis' \subseteq redis /\ aged' \subseteq 1 .. gen
    <3>1. CASE AgeAccess
      <4>1. gen \in Nat /\ \E g \in 1 .. gen : aged' = 1 .. g
        BY <3>1, <1>a DEF AgeAccess
      <4>2. aged' \subseteq 1 .. gen
        BY <4>1
      <4>3. QED
        BY <3>1, <4>2 DEF AgeAccess
    <3>2. CASE ExpireRefresh
      <4>1. redis' \subseteq redis
        BY <3>2 DEF ExpireRefresh
      <4>2. QED
        BY <3>2, <4>1, <1>a DEF ExpireRefresh
    <3>3. CASE ~AgeAccess /\ ~ExpireRefresh
      BY <1>1, <1>a, <3>3 DEF Logout, Send, Response, NoNetwork, SendAgain,
                              ClearTokens, sessionVars
    <3>4. QED
      BY <3>1, <3>2, <3>3
  <2>2. SessionTypes'
    BY <1>a, <2>1 DEF SessionTypes
  <2>3. OneRefresh' /\ RefusedForGood'
    BY <2>1 DEF SessionInv, OneRefresh, RefusedForGood
  <2>4. QED
    BY <2>2, <2>3 DEF SessionInv
<1>2. CASE Login
  <2>1. /\ gen' = gen + 1 /\ store' = gen + 1 /\ redis' = redis \cup {gen + 1}
        /\ UNCHANGED <<aged, refresh>>
    BY <1>2 DEF Login, NewPair
  <2>2. Refreshes(gen) \subseteq Refreshes(gen')
    BY <1>a, <2>1 DEF Refreshes, Asking, Denied, Renewed
  <2>3. SessionTypes' /\ OneRefresh'
    BY <1>a, <2>1, <2>2 DEF SessionTypes, OneRefresh
  <2>4. RefusedForGood'
    BY <1>a, <1>c, <2>1 DEF SessionInv, RefusedForGood
  <2>5. QED
    BY <2>3, <2>4 DEF SessionInv
<1>3. CASE Close
  <2>1. /\ UNCHANGED <<store, redis, aged, gen>>
        /\ refresh' = [r \in Requests |-> Ended]
    BY <1>3 DEF Close
  <2>2. QED
    BY <1>a, <2>1 DEF SessionInv, SessionTypes, OneRefresh, RefusedForGood, Ended
<1>4. ASSUME NEW q \in Requests, RefreshTokens(q) PROVE SessionInv'
  <2>1. CASE UNCHANGED refresh
    BY <1>4, <1>a, <2>1 DEF RefreshTokens, SessionInv, SessionTypes, OneRefresh,
                            RefusedForGood
  <2>2. CASE refresh' # refresh
    <3>1. /\ InFlight = {} /\ Refreshing(q, [pc |-> "read"])
          /\ UNCHANGED <<store, redis, aged, gen>>
      BY <1>4, <2>2 DEF RefreshTokens, Joined
    <3>2. \A r \in Requests : refresh[r] = Ended
      BY <3>1 DEF InFlight
    <3>3. QED
      BY <1>a, <3>1, <3>2, RefreshWaits
  <2>3. QED
    BY <2>1, <2>2
<1>5. ASSUME NEW r \in Requests, LookUp(r) PROVE SessionInv'
  <2>1. refresh[r] \in Asking(gen) /\ UNCHANGED <<store, redis, aged, gen>>
    BY <1>5, <1>b DEF LookUp
  <2>2. PICK s : /\ s \in Refreshes(gen) /\ Refreshing(r, s)
                 /\ s.pc = "answer" => s.used \notin redis
    <3>1. CASE refresh[r].used \in redis
      <4>1. Refreshing(r, [refresh[r] EXCEPT !.pc = "delete"])
        BY <1>5, <3>1 DEF LookUp
      <4>2. /\ [refresh[r] EXCEPT !.pc = "delete"] \in Refreshes(gen)
            /\ [refresh[r] EXCEPT !.pc = "delete"].pc = "delete"
        BY <2>1 DEF Asking, Refreshes
      <4>3. QED
        BY <4>1, <4>2
    <3>2. CASE refresh[r].used \notin redis
      <4> DEFINE s == [pc |-> "answer", used |-> refresh[r].used, got |-> "401"]
      <4>1. Refreshing(r, s)
        BY <1>5, <3>2 DEF LookUp, Answered
      <4>2. s \in Refreshes(gen) /\ s.used = refresh[r].used
        BY <2>1 DEF Asking, Refreshes, Denied
      <4>3. QED
        BY <3>2, <4>1, <4>2
    <3>3. QED
      BY <3>1, <3>2
  <2>3. refresh[r].pc \in {"get", "delete", "issue"}
    BY <1>5 DEF LookUp
  <2>4. QED
    BY <1>a, <1>c, <2>1, <2>2, <2>3, RefreshTurns
<1>6. ASSUME NEW r \in Requests, Delete(r) PROVE SessionInv'
  <2> DEFINE s == [refresh[r] EXCEPT !.pc = "issue"]
  <2>1. /\ refresh[r].pc = "delete" /\ Refreshing(r, s) /\ redis' \subseteq redis
        /\ UNCHANGED <<store, aged, gen>>
    BY <1>6 DEF Delete
  <2>2. s \in Refreshes(gen) /\ s.pc = "issue"
    BY <1>b, <2>1 DEF Asking, Refreshes
  <2> HIDE DEF s
  <2>3. QED
    BY <1>a, <1>c, <2>1, <2>2, RefreshTurns
<1>7. ASSUME NEW r \in Requests, IssueTokenPair(r) PROVE SessionInv'
  <2> DEFINE s == [pc |-> "answer", used |-> refresh[r].used,
                   got |-> "pair", new |-> gen + 1]
  <2>1. /\ refresh[r].pc = "issue" /\ Refreshing(r, s) /\ gen' = gen + 1
        /\ redis' = redis \cup {gen + 1} /\ UNCHANGED <<store, aged>>
    BY <1>7 DEF IssueTokenPair, NewPair
  <2>2. s \in Refreshes(gen') /\ s.got = "pair"
    BY <1>a, <1>b, <2>1 DEF Asking, Refreshes, Renewed
  <2> HIDE DEF s
  <2>3. QED
    BY <1>a, <1>c, <2>1, <2>2, RefreshTurns
<1>8. ASSUME NEW r \in Requests, ServerError(r) \/ NoRefreshAnswer(r)
      PROVE  SessionInv'
  <2>1. /\ refresh[r].pc \in {"get", "delete", "issue", "answer"}
        /\ UNCHANGED <<store, redis, aged, gen>>
        /\ Answered(r, "5xx") \/ Answered(r, "none")
    BY <1>8 DEF ServerError, NoRefreshAnswer
  <2>2. PICK got \in {"5xx", "none"} : Answered(r, got)
    BY <2>1
  <2> DEFINE s == [pc |-> "answer", used |-> refresh[r].used, got |-> got]
  <2>3. Refreshing(r, s) /\ s \in Refreshes(gen) /\ s.got = got
    BY <1>c, <2>1, <2>2 DEF Answered, Refreshes, Denied
  <2> HIDE DEF s
  <2>4. QED
    BY <1>a, <1>c, <2>1, <2>2, <2>3, RefreshTurns
<1>9. ASSUME NEW r \in Requests, ReadToken(r) PROVE SessionInv'
  <2>1. refresh[r].pc = "read" /\ UNCHANGED <<store, redis, aged, gen>>
    BY <1>9 DEF ReadToken
  <2>2. refresh[r] # Ended
    BY <2>1 DEF Ended
  <2>3. \A q \in Requests : refresh[q] # Ended => q = r
    BY <1>a, <2>2 DEF OneRefresh
  <2>4. CASE store = 0
    <3>1. Refreshing(r, Settling("false")) /\ Settling("false") \in Ending
      BY <1>9, <2>4 DEF ReadToken, Settling, Ending
    <3>2. QED
      BY <1>a, <2>1, <2>3, <3>1, RefreshWaits
  <2>5. CASE store # 0
    <3> DEFINE s == [pc |-> "get", used |-> store]
    <3>1. Refreshing(r, s)
      BY <1>9, <2>5 DEF ReadToken
    <3>2. s \in Refreshes(gen) /\ s.pc = "get"
      BY <1>a, <2>5 DEF Refreshes, Asking
    <3> HIDE DEF s
    <3>3. QED
      BY <1>a, <2>1, <2>3, <3>1, <3>2, RefreshTurns
  <2>6. QED
    BY <2>4, <2>5
<1>10. ASSUME NEW r \in Requests, SaveTokens(r) \/ RereadToken(r) \/ GiveUp(r)
       PROVE  SessionInv'
  <2>1. /\ refresh[r].pc = "answer" /\ UNCHANGED <<redis, aged, gen>>
        /\ store' = store \/ (refresh[r].got = "pair" /\ store' = refresh[r].new)
    BY <1>10 DEF SaveTokens, RereadToken, GiveUp
  <2>2. PICK outcome \in {"true", "false", "none"} : Refreshing(r, Settling(outcome))
    BY <1>10 DEF SaveTokens, RereadToken, GiveUp
  <2>3. Settling(outcome) \in Ending
    BY DEF Settling, Ending
  <2>4. refresh[r].got = "pair" => refresh[r].new \in 1 .. gen
    BY <1>a, <2>1 DEF Refreshes, Asking, Denied, Renewed, Ending, Ended
  <2>5. store' \in 0 .. gen
    BY <1>a, <2>1, <2>4
  <2>6. QED
    BY <1>c, <2>1, <2>2, <2>3, <2>5, RefreshWaits
<1>11. ASSUME NEW r \in Requests, Settle(r) PROVE SessionInv'
  <2>1. Refreshing(r, Ended) /\ UNCHANGED <<store, redis, aged, gen>>
    BY <1>11 DEF Settle, Settled
  <2>2. QED
    BY <1>a, <2>1, RefreshWaits
<1>12. QED
  BY <1>1, <1>2, <1>3, <1>4, <1>5, <1>6, <1>7, <1>8, <1>9, <1>10, <1>11
  DEF SessionNext, RequestStep, RefreshStep

LEMMA SessionAlwaysInv == ClientsSpec => []SessionInv
<1>1. ClientsInit => SessionInv
  BY DEF ClientsInit, Init, SessionInv, SessionTypes, OneRefresh,
         RefusedForGood, Ended
<1>2. QED
  BY <1>1, AppAlone, SessionInvKept, PTL DEF ClientsSpec

(***************************************************************************)
(* However many calls meet an expired token at once, and whatever their    *)
(* refresh meets: one that takes the session for over, no token being      *)
(* stored or the server having answered 401, is right.                     *)
(***************************************************************************)
THEOREM RefusalsAreRight == ClientsSpec => RefusalMeansOver
<1> DEFINE Decides(r) ==
             /\ refresh'[r] = Settling("false")
             /\ \/ refresh[r].pc = "read"
                \/ refresh[r].pc = "answer" /\ refresh[r].got = "401"
           Step == \A r \in Requests : Decides(r) => Over
<1>1. ASSUME SessionInv, [SessionNext]_sessionVars PROVE Step
  <2> SUFFICES ASSUME NEW r \in Requests, Decides(r) PROVE Over
    OBVIOUS
  <2>1. refresh \in [Requests -> {Ended} \cup Refreshes(gen)] /\ refresh[r] # Ended
    BY <1>1 DEF SessionInv, SessionTypes, Ended
  <2>2. refresh'[r] # refresh[r] /\ refresh'[r].pc = "settling"
    BY DEF Settling
  <2>3. \A q \in Requests : refresh[q] # Ended => q = r
    BY <1>1, <2>1 DEF SessionInv, OneRefresh
  <2>4. ReadToken(r) \/ RereadToken(r)
    <3>1. \A q, s : q \in Requests /\ Refreshing(q, s) => q = r /\ s = refresh'[r]
      BY <2>1, <2>2 DEF Refreshing
    <3>2. \E q \in Requests : RequestStep(q) \/ RefreshStep(q)
      BY <1>1, <2>1, <2>2 DEF SessionNext, sessionVars, Login, Logout, AgeAccess,
        ExpireRefresh, Close, Send, Ended
    <3>3. ASSUME NEW q \in Requests, RequestStep(q) PROVE FALSE
      <4>1. CASE RefreshTokens(q)
        <5>1. UNCHANGED refresh \/ Refreshing(q, [pc |-> "read"])
          BY <4>1 DEF RefreshTokens
        <5>2. refresh'[r] # [pc |-> "read"]
          BY <2>2
        <5>3. QED
          BY <2>2, <3>1, <5>1, <5>2
      <4>2. CASE ~RefreshTokens(q)
        BY <2>2, <3>3, <4>2 DEF RequestStep, Response, NoNetwork, SendAgain, ClearTokens
      <4>3. QED
        BY <4>1, <4>2
    <3>4. ASSUME NEW q \in Requests, RefreshStep(q)
          PROVE  ReadToken(r) \/ RereadToken(r)
      <4>1. CASE LookUp(q) \/ Delete(q) \/ IssueTokenPair(q) \/ ServerError(q)
                 \/ NoRefreshAnswer(q)
        <5>1. \/ Refreshing(q, [refresh[q] EXCEPT !.pc = "delete"])
              \/ Refreshing(q, [refresh[q] EXCEPT !.pc = "issue"])
              \/ \E got : Answered(q, got)
              \/ Refreshing(q, [pc |-> "answer", used |-> refresh[q].used,
                                got |-> "pair", new |-> gen + 1])
          BY <4>1 DEF LookUp, Delete, IssueTokenPair, ServerError, NoRefreshAnswer
        <5>2. refresh[q].pc \in {"get", "delete", "issue", "answer"}
          BY <4>1 DEF LookUp, Delete, IssueTokenPair, ServerError, NoRefreshAnswer
        <5>3. refresh[q] \in Asking(gen) \cup Denied(gen) \cup Renewed(gen)
          BY <2>1, <5>2 DEF Refreshes, Ending, Ended
        <5>4. /\ [refresh[q] EXCEPT !.pc = "delete"].pc = "delete"
              /\ [refresh[q] EXCEPT !.pc = "issue"].pc = "issue"
          BY <5>3 DEF Asking, Denied, Renewed
        <5>5. CASE \/ Refreshing(q, [refresh[q] EXCEPT !.pc = "delete"])
                   \/ Refreshing(q, [refresh[q] EXCEPT !.pc = "issue"])
          BY <2>2, <3>1, <5>4, <5>5
        <5>6. CASE \E got : Answered(q, got)
          BY <2>2, <3>1, <5>6 DEF Answered
        <5>7. CASE Refreshing(q, [pc |-> "answer", used |-> refresh[q].used,
                                got |-> "pair", new |-> gen + 1])
          BY <2>2, <3>1, <5>7
        <5>8. QED
          BY <5>1, <5>5, <5>6, <5>7
      <4>2. CASE ReadToken(q) \/ RereadToken(q)
        BY <3>1, <4>2 DEF ReadToken, RereadToken
      <4>3. CASE SaveTokens(q) \/ GiveUp(q)
        BY <3>1, <4>3 DEF SaveTokens, GiveUp
      <4>4. CASE Settle(q)
        BY <2>2, <3>1, <4>4 DEF Settle, Settled, Ended
      <4>5. QED
        BY <3>4, <4>1, <4>2, <4>3, <4>4 DEF RefreshStep
    <3>5. QED
      BY <3>2, <3>3, <3>4
  <2>5. OnTheWay = {}
    BY <2>3, <2>1 DEF OnTheWay, Ended
  <2>6. store = 0 \/ store \in (1 .. gen) \ redis
    <3>1. CASE refresh[r].pc = "read"
      <4>1. refresh'[r] = IF store = 0 THEN Settling("false")
                                       ELSE [pc |-> "get", used |-> store]
        BY <2>1, <2>4, <3>1 DEF ReadToken, RereadToken, Refreshing
      <4>2. QED
        BY <2>2, <4>1
    <3>2. CASE refresh[r].pc = "answer" /\ refresh[r].got = "401"
      <4>1. refresh'[r] = Settling(IF Replaced(r) THEN "true" ELSE "false")
        BY <2>1, <2>4, <3>2 DEF ReadToken, RereadToken, Refreshing
      <4>2. ~Replaced(r)
        BY <4>1 DEF Settling
      <4>3. refresh[r].used \in (1 .. gen) \ redis
        BY <1>1, <2>1, <3>2
        DEF SessionInv, RefusedForGood, Refreshes, Asking, Denied, Renewed, Ending, Ended
      <4>4. QED
        BY <4>2, <4>3 DEF Replaced
    <3>3. QED
      BY <3>1, <3>2
  <2>7. QED
    BY <2>5, <2>6 DEF Over
<1>2. ClientsSpec => [][SessionInv /\ [SessionNext]_sessionVars]_vars
  BY SessionAlwaysInv, AppAlone, PTL
<1>3. [SessionInv /\ [SessionNext]_sessionVars]_vars => [Step]_vars
  BY <1>1
<1>4. QED
  BY <1>2, <1>3, PTL DEF RefusalMeansOver

-----------------------------------------------------------------------------
(***************************************************************************)
(* The stored lists.  What a routine holds follows from what it is, and    *)
(* from the queue the behaviour is about.                                  *)
(***************************************************************************)
Posted(steps) == [pc : steps, item : Items, left : Seq(Items)]
Writes(step) == [pc : {step}, item : Items, list : Seq(Items)]
Batched == [pc : {"batch"}, batch : Seq(Items)]
Cleared == [pc : {"clear"}, batch : Seq(Items), ok : BOOLEAN]
Holds ==
  {Rest} \cup Posted({"post", "took", "refused"}) \cup Writes("save")
  \cup Writes("push") \cup Batched \cup Cleared
  \cup HeldPhoto(Items) \cup HeldPhoto(Expenses)
MayHold(p, r) ==
  \/ r = Rest
  \/ p \in Syncs /\ kind # "fixes"
     /\ r \in Posted({"post", "took", "refused"}) \cup HeldPhoto(Items)
  \/ p \in Syncs /\ kind = "fixes" /\ r \in Batched \cup Cleared
  \/ p = Form /\ kind # "fixes"
     /\ r \in Posted({"post"}) \cup Writes("save") \cup HeldPhoto(Items)
  \/ p \in Fixers /\ kind = "fixes" /\ r \in Writes("push")
  \/ p \in Sweeps \cup {Tap} /\ r \in HeldPhoto(Expenses)

ListTypes ==
  /\ queue \in Seq(Items) /\ receipts \in Seq(Expenses)
  /\ server \in [accepted : [Items -> Nat], refused : SUBSET Items,
                 photos : SUBSET Expenses]
  /\ past \in [next : Nat, saved : SUBSET Items, dropped : SUBSET Refused]
  /\ odd \in [raced : SUBSET Items, revived : SUBSET Items,
              unheard : SUBSET Items, photos : SUBSET Expenses]
PhoneTypes ==
  /\ ListTypes
  /\ run \in [Routines -> Holds] /\ \A p \in Routines : MayHold(p, run[p])

(* A routine of the app, by the step it is at.                             *)
LEMMA InHands ==
  ASSUME PhoneTypes, NEW p \in Routines
  PROVE  /\ run[p].pc = "post" =>
              /\ p \in Syncs \cup {Form} /\ kind # "fixes"
              /\ run[p] \in Posted({"post"})
         /\ run[p].pc \in {"took", "refused"} =>
              /\ p \in Syncs /\ kind # "fixes"
              /\ run[p] \in Posted({"took", "refused"})
         /\ run[p].pc = "save" =>
              p = Form /\ kind # "fixes" /\ run[p] \in Writes("save")
         /\ run[p].pc = "push" =>
              p \in Fixers /\ kind = "fixes" /\ run[p] \in Writes("push")
         /\ run[p].pc = "batch" =>
              p \in Syncs /\ kind = "fixes" /\ run[p] \in Batched
         /\ run[p].pc = "clear" =>
              p \in Syncs /\ kind = "fixes" /\ run[p] \in Cleared
         /\ run[p].pc \in {"upload", "store"} =>
              \/ /\ p \in Syncs \cup {Form} /\ kind # "fixes"
                 /\ run[p] \in HeldPhoto(Items)
              \/ p \in Sweeps \cup {Tap} /\ run[p] \in HeldPhoto(Expenses)
         /\ run[p] = Rest <=> run[p].pc = "rest"
         /\ run[p].pc \in {"rest", "post", "took", "refused", "save", "push",
                           "batch", "clear", "upload", "store"}
<1>1. MayHold(p, run[p])
  BY DEF PhoneTypes
<1>2. QED
  BY <1>1 DEF MayHold, Posted, Writes, Batched, Cleared, HeldPhoto, Rest

(* One routine takes a step, to hold r.                                    *)
LEMMA OneSteps ==
  ASSUME PhoneTypes, NEW p \in Routines, NEW r, MayHold(p, r), Hold(p, r),
         UNCHANGED kind, ListTypes'
  PROVE  /\ PhoneTypes' /\ run'[p] = r /\ Syncs \subseteq Routines
         /\ \A q \in Routines \ {p} : run'[q] = run[q]
         /\ \A s \in Syncs \ {p} : run'[s] = run[s]
         /\ p # Form => run'[Form] = run[Form]
<1>1. r \in Holds
  <2>1. Posted({"post"}) \subseteq Posted({"post", "took", "refused"})
    BY DEF Posted
  <2>2. QED
    BY <2>1 DEF MayHold, Holds
<1>2. /\ run' \in [Routines -> Holds] /\ run'[p] = r
      /\ \A q \in Routines \ {p} : run'[q] = run[q]
  <2>1. run \in [Routines -> Holds]
    BY DEF PhoneTypes
  <2> HIDE DEF Holds
  <2>2. QED
    BY <1>1, <2>1 DEF Hold
<1>3. ASSUME NEW q \in Routines PROVE MayHold(q, run[q])'
  <2>1. MayHold(q, run[q]) /\ MayHold(p, r) /\ kind' = kind
    BY DEF PhoneTypes
  <2>2. CASE q = p
    BY <1>2, <2>1, <2>2 DEF MayHold
  <2>3. CASE q # p
    <3>1. run'[q] = run[q]
      BY <1>2, <2>3
    <3>2. QED
      BY <2>1, <3>1 DEF MayHold
  <2>4. QED
    BY <2>2, <2>3
<1>4. Syncs \subseteq Routines /\ Form \in Routines
  BY DEF Routines
<1>5. QED
  BY <1>2, <1>3, <1>4 DEF PhoneTypes

(***************************************************************************)
(* The invariant.  What a flush has still to send of its copy, what of it  *)
(* the server has answered, and who is about to save a new item.           *)
(***************************************************************************)
CopyOf(r) ==
  CASE r.pc \in {"post", "took", "refused"} -> {r.item} \cup ToSet(r.left)
    [] r.pc \in {"upload", "store"} -> ToSet(r.left)
    [] r.pc \in {"batch", "clear"} -> ToSet(r.batch)
    [] OTHER -> {}
TakenOf(r) ==
  CASE r.pc = "took" -> {r.item}
    [] r.pc = "clear" -> ToSet(r.batch)
    [] OTHER -> {}
Writing(r) == r.pc \in {"save", "push"}
IsNew(p, r) == Writing(r) \/ (p = Form /\ r.pc = "post")

OneSync == \A s, t \in Syncs : run[s] # Rest /\ run[t] # Rest => s = t

(* Every stored item, and every copy of one, is of an item saved; a new    *)
(* item is neither saved nor, its answer lost apart, on the server.        *)
Known ==
  /\ \A i \in past.saved : i < past.next
  /\ \A i \in Items : server.accepted[i] > 0 => i < past.next
  /\ ToSet(queue) \subseteq past.saved
  /\ \A s \in Syncs : CopyOf(run[s]) \subseteq past.saved
  /\ \A p \in Routines : Writing(run[p]) => ToSet(run[p].list) \subseteq past.saved
Fresh ==
  \A p \in Routines : IsNew(p, run[p]) =>
    /\ run[p].item < past.next /\ run[p].item \notin past.saved
    /\ server.accepted[run[p].item] > 0 =>
         run[p].pc = "save" /\ run[p].item \in odd.unheard
    /\ \A q \in Routines \ {p} : IsNew(q, run[q]) => run[q].item # run[p].item

(* The queue is in the order of recording, and the fixes' within its cap.  *)
InOrder(s) == Ordered(s) /\ (kind = "fixes" => Len(s) <= MAX_QUEUED_FIXES)
Sorted ==
  /\ InOrder(queue)
  /\ \A s \in Syncs :
       /\ run[s].pc \in {"post", "took", "refused"} =>
            \A j \in ToSet(run[s].left) : run[s].item < j
       /\ run[s].pc \in {"post", "took", "refused", "upload", "store"} =>
            Ordered(run[s].left)
       /\ run[s].pc \in {"batch", "clear"} => InOrder(run[s].batch)
  /\ \A p \in Routines : Writing(run[p]) =>
       InOrder(run[p].list) /\ \A j \in ToSet(run[p].list) : j < run[p].item
  /\ run[Form].pc = "post" => past.next = run[Form].item + 1

(* What was saved is in the queue and in every copy of it, or else it need *)
(* not be.                                                                 *)
Closed(i) ==
  \/ Refusal(i) \in past.dropped \/ i \in odd.raced \/ server.accepted[i] > 0
  \/ kind = "fixes" /\ Cardinality({j \in past.saved : j > i}) >= MAX_QUEUED_FIXES
Covers(S) == \A i \in past.saved : i \in S \/ Closed(i)
Covered ==
  /\ Covers(ToSet(queue))
  /\ \A s \in Syncs : run[s] # Rest => Covers(CopyOf(run[s]))
  /\ \A p \in Routines : Writing(run[p]) => Covers(ToSet(run[p].list))
  /\ \A s \in Syncs : run[s].pc = "took" => server.accepted[run[s].item] > 0
  /\ \A s \in Syncs : run[s].pc = "clear" /\ run[s].ok =>
       \A i \in ToSet(run[s].batch) : server.accepted[i] > 0

(* An item still to be sent is not on the server, but for the odd ones.    *)
ToSend(i) == server.accepted[i] > 0 => i \in odd.unheard \cup odd.revived
Once ==
  /\ \A i \in ToSet(queue) : ToSend(i) \/ \E s \in Syncs : i \in TakenOf(run[s])
  /\ \A s \in Syncs : \A i \in CopyOf(run[s]) \ TakenOf(run[s]) : ToSend(i)
  /\ RecordedOnce

(* Every reader of the list of photos agrees with it, but for photos that  *)
(* were dealt with or raced.                                               *)
Gone == server.photos \cup past.dropped \cup odd.photos
ListsAgree ==
  /\ IsInjective(receipts)
  /\ \A p \in Routines : run[p].pc = "store" =>
       /\ IsInjective(run[p].list)
       /\ ToSet(run[p].list) \ Gone = ToSet(receipts) \ Gone
       /\ run[p].got = "uploaded" => run[p].photo \in server.photos
InHandOf(p, x) ==
  \/ run[p].pc \in {"upload", "store"} /\ run[p].photo = x
  \/ run[p].pc = "took" /\ Made(run[p].item, server.accepted[run[p].item]) = x
InSight(x) == x \in Gone \cup ToSet(receipts) \/ \E p \in Routines : InHandOf(p, x)
PhotosInSight ==
  \A i \in Items : \A n \in 1 .. server.accepted[i] :
    HasPhoto(i) /\ i \notin odd.unheard => InSight(Made(i, n))

PhoneInv ==
  /\ PhoneTypes /\ OneSync /\ Known /\ Fresh /\ Sorted /\ Covered /\ Once
  /\ ListsAgree /\ PhotosInSight

LEMMA AtRest ==
  /\ Rest.pc = "rest" /\ CopyOf(Rest) = {} /\ TakenOf(Rest) = {} /\ ~ Writing(Rest)
  /\ \A p : ~ IsNew(p, Rest)
  /\ Form \notin Syncs
BY DEF Form, Syncs, Rest, CopyOf, TakenOf, Writing, IsNew

(* Items are numbers.                                                      *)
LEMMA ItemLists == ASSUME NEW s \in Seq(Items) PROVE s \in Seq(Nat)
<1>1. \A k \in 1 .. Len(s) : s[k] \in Items
  OBVIOUS
<1>2. \A k \in 1 .. Len(s) : s[k] \in Nat
  BY <1>1, ItemsAssumption
<1>3. QED
  BY <1>2

(* Only the session changes.                                               *)
LEMMA SessionSteps ==
  ASSUME PhoneInv, UNCHANGED <<kind, queue, receipts, run, server, past, odd>>
  PROVE  PhoneInv'
<1>1. PhoneTypes'
  BY DEF PhoneInv, PhoneTypes, ListTypes, MayHold
<1>2. OneSync'
  BY <1>1 DEF PhoneInv, OneSync
<1>3. Known'
  BY <1>1 DEF PhoneInv, Known
<1>4. Fresh'
  BY <1>1 DEF PhoneInv, Fresh
<1>5. Sorted'
  BY <1>1 DEF PhoneInv, Sorted, InOrder
<1>6. Covered'
  BY <1>1 DEF PhoneInv, Covered, Covers, Closed
<1>7. Once'
  BY <1>1 DEF PhoneInv, Once, ToSend, RecordedOnce
<1>8. ListsAgree'
  BY <1>1 DEF PhoneInv, ListsAgree, Gone
<1>10. PhotosInSight'
  BY <1>1 DEF PhoneInv, PhotosInSight, InSight, InHandOf, Gone, HasPhoto
<1>11. QED
  BY <1>1, <1>2, <1>3, <1>4, <1>5, <1>6, <1>7, <1>8, <1>10 DEF PhoneInv

(* A flush reads its copy of the queue.                                    *)
LEMMA FlushReads ==
  ASSUME PhoneInv, NEW s \in Syncs, Flush(s), kind # "fixes"
  PROVE  PhoneInv'
<1> DEFINE r == [pc |-> "post", item |-> Head(queue), left |-> Tail(queue)]
<1>1. /\ Hold(s, r) /\ \A t \in Syncs : run[t] = Rest
      /\ queue # <<>> /\ queue \in Seq(Items) /\ Ordered(queue)
      /\ UNCHANGED <<kind, queue, receipts, server, past, odd>>
  BY DEF Flush, MayFlush, Guarded, Resting, PhoneInv, PhoneTypes, ListTypes, Sorted, InOrder
<1>2. /\ r \in Posted({"post"}) /\ MayHold(s, r) /\ CopyOf(r) = ToSet(queue)
      /\ TakenOf(r) = {} /\ r.left \in Seq(Items)
  BY <1>1, ElementsOfTail DEF Posted, MayHold, CopyOf, TakenOf
<1>3. Ordered(r.left) /\ \A j \in ToSet(r.left) : r.item < j
  <2>1. queue \in Seq(Nat)
    BY <1>1, ItemLists
  <2>2. QED
    BY <1>1, <2>1, OrderedTail
<1> HIDE DEF r
<1>4. /\ PhoneTypes' /\ s \in Routines /\ Syncs \subseteq Routines
      /\ run'[s] = r /\ \A q \in Routines \ {s} : run'[q] = run[q]
      /\ \A t \in Syncs \ {s} : run'[t] = run[t]
      /\ s # Form => run'[Form] = run[Form]
  BY <1>1, <1>2, OneSteps DEF PhoneInv, PhoneTypes, ListTypes, Routines
<1>5. r.pc = "post" /\ ~IsNew(s, r) /\ ~Writing(r)
  BY <1>2 DEF Posted, IsNew, Writing, Form, Syncs
<1>6. OneSync'
  BY <1>1, <1>4 DEF OneSync
<1>7. Known'
  BY <1>1, <1>2, <1>4, <1>5 DEF PhoneInv, Known
<1>8. Fresh'
  BY <1>1, <1>4, <1>5 DEF PhoneInv, Fresh
<1>9. Sorted'
  <2>1. \A t \in Syncs \ {s} : run'[t].pc = "rest"
    BY AtRest, <1>1, <1>4
  <2>2. \A q \in Routines : Writing(run'[q]) => q # s /\ run'[q] = run[q]
    BY <1>4, <1>5
  <2>3. run'[Form] = run[Form]
    <3>1. s # Form
      BY AtRest
    <3>2. QED
      BY <1>4, <3>1
  <2>4. /\ \A t \in Syncs :
             run'[t].pc \in {"post", "took", "refused"} =>
               \A j \in ToSet(run'[t].left) : run'[t].item < j
        /\ \A t \in Syncs :
             run'[t].pc \in {"post", "took", "refused", "upload", "store"} =>
               Ordered(run'[t].left)
        /\ \A t \in Syncs : run'[t].pc \notin {"batch", "clear"}
    BY <1>3, <1>4, <1>5, <2>1
  <2>5. QED
    BY <1>1, <2>2, <2>3, <2>4 DEF PhoneInv, Sorted, InOrder
<1>10. Covered'
  BY <1>1, <1>2, <1>3, <1>4, <1>5 DEF PhoneInv, Covered, Covers, Closed
<1>11. Once'
  BY AtRest, <1>1, <1>2, <1>4 DEF PhoneInv, Once, ToSend, RecordedOnce
<1>12. ListsAgree'
  BY <1>1, <1>4, <1>5 DEF PhoneInv, ListsAgree, Gone
<1>14. PhotosInSight'
  BY AtRest, <1>1, <1>4
    DEF PhoneInv, PhotosInSight, InSight, InHandOf, Gone, HasPhoto
<1>15. QED
  BY <1>4, <1>6, <1>7, <1>8, <1>9, <1>10, <1>11, <1>12, <1>14 DEF PhoneInv

(* A fix arrives, and its handler reads the buffer.                        *)
LEMMA FixArrives ==
  ASSUME PhoneInv, NEW p \in Fixers, HandleGpsFix(p)
  PROVE  PhoneInv'
<1> DEFINE r == [pc |-> "push", item |-> past.next, list |-> queue]
<1>1. /\ Hold(p, r) /\ kind = "fixes" /\ past.next \in Items /\ run[p] = Rest
      /\ queue \in Seq(Items) /\ past'.next = past.next + 1
      /\ past'.saved = past.saved /\ past'.dropped = past.dropped
      /\ UNCHANGED <<kind, queue, receipts, server, odd>>
  BY DEF HandleGpsFix, Free, Resting, PhoneInv, PhoneTypes, ListTypes
<1>2. /\ r \in Writes("push") /\ MayHold(p, r) /\ CopyOf(r) = {} /\ TakenOf(r) = {}
      /\ r.pc = "push" /\ Writing(r) /\ IsNew(p, r)
      /\ r.list = queue /\ r.item = past.next
  BY <1>1 DEF Posted, Writes, MayHold, CopyOf, TakenOf, Writing, IsNew, Form, Syncs, Sweeps, Tap
<1>3. ListTypes'
  <2>1. ListTypes /\ past' = [past EXCEPT !.next = past.next + 1]
    BY DEF HandleGpsFix, PhoneInv, PhoneTypes
  <2>2. past' \in [next : Nat, saved : SUBSET Items, dropped : SUBSET Refused]
    <3>1. past.next + 1 \in Nat
      BY <2>1 DEF ListTypes
    <3>2. QED
      BY <2>1, <3>1 DEF ListTypes
  <2>3. UNCHANGED <<queue, receipts, server, odd>>
    BY <1>1
  <2>4. QED
    BY <2>1, <2>2, <2>3 DEF ListTypes
<1> HIDE DEF r
<1>4. /\ PhoneTypes' /\ p \in Routines /\ Syncs \subseteq Routines /\ p \notin Syncs
      /\ run'[p] = r /\ \A q \in Routines \ {p} : run'[q] = run[q]
      /\ \A t \in Syncs \ {p} : run'[t] = run[t]
      /\ p # Form => run'[Form] = run[Form]
  BY <1>1, <1>2, <1>3, OneSteps DEF PhoneInv, Routines, Fixers, Syncs, Form
<1>5. /\ past.next \in Nat /\ past.saved \subseteq Nat /\ Items \subseteq Nat
      /\ server.accepted \in [Items -> Nat]
  BY ItemsAssumption DEF PhoneInv, PhoneTypes, ListTypes
<1>6. \A q \in Routines : IsNew(q, run[q]) => run[q].item \in Nat
  BY InHands, ItemsAssumption DEF PhoneInv, IsNew, Writing, Posted, Writes
<1>9. OneSync'
  BY <1>4 DEF PhoneInv, OneSync
<1>10. Known'
  <2>1. /\ \A i \in past.saved : i < past.next + 1
        /\ \A i \in Items : server.accepted[i] > 0 => i < past.next + 1
    <3>1. /\ \A i \in past.saved : i < past.next /\ i \in Nat
          /\ \A i \in Items : server.accepted[i] > 0 => i < past.next /\ i \in Nat
      BY <1>5 DEF PhoneInv, Known
    <3>2. \A i \in Nat : i < past.next => i < past.next + 1
      BY <1>5
    <3>3. QED
      BY <3>1, <3>2
  <2>2. \A q \in Routines : Writing(run'[q]) => ToSet(run'[q].list) \subseteq past.saved
    BY <1>2, <1>4 DEF PhoneInv, Known
  <2>3. \A s \in Syncs : CopyOf(run'[s]) \subseteq past.saved
    BY <1>4 DEF PhoneInv, Known
  <2>4. QED
    BY <1>1, <2>1, <2>2, <2>3 DEF PhoneInv, Known
<1>11. Fresh'
  <2>1. \A i \in Items : i = past.next => ~ (server.accepted[i] > 0)
    BY <1>5 DEF PhoneInv, Known
  <2>2. past.next \notin past.saved
    BY <1>5 DEF PhoneInv, Known
  <2>3. \A q \in Routines \ {p} : IsNew(q, run[q]) =>
          run[q].item # past.next /\ run[q].item < past.next + 1
    BY <1>5, <1>6 DEF PhoneInv, Fresh
  <2>4. past.next < past.next + 1
    BY <1>5
  <2>5. QED
    BY <1>1, <1>2, <1>4, <2>1, <2>2, <2>3, <2>4 DEF PhoneInv, Fresh
<1>12. Sorted'
  <2>1. InOrder(r.list) /\ \A j \in ToSet(r.list) : j < r.item
    BY <1>2 DEF PhoneInv, Known, Sorted
  <2>2. Form \in Routines /\ Form # p
    BY DEF Routines, Form, Fixers
  <2>3. run'[Form].pc # "post"
    BY <1>1, <1>4, <2>2, InHands DEF PhoneInv
  <2>4. QED
    BY <1>1, <1>2, <1>4, <2>1, <2>3 DEF PhoneInv, Sorted, InOrder
<1>13. Covered'
  BY AtRest, <1>1, <1>2, <1>3, <1>4, <1>5, <1>6
    DEF PhoneInv, Covered, Covers, Closed
<1>14. Once'
  <2>1. UNCHANGED <<queue, server, odd>>
    BY <1>1
  <2>2. \A s \in Syncs : /\ CopyOf(run'[s]) = CopyOf(run[s])
                        /\ TakenOf(run'[s]) = TakenOf(run[s])
    BY <1>4
  <2>3. \A i \in ToSet(queue') :
          ToSend(i)' \/ \E s \in Syncs : i \in TakenOf(run'[s])
    BY <2>1, <2>2 DEF PhoneInv, Once, ToSend
  <2>4. \A s \in Syncs : \A i \in CopyOf(run'[s]) \ TakenOf(run'[s]) : ToSend(i)'
    BY <2>1, <2>2 DEF PhoneInv, Once, ToSend
  <2>5. RecordedOnce'
    BY <2>1 DEF PhoneInv, Once, RecordedOnce
  <2>6. QED
    BY <2>3, <2>4, <2>5 DEF Once
<1>15. ListsAgree'
  BY <1>1, <1>2, <1>4 DEF PhoneInv, ListsAgree, Gone
<1>17. PhotosInSight'
  BY <1>1 DEF PhotosInSight, HasPhoto
<1>18. QED
  BY <1>4, <1>9, <1>10, <1>11, <1>12, <1>13, <1>14, <1>15, <1>17 DEF PhoneInv

(* The driver submits a form.                                              *)
LEMMA FormSubmitted ==
  ASSUME PhoneInv, Submit, kind # "fixes"
  PROVE  PhoneInv'
<1> DEFINE r == [pc |-> "post", item |-> past.next, left |-> <<>>]
<1>1. /\ Hold(Form, r) /\ kind # "fixes" /\ past.next \in Items /\ run[Form] = Rest
      /\ queue \in Seq(Items) /\ past'.next = past.next + 1
      /\ past'.saved = past.saved /\ past'.dropped = past.dropped
      /\ UNCHANGED <<kind, queue, receipts, server, odd>>
  BY DEF Submit, Free, Resting, PhoneInv, PhoneTypes, ListTypes
<1>2. /\ r \in Posted({"post"}) /\ MayHold(Form, r) /\ ~Writing(r) /\ TakenOf(r) = {}
      /\ r.pc = "post" /\ IsNew(Form, r) /\ r.item = past.next
  BY <1>1 DEF Posted, Writes, MayHold, CopyOf, TakenOf, Writing, IsNew, Form, Syncs, Sweeps, Tap
<1>3. ListTypes'
  <2>1. ListTypes /\ past' = [past EXCEPT !.next = past.next + 1]
    BY DEF Submit, PhoneInv, PhoneTypes
  <2>2. past' \in [next : Nat, saved : SUBSET Items, dropped : SUBSET Refused]
    <3>1. past.next + 1 \in Nat
      BY <2>1 DEF ListTypes
    <3>2. QED
      BY <2>1, <3>1 DEF ListTypes
  <2>3. UNCHANGED <<queue, receipts, server, odd>>
    BY <1>1
  <2>4. QED
    BY <2>1, <2>2, <2>3 DEF ListTypes
<1> HIDE DEF r
<1>4. /\ PhoneTypes' /\ Form \in Routines /\ Syncs \subseteq Routines /\ Form \notin Syncs
      /\ run'[Form] = r /\ \A q \in Routines \ {Form} : run'[q] = run[q]
      /\ \A t \in Syncs \ {Form} : run'[t] = run[t]
      /\ Form # Form => run'[Form] = run[Form]
  BY <1>1, <1>2, <1>3, OneSteps DEF PhoneInv, Routines, Fixers, Syncs, Form
<1>5. /\ past.next \in Nat /\ past.saved \subseteq Nat /\ Items \subseteq Nat
      /\ server.accepted \in [Items -> Nat]
  BY ItemsAssumption DEF PhoneInv, PhoneTypes, ListTypes
<1>6. \A q \in Routines : IsNew(q, run[q]) => run[q].item \in Nat
  BY InHands, ItemsAssumption DEF PhoneInv, IsNew, Writing, Posted, Writes
<1>9. OneSync'
  BY <1>4 DEF PhoneInv, OneSync
<1>10. Known'
  BY <1>1, <1>2, <1>4, <1>5 DEF PhoneInv, Known
<1>11. Fresh'
  <2>1. \A i \in Items : i = past.next => ~ (server.accepted[i] > 0)
    BY <1>5 DEF PhoneInv, Known
  <2>2. past.next \notin past.saved
    BY <1>5 DEF PhoneInv, Known
  <2>3. \A q \in Routines \ {Form} : IsNew(q, run[q]) =>
          run[q].item # past.next /\ run[q].item < past.next + 1
    BY <1>5, <1>6 DEF PhoneInv, Fresh
  <2>4. past.next < past.next + 1
    BY <1>5
  <2>5. QED
    BY <1>1, <1>2, <1>4, <2>1, <2>2, <2>3, <2>4 DEF PhoneInv, Fresh
<1>12. Sorted'
  BY <1>1, <1>2, <1>4 DEF PhoneInv, Sorted, InOrder
<1>13. Covered'
  BY <1>1, <1>2, <1>4 DEF PhoneInv, Covered, Covers, Closed
<1>14. Once'
  BY <1>1, <1>4 DEF PhoneInv, Once, ToSend, RecordedOnce
<1>15. ListsAgree'
  BY <1>1, <1>2, <1>4 DEF PhoneInv, ListsAgree, Gone
<1>17. PhotosInSight'
  BY AtRest, <1>1, <1>2, <1>4
    DEF PhoneInv, PhotosInSight, InSight, InHandOf, Gone, HasPhoto
<1>18. QED
  BY <1>4, <1>9, <1>10, <1>11, <1>12, <1>13, <1>14, <1>15, <1>17 DEF PhoneInv

(* The buffer is read to be sent.                                          *)
LEMMA FixesRead ==
  ASSUME PhoneInv, NEW s \in Syncs, FlushGpsQueue(s)
  PROVE  PhoneInv'
<1> DEFINE r == [pc |-> "batch", batch |-> queue]
<1>1. /\ Hold(s, r) /\ \A t \in Syncs : run[t] = Rest
      /\ queue # <<>> /\ queue \in Seq(Items) /\ kind = "fixes"
      /\ UNCHANGED <<kind, queue, receipts, server, past, odd>>
  BY DEF FlushGpsQueue, Guarded, Resting, PhoneInv, PhoneTypes, ListTypes
<1>2. /\ r \in Batched /\ MayHold(s, r) /\ CopyOf(r) = ToSet(queue)
      /\ TakenOf(r) = {} /\ r.batch = queue
  BY <1>1 DEF Batched, MayHold, CopyOf, TakenOf
<1>3. r.pc = "batch" /\ ~IsNew(s, r) /\ ~Writing(r)
  BY <1>2 DEF Batched, IsNew, Writing, Form, Syncs
<1> HIDE DEF r
<1>4. /\ PhoneTypes' /\ s \in Routines /\ Syncs \subseteq Routines
      /\ run'[s] = r /\ \A q \in Routines \ {s} : run'[q] = run[q]
      /\ \A t \in Syncs \ {s} : run'[t] = run[t]
      /\ s # Form => run'[Form] = run[Form]
  BY <1>1, <1>2, OneSteps DEF PhoneInv, PhoneTypes, ListTypes, Routines
<1>5. OneSync'
  BY <1>1, <1>4 DEF OneSync
<1>6. Known'
  BY <1>1, <1>2, <1>3, <1>4 DEF PhoneInv, Known
<1>7. Fresh'
  BY <1>1, <1>3, <1>4 DEF PhoneInv, Fresh
<1>8. Sorted'
  BY <1>1, <1>2, <1>3, <1>4 DEF PhoneInv, Sorted, InOrder
<1>9. Covered'
  <2>1. Covers(ToSet(queue))'
    BY <1>1 DEF PhoneInv, Covered, Covers, Closed
  <2>2. \A t \in Syncs \ {s} : run'[t] = Rest
    BY <1>1, <1>4
  <2>3. \A q \in Routines : Writing(run'[q]) => q # s /\ run'[q] = run[q]
    BY <1>3, <1>4
  <2>4. \A q \in Routines : Writing(run'[q]) => Covers(ToSet(run[q].list))'
    BY <1>1, <2>3 DEF PhoneInv, Covered, Covers, Closed
  <2>5. \A t \in Syncs : run'[t].pc \notin {"took", "clear"}
    BY AtRest, <1>3, <1>4, <2>2
  <2>6. QED
    BY <1>1, <1>2, <1>4, <2>1, <2>2, <2>4, <2>5 DEF Covered
<1>10. Once'
  BY AtRest, <1>1, <1>2, <1>4 DEF PhoneInv, Once, ToSend, RecordedOnce
<1>11. ListsAgree'
  BY <1>1, <1>3, <1>4 DEF PhoneInv, ListsAgree, Gone
<1>13. PhotosInSight'
  BY <1>1 DEF PhotosInSight, HasPhoto
<1>14. QED
  BY <1>4, <1>5, <1>6, <1>7, <1>8, <1>9, <1>10, <1>11, <1>13 DEF PhoneInv

(* A photo is taken from the list: by a sweep, or by a tap.                *)
LEMMA PhotoTaken ==
  ASSUME PhoneInv, NEW p \in Sweeps \cup {Tap}, NEW r, Hold(p, r), run[p] = Rest,
         r \in HeldPhoto(Expenses), r.pc = "upload",
         UNCHANGED <<kind, queue, receipts, server, past, odd>>
  PROVE  PhoneInv'
<1>1. /\ MayHold(p, r) /\ ListTypes' /\ p \in Routines /\ p \notin Syncs /\ p # Form
  BY DEF MayHold, PhoneInv, PhoneTypes, ListTypes, Routines, Sweeps, Tap, Syncs, Form
<1>2. /\ PhoneTypes' /\ Syncs \subseteq Routines
      /\ run'[p] = r /\ \A q \in Routines \ {p} : run'[q] = run[q]
      /\ \A t \in Syncs \ {p} : run'[t] = run[t]
      /\ p # Form => run'[Form] = run[Form]
  BY <1>1, OneSteps DEF PhoneInv
<1>3. ~IsNew(p, r) /\ ~Writing(r)
  BY <1>1 DEF IsNew, Writing
<1>4. OneSync'
  BY AtRest, <1>1, <1>2, <1>3 DEF PhoneInv, OneSync
<1>5. Known'
  BY AtRest, <1>1, <1>2, <1>3 DEF PhoneInv, Known
<1>6. Fresh'
  BY AtRest, <1>1, <1>2, <1>3 DEF PhoneInv, Fresh
<1>7. Sorted'
  BY AtRest, <1>1, <1>2, <1>3 DEF PhoneInv, Sorted, InOrder
<1>8. Covered'
  BY AtRest, <1>1, <1>2, <1>3 DEF PhoneInv, Covered, Covers, Closed
<1>9. Once'
  BY AtRest, <1>1, <1>2, <1>3 DEF PhoneInv, Once, ToSend, RecordedOnce
<1>10. ListsAgree'
  BY AtRest, <1>1, <1>2, <1>3 DEF PhoneInv, ListsAgree, Gone
<1>12. PhotosInSight'
  BY AtRest, <1>1, <1>2, <1>3 DEF PhoneInv, PhotosInSight, InSight, InHandOf, Gone, HasPhoto
<1>13. QED
  BY <1>2, <1>4, <1>5, <1>6, <1>7, <1>8, <1>9, <1>10, <1>12 DEF PhoneInv

(* A request ends, and the routine with it: nothing came of it, as far as  *)
(* the phone has heard.                                                    *)
LEMMA RequestEnds ==
  ASSUME PhoneInv, NEW p \in Routines, run[p].pc \in {"post", "batch"}, Hold(p, Rest),
         ListTypes', server'.photos = server.photos,
         UNCHANGED <<kind, queue, receipts, past>>,
         odd'.raced = odd.raced, odd'.revived = odd.revived,
         odd'.photos = odd.photos, odd.unheard \subseteq odd'.unheard,
         \A i \in Items :
           \/ server'.accepted[i] = server.accepted[i]
           \/ /\ server'.accepted[i] = server.accepted[i] + 1
              /\ i \in odd'.unheard /\ i \in past.saved
  PROVE  PhoneInv'
<1>1. /\ PhoneTypes' /\ Syncs \subseteq Routines /\ MayHold(p, Rest)
      /\ run'[p] = Rest /\ \A q \in Routines \ {p} : run'[q] = run[q]
      /\ \A t \in Syncs \ {p} : run'[t] = run[t]
      /\ p # Form => run'[Form] = run[Form]
  BY OneSteps DEF PhoneInv, MayHold
<1>2. TakenOf(run[p]) = {}
  BY DEF TakenOf
<1>3. \A i \in Items : server.accepted[i] \in Nat /\ server'.accepted[i] \in Nat
  BY DEF PhoneInv, PhoneTypes, ListTypes
<1>4. /\ past.saved \subseteq Items /\ ToSet(queue) \subseteq Items
      /\ \A s \in Syncs : CopyOf(run[s]) \subseteq Items
      /\ \A q \in Routines : IsNew(q, run[q]) => run[q].item \in Items
  <2>1. past.saved \subseteq Items
    BY DEF PhoneInv, PhoneTypes, ListTypes
  <2>2. ToSet(queue) \subseteq Items /\ \A s \in Syncs : CopyOf(run[s]) \subseteq Items
    BY <2>1 DEF PhoneInv, Known
  <2>3. \A q \in Routines : IsNew(q, run[q]) => run[q].item \in Items
    BY InHands DEF PhoneInv, IsNew, Writing, Posted, Writes
  <2>4. QED
    BY <2>1, <2>2, <2>3
<1>5. OneSync'
  BY <1>1 DEF PhoneInv, OneSync
<1>6. Known'
  BY AtRest, <1>1 DEF PhoneInv, Known
<1>7. Fresh'
  BY AtRest, <1>1, <1>4 DEF PhoneInv, Fresh
<1>8. Sorted'
  BY AtRest, <1>1 DEF PhoneInv, Sorted, InOrder
<1>9. Covered'
  <2>1. \A i \in past.saved : Closed(i) => Closed(i)'
    BY <1>3, <1>4 DEF Closed
  <2>2. \A S : Covers(S) => Covers(S)'
    BY <2>1 DEF Covers
  <2>3. Covers(ToSet(queue))'
    BY <2>2 DEF PhoneInv, Covered
  <2>4. \A s \in Syncs : run'[s] # Rest => Covers(CopyOf(run[s]))'
    BY <1>1, <2>2 DEF PhoneInv, Covered
  <2>5. \A q \in Routines : Writing(run'[q]) => Covers(ToSet(run[q].list))'
    BY AtRest, <1>1, <2>2 DEF PhoneInv, Covered
  <2>6. /\ \A s \in Syncs : run'[s].pc = "took" => server'.accepted[run'[s].item] > 0
        /\ \A s \in Syncs : run'[s].pc = "clear" /\ run'[s].ok =>
             \A i \in ToSet(run'[s].batch) : server'.accepted[i] > 0
    <3>1. \A i \in Items : server.accepted[i] > 0 => server'.accepted[i] > 0
      BY <1>3
    <3>2. \A s \in Syncs : /\ run[s].pc = "took" => run[s].item \in Items
                           /\ run[s].pc = "clear" => ToSet(run[s].batch) \subseteq Items
      BY <1>4 DEF CopyOf
    <3>3. QED
      BY AtRest, <1>1, <3>1, <3>2 DEF PhoneInv, Covered
  <2>7. QED
    BY <2>3, <2>4, <2>5, <2>6 DEF Covered
<1>10. Once'
  BY AtRest, <1>1, <1>2, <1>4 DEF PhoneInv, Once, ToSend, RecordedOnce
<1>11. ListsAgree'
  BY AtRest, <1>1 DEF PhoneInv, ListsAgree, Gone
<1>13. PhotosInSight'
  <2> SUFFICES ASSUME NEW i \in Items, NEW n \in 1 .. server'.accepted[i],
                      HasPhoto(i)', i \notin odd'.unheard
               PROVE  InSight(Made(i, n))'
    BY DEF PhotosInSight
  <2>1. server'.accepted[i] = server.accepted[i] /\ i \notin odd.unheard /\ HasPhoto(i)
    BY DEF HasPhoto
  <2>2. InSight(Made(i, n))
    BY <2>1 DEF PhoneInv, PhotosInSight
  <2>3. CASE Made(i, n) \in Gone \cup ToSet(receipts)
    BY <2>3 DEF InSight, Gone
  <2>4. ASSUME NEW q \in Routines, InHandOf(q, Made(i, n)) PROVE InSight(Made(i, n))'
    <3>1. q # p
      BY <2>4 DEF InHandOf
    <3>2. run'[q] = run[q]
      BY <1>1, <3>1
    <3>3. CASE run[q].pc \in {"upload", "store"} /\ run[q].photo = Made(i, n)
      BY <3>2, <3>3 DEF InSight, InHandOf
    <3>4. CASE /\ run[q].pc = "took"
               /\ Made(run[q].item, server.accepted[run[q].item]) = Made(i, n)
      <4>1. run[q].item = i
        BY <3>4 DEF Made
      <4>2. QED
        BY <2>1, <3>2, <3>4, <4>1 DEF InSight, InHandOf
    <3>5. QED
      BY <2>4, <3>3, <3>4 DEF InHandOf
  <2>5. QED
    BY <2>2, <2>3, <2>4 DEF InSight
<1>14. QED
  BY <1>1, <1>5, <1>6, <1>7, <1>8, <1>9, <1>10, <1>11, <1>13 DEF PhoneInv

(* The server answers a flush: it has taken what the flush sent, or not.   *)
LEMMA FlushAnswered ==
  ASSUME PhoneInv, NEW s \in Syncs, NEW r, Hold(s, r), MayHold(s, r),
         \/ /\ run[s].pc = "post" /\ r.pc \in {"took", "refused"}
            /\ r.item = run[s].item /\ r.left = run[s].left
         \/ /\ run[s].pc = "batch" /\ r.pc = "clear" /\ r.batch = run[s].batch,
         ListTypes', server'.photos = server.photos,
         UNCHANGED <<kind, queue, receipts, past, odd>>,
         \A i \in Items :
           \/ server'.accepted[i] = server.accepted[i]
           \/ /\ server'.accepted[i] = server.accepted[i] + 1 /\ i \in TakenOf(r),
         r.pc = "took" \/ (r.pc = "clear" /\ r.ok) =>
           \A i \in TakenOf(r) : server'.accepted[i] > 0
  PROVE  PhoneInv'
<1>1. /\ PhoneTypes' /\ s \in Routines /\ Syncs \subseteq Routines
      /\ run'[s] = r /\ \A q \in Routines \ {s} : run'[q] = run[q]
      /\ \A t \in Syncs \ {s} : run'[t] = run[t]
      /\ s # Form => run'[Form] = run[Form]
  BY OneSteps DEF PhoneInv, Routines
<1>2. /\ CopyOf(r) = CopyOf(run[s]) /\ TakenOf(run[s]) = {}
      /\ TakenOf(r) \subseteq CopyOf(r)
  BY DEF TakenOf, CopyOf
<1>3. \A i \in Items : server.accepted[i] \in Nat /\ server'.accepted[i] \in Nat
  BY DEF PhoneInv, PhoneTypes, ListTypes
<1>4. /\ past.saved \subseteq Items /\ ToSet(queue) \subseteq Items
      /\ \A t \in Syncs : CopyOf(run[t]) \subseteq Items
      /\ \A q \in Routines : IsNew(q, run[q]) => run[q].item \in Items
  <2>1. past.saved \subseteq Items
    BY DEF PhoneInv, PhoneTypes, ListTypes
  <2>2. ToSet(queue) \subseteq Items /\ \A t \in Syncs : CopyOf(run[t]) \subseteq Items
    BY <2>1 DEF PhoneInv, Known
  <2>3. \A q \in Routines : IsNew(q, run[q]) => run[q].item \in Items
    BY InHands DEF PhoneInv, IsNew, Writing, Posted, Writes
  <2>4. QED
    BY <2>1, <2>2, <2>3
<1>5. /\ ~IsNew(s, r) /\ ~Writing(r) /\ r # Rest
      /\ ~IsNew(s, run[s]) /\ run[s] # Rest /\ \A t \in Syncs \ {s} : run[t] = Rest
  <2>1. s # Form /\ r.pc \in {"took", "refused", "clear"} /\ Rest.pc = "rest"
    BY DEF Form, Syncs, Rest
  <2>2. run[s] # Rest /\ \A t \in Syncs \ {s} : run[t] = Rest
    BY <2>1 DEF PhoneInv, OneSync
  <2>3. QED
    BY <2>1, <2>2 DEF IsNew, Writing
<1>6. CopyOf(r) \subseteq past.saved
  BY <1>2 DEF PhoneInv, Known
<1>7. OneSync'
  BY <1>1, <1>5 DEF OneSync
<1>8. Known'
  BY <1>1, <1>2, <1>5 DEF PhoneInv, Known
<1>9. Fresh'
  BY <1>1, <1>2, <1>4, <1>5, <1>6 DEF PhoneInv, Fresh
<1>10. Sorted'
  BY <1>1, <1>5 DEF PhoneInv, Sorted, InOrder
<1>11. Covered'
  <2>1. \A i \in past.saved : Closed(i) => Closed(i)'
    BY <1>3, <1>4 DEF Closed
  <2>2. \A S : Covers(S) => Covers(S)'
    BY <2>1 DEF Covers
  <2>3. Covers(ToSet(queue))'
    BY <2>2 DEF PhoneInv, Covered
  <2>4. (\A t \in Syncs : run[t] # Rest => Covers(CopyOf(run[t])))'
    <3>1. Covers(CopyOf(r))'
      BY <1>2, <1>5, <2>2 DEF PhoneInv, Covered
    <3>2. QED
      BY <1>1, <1>5, <3>1 DEF Covers
  <2>5. (\A q \in Routines : Writing(run[q]) => Covers(ToSet(run[q].list)))'
    <3>1. \A q \in Routines : Writing(run'[q]) => run'[q] = run[q]
      BY <1>1, <1>5
    <3>2. \A q \in Routines : Writing(run'[q]) => Covers(ToSet(run[q].list))'
      BY <2>2, <3>1 DEF PhoneInv, Covered
    <3>3. QED
      BY <3>1, <3>2 DEF Covers
  <2>6. /\ \A t \in Syncs : run'[t].pc = "took" => server'.accepted[run'[t].item] > 0
        /\ \A t \in Syncs : run'[t].pc = "clear" /\ run'[t].ok =>
             \A i \in ToSet(run'[t].batch) : server'.accepted[i] > 0
    <3>1. r.pc = "took" => server'.accepted[r.item] > 0
      BY DEF TakenOf
    <3>2. r.pc = "clear" /\ r.ok => \A i \in ToSet(r.batch) : server'.accepted[i] > 0
      BY DEF TakenOf
    <3>3. QED
      BY AtRest, <1>1, <1>5, <3>1, <3>2
  <2>7. QED
    BY <2>3, <2>4, <2>5, <2>6 DEF Covered
<1>12. Once'
  BY AtRest, <1>1, <1>2, <1>3, <1>4, <1>5
    DEF PhoneInv, Once, ToSend, RecordedOnce
<1>13. ListsAgree'
  BY <1>1 DEF PhoneInv, ListsAgree, Gone
<1>15. PhotosInSight'
  <2> SUFFICES ASSUME NEW i \in Items, NEW n \in 1 .. server'.accepted[i],
                      HasPhoto(i)', i \notin odd'.unheard
               PROVE  InSight(Made(i, n))'
    BY DEF PhotosInSight
  <2>1. i \notin odd.unheard /\ HasPhoto(i) /\ kind # "fixes"
    BY DEF HasPhoto
  <2>2. CASE n \in 1 .. server.accepted[i]
    <3>1. InSight(Made(i, n))
      BY <2>1, <2>2 DEF PhoneInv, PhotosInSight
    <3>2. CASE Made(i, n) \in Gone \cup ToSet(receipts)
      BY <3>2 DEF InSight, Gone
    <3>3. ASSUME NEW q \in Routines, InHandOf(q, Made(i, n)) PROVE InSight(Made(i, n))'
      <4>1. q # s
        BY <3>3 DEF InHandOf
      <4>2. run[q].pc # "took"
        BY <1>5, <4>1, AtRest, InHands DEF PhoneInv
      <4>3. QED
        BY <1>1, <3>3, <4>1, <4>2 DEF InHandOf, InSight
    <3>4. QED
      BY <3>1, <3>2, <3>3 DEF InSight
  <2>3. CASE n \notin 1 .. server.accepted[i]
    <3>1. n = server'.accepted[i] /\ i \in TakenOf(r)
      BY <1>3, <2>3
    <3>2. r.pc = "took"
      <4>1. run[s].pc # "batch"
        BY <1>1, <2>1, InHands DEF PhoneInv
      <4>2. r.pc # "clear" /\ r.pc # "refused"
        BY <3>1, <4>1 DEF TakenOf
      <4>3. QED
        BY <4>1, <4>2
    <3>3. r.item = i
      BY <3>1, <3>2 DEF TakenOf
    <3>4. InHandOf(s, Made(i, n))'
      BY <1>1, <3>1, <3>2, <3>3 DEF InHandOf
    <3>5. QED
      BY <1>1, <3>4 DEF InSight
  <2>4. QED
    BY <2>2, <2>3
<1>16. QED
  BY <1>1, <1>7, <1>8, <1>9, <1>10, <1>11, <1>12, <1>13, <1>15 DEF PhoneInv

(* The server takes a submitted form: what there is of a photo follows.    *)
LEMMA FormAccepted ==
  ASSUME PhoneInv, run[Form].pc = "post", NEW i, i = run[Form].item,
         NEW r, Hold(Form, r), MayHold(Form, r),
         \/ r = Rest /\ ~HasPhoto(i)
         \/ r.pc = "upload" /\ r.photo = Made(i, server'.accepted[i]),
         ListTypes', server'.photos = server.photos,
         UNCHANGED <<kind, queue, receipts, past, odd>>,
         server'.accepted[i] = server.accepted[i] + 1,
         \A j \in Items \ {i} : server'.accepted[j] = server.accepted[j]
  PROVE  PhoneInv'
<1>1. run[Form] \in Posted({"post"}) /\ i \in Items /\ kind # "fixes"
  BY InHands DEF PhoneInv, Posted, Routines
<1>2. /\ PhoneTypes' /\ Form \in Routines /\ Syncs \subseteq Routines /\ Form \notin Syncs
      /\ run'[Form] = r /\ \A q \in Routines \ {Form} : run'[q] = run[q]
      /\ \A t \in Syncs \ {Form} : run'[t] = run[t]
      /\ Form # Form => run'[Form] = run[Form]
  BY OneSteps DEF PhoneInv, Routines, Form, Syncs
<1>3. \A j \in Items : server.accepted[j] \in Nat /\ server'.accepted[j] \in Nat
  BY DEF PhoneInv, PhoneTypes, ListTypes
<1>4. /\ i \notin past.saved /\ i < past.next /\ server.accepted[i] = 0
      /\ i \notin ToSet(queue) /\ \A s \in Syncs : i \notin CopyOf(run[s])
      /\ \A q \in Routines \ {Form} : IsNew(q, run[q]) => run[q].item # i
      /\ IsNew(Form, run[Form])
  BY <1>1, <1>2, <1>3 DEF PhoneInv, Known, Fresh, IsNew
<1>5. /\ past.saved \subseteq Items /\ ToSet(queue) \subseteq Items
      /\ \A s \in Syncs : CopyOf(run[s]) \subseteq Items
      /\ \A q \in Routines : IsNew(q, run[q]) => run[q].item \in Items
  <2>1. past.saved \subseteq Items
    BY DEF PhoneInv, PhoneTypes, ListTypes
  <2>2. ToSet(queue) \subseteq Items /\ \A s \in Syncs : CopyOf(run[s]) \subseteq Items
    BY <2>1 DEF PhoneInv, Known
  <2>3. \A q \in Routines : IsNew(q, run[q]) => run[q].item \in Items
    BY InHands DEF PhoneInv, IsNew, Writing, Posted, Writes
  <2>4. QED
    BY <2>1, <2>2, <2>3
<1>6. /\ \A s \in Syncs : run'[s] = run[s]
      /\ \A s \in Syncs : run[s].pc = "took" => run[s].item \in Items \ {i}
      /\ \A s \in Syncs : run[s].pc = "clear" => ToSet(run[s].batch) \subseteq Items \ {i}
  BY <1>2, <1>4, <1>5 DEF CopyOf
<1>7. /\ ~IsNew(Form, r) /\ ~Writing(r)
      /\ r.pc \in {"rest", "upload"} /\ server'.accepted[i] = 1
  BY <1>3, <1>4, AtRest DEF IsNew, Writing, Form
<1>8. Made(i, server'.accepted[i]).item = i
  BY DEF Made
<1>9. OneSync'
  BY <1>6 DEF PhoneInv, OneSync
<1>10. Known'
  BY <1>2, <1>4, <1>7 DEF PhoneInv, Known
<1>11. Fresh'
  BY <1>2, <1>4, <1>5, <1>7 DEF PhoneInv, Fresh
<1>12. Sorted'
  BY <1>2, <1>7 DEF PhoneInv, Sorted, InOrder
<1>13. Covered'
  <2>1. \A j \in past.saved : Closed(j) => Closed(j)'
    BY <1>3, <1>4, <1>5 DEF Closed
  <2>2. \A S : Covers(S) => Covers(S)'
    BY <2>1 DEF Covers
  <2>3. Covers(ToSet(queue))'
    BY <2>2 DEF PhoneInv, Covered
  <2>4. (\A t \in Syncs : run[t] # Rest => Covers(CopyOf(run[t])))'
    <3>1. \A t \in Syncs : run[t] # Rest =>
            \A j \in past.saved : j \in CopyOf(run[t]) \/ Closed(j)'
      BY <2>1 DEF PhoneInv, Covered, Covers
    <3>2. QED
      BY <1>6, <3>1 DEF Covers
  <2>5. (\A q \in Routines : Writing(run[q]) => Covers(ToSet(run[q].list)))'
    <3>1. \A q \in Routines \ {Form} : Writing(run[q]) =>
            \A j \in past.saved : j \in ToSet(run[q].list) \/ Closed(j)'
      BY <2>1 DEF PhoneInv, Covered, Covers
    <3>2. Writing(r) => Covers(ToSet(r.list))'
      BY <1>7
    <3>3. QED
      BY <1>2, <3>1, <3>2 DEF Covers
  <2>6. /\ \A t \in Syncs : run'[t].pc = "took" => server'.accepted[run'[t].item] > 0
        /\ \A t \in Syncs : run'[t].pc = "clear" /\ run'[t].ok =>
             \A j \in ToSet(run'[t].batch) : server'.accepted[j] > 0
    BY <1>6 DEF PhoneInv, Covered
  <2>7. QED
    BY <2>3, <2>4, <2>5, <2>6 DEF Covered
<1>14. Once'
  BY <1>4, <1>5, <1>6 DEF PhoneInv, Once, ToSend, RecordedOnce
<1>15. ListsAgree'
  BY <1>2, <1>7 DEF PhoneInv, ListsAgree, Gone
<1>17. PhotosInSight'
  <2> SUFFICES ASSUME NEW j \in Items, NEW n \in 1 .. server'.accepted[j],
                      HasPhoto(j)', j \notin odd'.unheard
               PROVE  InSight(Made(j, n))'
    BY DEF PhotosInSight
  <2>1. j \notin odd.unheard /\ HasPhoto(j)
    BY DEF HasPhoto
  <2>2. CASE j = i
    <3>1. n = 1 /\ r.pc = "upload" /\ r.photo = Made(i, n)
      BY <1>7, <2>1, <2>2
    <3>2. QED
      BY <1>2, <2>2, <3>1 DEF InSight, InHandOf
  <2>3. CASE j # i
    <3>1. InSight(Made(j, n)) /\ server'.accepted[j] = server.accepted[j]
      BY <2>1, <2>3 DEF PhoneInv, PhotosInSight
    <3>2. CASE Made(j, n) \in Gone \cup ToSet(receipts)
      BY <3>2 DEF InSight, Gone
    <3>3. ASSUME NEW q \in Routines, InHandOf(q, Made(j, n)) PROVE InSight(Made(j, n))'
      <4>1. q # Form /\ run'[q] = run[q]
        BY <1>1, <1>2, <3>3 DEF InHandOf, Posted
      <4>2. CASE run[q].pc \in {"upload", "store"} /\ run[q].photo = Made(j, n)
        BY <4>1, <4>2 DEF InSight, InHandOf
      <4>3. CASE /\ run[q].pc = "took"
                 /\ Made(run[q].item, server.accepted[run[q].item]) = Made(j, n)
        <5>1. run[q].item = j
          BY <4>3 DEF Made
        <5>2. QED
          BY <3>1, <4>1, <4>3, <5>1 DEF InSight, InHandOf
      <4>4. QED
        BY <3>3, <4>2, <4>3 DEF InHandOf
    <3>4. QED
      BY <3>1, <3>2, <3>3 DEF InSight
  <2>4. QED
    BY <2>2, <2>3
<1>18. QED
  BY <1>2, <1>9, <1>10, <1>11, <1>12, <1>13, <1>14, <1>15, <1>17 DEF PhoneInv

(* No answer to a submitted form: the queue is read, to save its item.     *)
LEMMA FormReads ==
  ASSUME PhoneInv, run[Form].pc = "post", NEW i, i = run[Form].item,
         NEW r, Hold(Form, r), r \in Writes("save"), r.item = i, r.list = queue,
         ListTypes', server'.photos = server.photos,
         UNCHANGED <<kind, queue, receipts, past>>,
         odd'.raced = odd.raced, odd'.revived = odd.revived,
         odd'.photos = odd.photos, odd.unheard \subseteq odd'.unheard,
         \/ server'.accepted[i] = server.accepted[i]
         \/ server'.accepted[i] = server.accepted[i] + 1 /\ i \in odd'.unheard,
         \A j \in Items \ {i} : server'.accepted[j] = server.accepted[j]
  PROVE  PhoneInv'
<1>1. run[Form] \in Posted({"post"}) /\ i \in Items /\ kind # "fixes"
  BY InHands DEF PhoneInv, Posted, Routines
<1>2. /\ PhoneTypes' /\ Form \in Routines /\ Syncs \subseteq Routines /\ Form \notin Syncs
      /\ run'[Form] = r /\ \A q \in Routines \ {Form} : run'[q] = run[q]
      /\ \A t \in Syncs \ {Form} : run'[t] = run[t]
      /\ Form # Form => run'[Form] = run[Form]
  <2>1. MayHold(Form, r)
    BY <1>1 DEF MayHold
  <2>2. QED
    BY <2>1, OneSteps DEF PhoneInv, Routines, Form, Syncs
<1>3. \A j \in Items : server.accepted[j] \in Nat /\ server'.accepted[j] \in Nat
  BY DEF PhoneInv, PhoneTypes, ListTypes
<1>4. /\ i \notin past.saved /\ i < past.next /\ server.accepted[i] = 0
      /\ i \notin ToSet(queue) /\ \A s \in Syncs : i \notin CopyOf(run[s])
      /\ \A q \in Routines \ {Form} : IsNew(q, run[q]) => run[q].item # i
      /\ IsNew(Form, run[Form])
  BY <1>1, <1>2, <1>3 DEF PhoneInv, Known, Fresh, IsNew
<1>5. /\ past.saved \subseteq Items /\ ToSet(queue) \subseteq Items
      /\ \A s \in Syncs : CopyOf(run[s]) \subseteq Items
      /\ \A q \in Routines : IsNew(q, run[q]) => run[q].item \in Items
  <2>1. past.saved \subseteq Items
    BY DEF PhoneInv, PhoneTypes, ListTypes
  <2>2. ToSet(queue) \subseteq Items /\ \A s \in Syncs : CopyOf(run[s]) \subseteq Items
    BY <2>1 DEF PhoneInv, Known
  <2>3. \A q \in Routines : IsNew(q, run[q]) => run[q].item \in Items
    BY InHands DEF PhoneInv, IsNew, Writing, Posted, Writes
  <2>4. QED
    BY <2>1, <2>2, <2>3
<1>6. /\ \A s \in Syncs : run'[s] = run[s]
      /\ \A s \in Syncs : run[s].pc = "took" => run[s].item \in Items \ {i}
      /\ \A s \in Syncs : run[s].pc = "clear" => ToSet(run[s].batch) \subseteq Items \ {i}
  BY <1>2, <1>4, <1>5 DEF CopyOf
<1>7. /\ r.pc = "save" /\ IsNew(Form, r) /\ Writing(r)
  BY DEF IsNew, Writing, Writes
<1>8. \A j \in ToSet(queue) : j < i
  <2>1. \A j \in ToSet(queue) : j < past.next /\ j # i /\ j \in Nat
    BY <1>4, <1>5, ItemsAssumption DEF PhoneInv, Known
  <2>2. past.next = i + 1 /\ i \in Nat
    BY <1>1, ItemsAssumption DEF PhoneInv, Sorted
  <2>3. QED
    BY <2>1, <2>2
<1>9. OneSync'
  BY <1>6 DEF PhoneInv, OneSync
<1>10. Known'
  BY <1>2, <1>4 DEF PhoneInv, Known
<1>11. Fresh'
  BY <1>2, <1>4, <1>5, <1>7 DEF PhoneInv, Fresh
<1>12. Sorted'
  BY <1>2, <1>8 DEF PhoneInv, Sorted, InOrder
<1>13. Covered'
  <2>1. \A j \in past.saved : Closed(j) => Closed(j)'
    BY <1>3, <1>4, <1>5 DEF Closed
  <2>2. \A S : Covers(S) => Covers(S)'
    BY <2>1 DEF Covers
  <2>3. Covers(ToSet(queue))'
    BY <2>2 DEF PhoneInv, Covered
  <2>4. (\A t \in Syncs : run[t] # Rest => Covers(CopyOf(run[t])))'
    <3>1. \A t \in Syncs : run[t] # Rest =>
            \A j \in past.saved : j \in CopyOf(run[t]) \/ Closed(j)'
      BY <2>1 DEF PhoneInv, Covered, Covers
    <3>2. QED
      BY <1>6, <3>1 DEF Covers
  <2>5. (\A q \in Routines : Writing(run[q]) => Covers(ToSet(run[q].list)))'
    <3>1. \A q \in Routines \ {Form} : Writing(run[q]) =>
            \A j \in past.saved : j \in ToSet(run[q].list) \/ Closed(j)'
      BY <2>1 DEF PhoneInv, Covered, Covers
    <3>2. Writing(r) => Covers(ToSet(r.list))'
      BY <2>3
    <3>3. QED
      BY <1>2, <3>1, <3>2 DEF Covers
  <2>6. /\ \A t \in Syncs : run'[t].pc = "took" => server'.accepted[run'[t].item] > 0
        /\ \A t \in Syncs : run'[t].pc = "clear" /\ run'[t].ok =>
             \A j \in ToSet(run'[t].batch) : server'.accepted[j] > 0
    BY <1>6 DEF PhoneInv, Covered
  <2>7. QED
    BY <2>3, <2>4, <2>5, <2>6 DEF Covered
<1>14. Once'
  BY <1>5, <1>6 DEF PhoneInv, Once, ToSend, RecordedOnce
<1>15. ListsAgree'
  BY <1>2, <1>7 DEF PhoneInv, ListsAgree, Gone
<1>17. PhotosInSight'
  <2> SUFFICES ASSUME NEW j \in Items, NEW n \in 1 .. server'.accepted[j],
                      HasPhoto(j)', j \notin odd'.unheard
               PROVE  InSight(Made(j, n))'
    BY DEF PhotosInSight
  <2>1. j \notin odd.unheard /\ HasPhoto(j)
    BY DEF HasPhoto
  <2>2. CASE j = i
    <3>1. server'.accepted[i] = 0
      BY <1>3, <1>4, <2>1, <2>2
    <3>2. QED
      BY <2>2, <3>1
  <2>3. CASE j # i
    <3>1. InSight(Made(j, n)) /\ server'.accepted[j] = server.accepted[j]
      BY <2>1, <2>3 DEF PhoneInv, PhotosInSight
    <3>2. CASE Made(j, n) \in Gone \cup ToSet(receipts)
      BY <3>2 DEF InSight, Gone
    <3>3. ASSUME NEW q \in Routines, InHandOf(q, Made(j, n)) PROVE InSight(Made(j, n))'
      <4>1. q # Form /\ run'[q] = run[q]
        BY <1>1, <1>2, <3>3 DEF InHandOf, Posted
      <4>2. CASE run[q].pc \in {"upload", "store"} /\ run[q].photo = Made(j, n)
        BY <4>1, <4>2 DEF InSight, InHandOf
      <4>3. CASE /\ run[q].pc = "took"
                 /\ Made(run[q].item, server.accepted[run[q].item]) = Made(j, n)
        <5>1. run[q].item = j
          BY <4>3 DEF Made
        <5>2. QED
          BY <3>1, <4>1, <4>3, <5>1 DEF InSight, InHandOf
      <4>4. QED
        BY <3>3, <4>2, <4>3 DEF InHandOf
    <3>4. QED
      BY <3>1, <3>2, <3>3 DEF InSight
  <2>4. QED
    BY <2>2, <2>3
<1>18. QED
  BY <1>2, <1>9, <1>10, <1>11, <1>12, <1>13, <1>14, <1>15, <1>17 DEF PhoneInv


(* What is left to a flush of its copy, and what it holds to go on.        *)
LEMMA GoesOn ==
  ASSUME NEW left \in Seq(Items)
  PROVE  /\ CopyOf(PostNext(left)) = ToSet(left) /\ TakenOf(PostNext(left)) = {}
         /\ PostNext(left) \in {Rest} \cup Posted({"post"})
         /\ PostNext(left) # Rest => PostNext(left).pc = "post"
         /\ Ordered(left) /\ PostNext(left) # Rest =>
              /\ Ordered(PostNext(left).left)
              /\ \A j \in ToSet(PostNext(left).left) : PostNext(left).item < j
<1>1. CASE left = <<>>
  <2>1. PostNext(left) = Rest /\ ToSet(left) = {}
    BY <1>1, Elements DEF PostNext
  <2>2. QED
    BY <2>1, AtRest
<1>2. CASE left # <<>>
  <2> DEFINE r == [pc |-> "post", item |-> Head(left), left |-> Tail(left)]
  <2>1. PostNext(left) = r
    BY <1>2 DEF PostNext
  <2>2. /\ r \in Posted({"post"}) /\ CopyOf(r) = ToSet(left) /\ TakenOf(r) = {}
        /\ r.pc = "post"
    BY <1>2, ElementsOfTail DEF Posted, CopyOf, TakenOf
  <2>3. ASSUME Ordered(left)
        PROVE  Ordered(r.left) /\ \A j \in ToSet(r.left) : r.item < j
    BY <1>2, <2>3, ItemLists, OrderedTail
  <2> HIDE DEF r
  <2>4. QED
    BY <2>1, <2>2, <2>3
<1>3. QED
  BY <1>1, <1>2


LEMMA FewSaved == ASSUME PhoneInv PROVE IsFiniteSet(past.saved)
<1>1. past.saved \subseteq 0 .. past.next /\ past.next \in Nat
  <2>1. past.saved \subseteq Items /\ past.next \in Nat
    BY DEF PhoneInv, PhoneTypes, ListTypes
  <2>2. \A i \in past.saved : i \in Nat /\ i < past.next
    BY <2>1, ItemsAssumption DEF PhoneInv, Known
  <2>3. QED
    BY <2>1, <2>2
<1>2. IsFiniteSet(0 .. past.next)
  BY <1>1, FS_Interval
<1>3. QED
  BY <1>1, <1>2, FS_Subset

(* The cap on the buffer: of a full one, a new fix drops the oldest.       *)
LEMMA CappedBuffer ==
  ASSUME NEW s \in Seq(Items), Ordered(s), s # <<>>, Len(s) <= MAX_QUEUED_FIXES + 1
  PROVE  /\ Capped(s) \in Seq(Items) /\ Ordered(Capped(s))
         /\ Len(Capped(s)) <= MAX_QUEUED_FIXES
         /\ \/ Capped(s) = s
            \/ Capped(s) = Tail(s) /\ Len(Capped(s)) = MAX_QUEUED_FIXES
<1>1. Len(s) \in Nat /\ MAX_QUEUED_FIXES \in Nat
  BY LimitsAssumption
<1>2. CASE Len(s) <= MAX_QUEUED_FIXES
  <2>1. Capped(s) = s
    BY <1>1, <1>2 DEF Capped
  <2>2. QED
    BY <1>2, <2>1
<1>3. CASE ~ (Len(s) <= MAX_QUEUED_FIXES)
  <2>1. Len(s) = MAX_QUEUED_FIXES + 1 /\ Len(s) - MAX_QUEUED_FIXES + 1 = 2
    BY <1>1, <1>3
  <2>2. Capped(s) = SubSeq(s, 2, Len(s))
    BY <1>1, <1>3, <2>1 DEF Capped
  <2>3. SubSeq(s, 2, Len(s)) = Tail(s)
    OBVIOUS
  <2>4. Tail(s) \in Seq(Items) /\ Len(Tail(s)) = MAX_QUEUED_FIXES
    BY <1>1, <2>1, ElementsOfTail
  <2>5. Ordered(Tail(s))
    BY ItemLists, OrderedTail
  <2>6. Capped(s) = Tail(s)
    BY <2>2, <2>3
  <2>7. /\ Capped(s) \in Seq(Items) /\ Ordered(Capped(s))
        /\ Len(Capped(s)) = MAX_QUEUED_FIXES
    BY <2>4, <2>5, <2>6, Zenon
  <2>8. QED
    BY <1>1, <2>6, <2>7
<1>4. QED
  BY <1>2, <1>3

(* An item is saved: p writes the list it has read, and the item after it. *)
LEMMA ItemSaved ==
  ASSUME PhoneInv, NEW p \in Routines, Writing(run[p]), Hold(p, Rest),
         NEW i, i = run[p].item, NEW L, L = ToSet(run[p].list), ListTypes',
         UNCHANGED <<kind, receipts, server>>,
         past'.saved = past.saved \cup {i}, past'.next = past.next,
         past'.dropped = past.dropped,
         odd'.unheard = odd.unheard, odd'.photos = odd.photos,
         odd.raced \subseteq odd'.raced,
         odd'.revived = odd.revived \cup (L \ ToSet(queue)),
         (\E s \in Syncs : run[s] # Rest) => i \in odd'.raced,
         (\E q \in Routines \ {p} : Writing(run[q])) => i \in odd'.raced,
         InOrder(queue)', i \in ToSet(queue'), ToSet(queue') \subseteq L \cup {i},
         \A j \in L \ ToSet(queue') :
           kind = "fixes" /\ \A k \in ToSet(queue') : j < k,
         L \subseteq ToSet(queue') \/ Len(queue') = MAX_QUEUED_FIXES
  PROVE  PhoneInv'
<1>1. /\ PhoneTypes' /\ Syncs \subseteq Routines /\ MayHold(p, Rest)
      /\ run'[p] = Rest /\ \A q \in Routines \ {p} : run'[q] = run[q]
      /\ \A t \in Syncs \ {p} : run'[t] = run[t]
      /\ p # Form => run'[Form] = run[Form]
  BY OneSteps DEF PhoneInv, MayHold
<1>2. p \notin Syncs /\ run[p].pc \in {"save", "push"} /\ i \in Items
  <2>1. run[p].pc \in {"save", "push"}
    BY DEF Writing
  <2>2. p \in Fixers \cup {Form} /\ i \in Items
    BY <2>1, InHands DEF PhoneInv, Writes
  <2>3. QED
    BY <2>1, <2>2 DEF Fixers, Form, Syncs
<1>3. /\ L \subseteq past.saved /\ i \notin past.saved /\ i < past.next
      /\ IsNew(p, run[p]) /\ \A j \in L : j < i
      /\ server.accepted[i] > 0 => i \in odd.unheard
      /\ \A q \in Routines \ {p} : IsNew(q, run[q]) => run[q].item # i
  BY <1>2 DEF PhoneInv, Known, Fresh, Sorted, IsNew
<1>4. \A t \in Syncs : run'[t] = run[t]
  BY <1>1, <1>2
<1>5. ToSet(queue') \subseteq past'.saved
  BY <1>3
<1>6. IsFiniteSet(past'.saved)
  <2>1. IsFiniteSet(past.saved)
    BY FewSaved
  <2>2. IsFiniteSet(past.saved \cup {i})
    BY <2>1, FS_AddElement
  <2>3. QED
    BY <2>2
<1>7. OneSync'
  BY <1>4 DEF PhoneInv, OneSync
<1>8. Known'
  BY AtRest, <1>1, <1>3 DEF PhoneInv, Known
<1>9. Fresh'
  BY AtRest, <1>1, <1>3 DEF PhoneInv, Fresh
<1>10. Sorted'
  BY AtRest, <1>1 DEF PhoneInv, Sorted, InOrder
<1>11. Covered'
  <2>1. \A j \in past.saved : Closed(j) => Closed(j)'
    <3>1. IsFiniteSet(past'.saved) /\ past.saved \subseteq past'.saved
      BY <1>6
    <3>2. \A j : Cardinality({k \in past.saved : k > j})
                 <= Cardinality({k \in past'.saved : k > j})
      <4> DEFINE S == past.saved
                 T == past'.saved
      <4>1. S \subseteq T /\ IsFiniteSet(T)
        BY <3>1
      <4> HIDE DEF S, T
      <4>2. ASSUME NEW j
            PROVE  Cardinality({k \in S : k > j}) <= Cardinality({k \in T : k > j})
        <5> DEFINE A == {k \in S : k > j}
                   B == {k \in T : k > j}
        <5>1. A \subseteq B /\ B \subseteq T
          BY <4>1
        <5> HIDE DEF A, B
        <5>2. IsFiniteSet(B)
          BY <4>1, <5>1, FS_Subset
        <5>3. Cardinality(A) <= Cardinality(B)
          BY <5>1, <5>2, FS_Subset
        <5>4. QED
          BY <5>3 DEF A, B
      <4>3. QED
        BY <4>2 DEF S, T
    <3>3. \A j : /\ Cardinality({k \in past.saved : k > j}) \in Nat
                 /\ Cardinality({k \in past'.saved : k > j}) \in Nat
      <4> SUFFICES ASSUME NEW j
                   PROVE  /\ Cardinality({k \in past.saved : k > j}) \in Nat
                          /\ Cardinality({k \in past'.saved : k > j}) \in Nat
        OBVIOUS
      <4>1. /\ IsFiniteSet({k \in past.saved : k > j})
            /\ IsFiniteSet({k \in past'.saved : k > j})
        <5>1. IsFiniteSet(past.saved) /\ IsFiniteSet(past'.saved)
          BY <3>1, FewSaved
        <5>2. /\ {k \in past.saved : k > j} \subseteq past.saved
              /\ {k \in past'.saved : k > j} \subseteq past'.saved
          OBVIOUS
        <5>3. QED
          BY <5>1, <5>2, FS_Subset
      <4>2. QED
        BY <4>1, FS_CardinalityType
    <3>4. MAX_QUEUED_FIXES \in Nat
      BY LimitsAssumption
    <3>5. SUFFICES ASSUME NEW j \in past.saved, Closed(j) PROVE Closed(j)'
      OBVIOUS
    <3>6. CASE kind = "fixes" /\ Cardinality({k \in past.saved : k > j}) >= MAX_QUEUED_FIXES
      <4> DEFINE a == Cardinality({k \in past.saved : k > j})
                 b == Cardinality({k \in past'.saved : k > j})
      <4>1. a \in Nat /\ b \in Nat /\ a <= b /\ a >= MAX_QUEUED_FIXES
        BY <3>2, <3>3, <3>6
      <4> HIDE DEF a, b
      <4>2. b >= MAX_QUEUED_FIXES
        BY <3>4, <4>1
      <4>3. QED
        BY <3>6, <4>2 DEF b, Closed
    <3>7. QED
      BY <3>5, <3>6 DEF Closed
  <2>2. Covers(ToSet(queue))'
    <3>1. \A j \in past.saved : j \in L \/ Closed(j)
      BY <1>2 DEF PhoneInv, Covered, Covers
    <3>2. ASSUME NEW j \in L \ ToSet(queue') PROVE Closed(j)'
      <4>1. Len(queue') = MAX_QUEUED_FIXES /\ kind = "fixes" /\ \A k \in ToSet(queue') : j < k
        OBVIOUS
      <4> DEFINE T == {k \in past'.saved : k > j}
      <4>2. ToSet(queue') \subseteq T
        <5>1. past'.saved \subseteq Nat /\ j \in Nat
          BY <1>2, <1>3, ItemsAssumption DEF PhoneInv, PhoneTypes, ListTypes
        <5>2. QED
          BY <1>5, <4>1, <5>1
      <4>3. IsFiniteSet(T)
        <5>1. T \subseteq past'.saved
          OBVIOUS
        <5> HIDE DEF T
        <5>2. QED
          BY <1>6, <5>1, FS_Subset
      <4> HIDE DEF T
      <4>4. queue' \in Seq(Nat) /\ Ordered(queue')
        <5>1. queue' \in Seq(Items)
          BY DEF ListTypes
        <5>2. QED
          BY <5>1, ItemLists DEF InOrder
      <4>5. Cardinality(T) >= MAX_QUEUED_FIXES
        BY <4>2, <4>3, <4>4, OrderedCounts
      <4>6. QED
        BY <4>1, <4>5 DEF T, Closed
    <3>3. QED
      BY <2>1, <3>1, <3>2 DEF Covers
  <2>3. (\A t \in Syncs : run[t] # Rest => Covers(CopyOf(run[t])))'
    <3>1. \A t \in Syncs : run[t] # Rest =>
            \A j \in past.saved : j \in CopyOf(run[t]) \/ Closed(j)'
      BY <2>1 DEF PhoneInv, Covered, Covers
    <3>2. (\E t \in Syncs : run[t] # Rest) => Closed(i)'
      BY DEF Closed
    <3>3. QED
      BY <1>4, <3>1, <3>2 DEF Covers
  <2>4. (\A q \in Routines : Writing(run[q]) => Covers(ToSet(run[q].list)))'
    <3>1. \A q \in Routines \ {p} : Writing(run[q]) =>
            \A j \in past.saved : j \in ToSet(run[q].list) \/ Closed(j)'
      BY <2>1 DEF PhoneInv, Covered, Covers
    <3>2. (\E q \in Routines \ {p} : Writing(run[q])) => Closed(i)'
      BY DEF Closed
    <3>3. QED
      BY AtRest, <1>1, <3>1, <3>2 DEF Covers
  <2>5. /\ \A t \in Syncs : run'[t].pc = "took" => server'.accepted[run'[t].item] > 0
        /\ \A t \in Syncs : run'[t].pc = "clear" /\ run'[t].ok =>
             \A j \in ToSet(run'[t].batch) : server'.accepted[j] > 0
    BY <1>4 DEF PhoneInv, Covered
  <2>6. QED
    BY <2>2, <2>3, <2>4, <2>5 DEF Covered
<1>12. Once'
  BY <1>3, <1>4 DEF PhoneInv, Once, ToSend, RecordedOnce
<1>13. ListsAgree'
  BY AtRest, <1>1 DEF PhoneInv, ListsAgree, Gone
<1>15. PhotosInSight'
  BY <1>1, <1>2 DEF PhoneInv, PhotosInSight, InSight, InHandOf, Gone, HasPhoto
<1>16. QED
  BY <1>1, <1>7, <1>8, <1>9, <1>10, <1>11, <1>12, <1>13, <1>15 DEF PhoneInv

(* A flush has had its answer: the queue is stored without what was sent,  *)
(* and r is what the flush holds to go on.                                 *)
LEMMA FlushShifts ==
  ASSUME PhoneInv, NEW s \in Syncs, run[s].pc \in {"took", "refused", "clear"},
         NEW r, Hold(s, r), MayHold(s, r), ListTypes',
         UNCHANGED <<kind, receipts, server, odd>>,
         past'.saved = past.saved, past'.next = past.next,
         past.dropped \subseteq past'.dropped,
         InOrder(queue)', CopyOf(r) = ToSet(queue'), TakenOf(r) = {},
         ToSet(queue') \subseteq CopyOf(run[s]) \ TakenOf(run[s]),
         \A j \in CopyOf(run[s]) \ ToSet(queue') :
           Refusal(j) \in past'.dropped \/ server.accepted[j] > 0,
         r.pc \in {"rest", "post", "upload"}, r.pc # "rest" => Ordered(r.left),
         r.pc = "post" => \A j \in ToSet(r.left) : r.item < j,
         r.pc = "upload" =>
           /\ run[s].pc = "took" /\ run[s].item \notin ToSet(queue')
           /\ r.photo = Made(run[s].item, server.accepted[run[s].item]),
         run[s].pc = "took" /\ HasPhoto(run[s].item) => r.pc = "upload"
  PROVE  PhoneInv'
<1>1. /\ PhoneTypes' /\ s \in Routines /\ Syncs \subseteq Routines
      /\ run'[s] = r /\ \A q \in Routines \ {s} : run'[q] = run[q]
      /\ \A t \in Syncs \ {s} : run'[t] = run[t]
      /\ s # Form => run'[Form] = run[Form]
  BY OneSteps DEF PhoneInv, Routines
<1>2. /\ ~IsNew(s, r) /\ ~Writing(r) /\ run[s] # Rest
      /\ \A t \in Syncs \ {s} : run[t] = Rest /\ run'[t] = Rest
      /\ ~IsNew(s, run[s]) /\ s # Form
  <2>1. s # Form /\ run[s] # Rest
    BY AtRest
  <2>2. \A t \in Syncs \ {s} : run[t] = Rest
    BY <2>1 DEF PhoneInv, OneSync
  <2>3. QED
    BY <1>1, <2>1, <2>2 DEF IsNew, Writing
<1>3. /\ CopyOf(run[s]) \subseteq past.saved /\ past.saved \subseteq Items
      /\ run[s].pc = "took" => run[s].item \in past.saved
  BY DEF PhoneInv, Known, CopyOf, PhoneTypes, ListTypes
<1>5. OneSync'
  BY <1>2 DEF OneSync
<1>6. Known'
  BY <1>1, <1>2 DEF PhoneInv, Known
<1>7. Fresh'
  BY <1>1, <1>2 DEF PhoneInv, Fresh
<1>8. Sorted'
  BY <1>1, <1>2 DEF PhoneInv, Sorted, InOrder
<1>9. Covered'
  BY AtRest, <1>1, <1>2, <1>3 DEF PhoneInv, Covered, Covers, Closed
<1>10. Once'
  <2>1. \A i \in CopyOf(run[s]) \ TakenOf(run[s]) : ToSend(i)'
    BY DEF PhoneInv, Once, ToSend
  <2>2. \A i \in ToSet(queue') : ToSend(i)'
    BY <2>1
  <2>3. \A t \in Syncs : \A i \in CopyOf(run'[t]) : i \in ToSet(queue')
    BY AtRest, <1>1, <1>2
  <2>4. RecordedOnce'
    BY DEF PhoneInv, Once, RecordedOnce
  <2>5. QED
    BY <2>2, <2>3, <2>4 DEF Once
<1>11. ListsAgree'
  BY <1>1 DEF PhoneInv, ListsAgree, Gone
<1>13. PhotosInSight'
  <2> SUFFICES ASSUME NEW i \in Items, NEW n \in 1 .. server.accepted[i],
                      HasPhoto(i), i \notin odd.unheard
               PROVE  InSight(Made(i, n))'
    BY DEF PhotosInSight, HasPhoto
  <2>1. InSight(Made(i, n))
    BY DEF PhoneInv, PhotosInSight
  <2>2. CASE Made(i, n) \in Gone \cup ToSet(receipts)
    BY <2>2 DEF InSight, Gone
  <2>3. ASSUME NEW q \in Routines, InHandOf(q, Made(i, n)) PROVE InSight(Made(i, n))'
    <3>1. CASE q = s
      <4>1. /\ run[s].pc = "took"
            /\ Made(run[s].item, server.accepted[run[s].item]) = Made(i, n)
        BY <2>3, <3>1 DEF InHandOf
      <4>2. run[s].item = i
        BY <4>1 DEF Made
      <4>3. r.pc = "upload" /\ r.photo = Made(i, n)
        BY <4>1, <4>2
      <4>4. QED
        BY <1>1, <4>3 DEF InSight, InHandOf
    <3>2. CASE q # s
      BY <1>1, <2>3, <3>2 DEF InSight, InHandOf
    <3>3. QED
      BY <3>1, <3>2
  <2>4. QED
    BY <2>1, <2>2, <2>3 DEF InSight
<1>14. QED
  BY <1>1, <1>5, <1>6, <1>7, <1>8, <1>9, <1>10, <1>11, <1>13 DEF PhoneInv

(* A photo's upload is answered, and the list of photos read.              *)
LEMMA UploadAnswers ==
  ASSUME PhoneInv, NEW p \in Routines, run[p].pc = "upload",
         NEW r, Hold(p, r), MayHold(p, r), r.pc = "store", r.left = run[p].left,
         r.photo = run[p].photo, r.list = receipts, ListTypes',
         UNCHANGED <<kind, queue, receipts, past, odd>>,
         server'.accepted = server.accepted, server.photos \subseteq server'.photos,
         r.got = "uploaded" => r.photo \in server'.photos
  PROVE  PhoneInv'
<1>1. /\ PhoneTypes' /\ Syncs \subseteq Routines
      /\ run'[p] = r /\ \A q \in Routines \ {p} : run'[q] = run[q]
      /\ \A t \in Syncs \ {p} : run'[t] = run[t]
      /\ p # Form => run'[Form] = run[Form]
  BY OneSteps DEF PhoneInv
<1>2. /\ CopyOf(r) = CopyOf(run[p]) /\ TakenOf(r) = TakenOf(run[p])
      /\ ~IsNew(p, r) /\ ~Writing(r) /\ run[p] # Rest
  BY AtRest DEF CopyOf, TakenOf, IsNew, Writing
<1>3. OneSync'
  BY AtRest, <1>1, <1>2 DEF PhoneInv, OneSync
<1>4. Known'
  BY AtRest, <1>1, <1>2 DEF PhoneInv, Known
<1>5. Fresh'
  BY AtRest, <1>1, <1>2 DEF PhoneInv, Fresh
<1>6. Sorted'
  BY AtRest, <1>1, <1>2 DEF PhoneInv, Sorted, InOrder
<1>7. Covered'
  BY AtRest, <1>1, <1>2 DEF PhoneInv, Covered, Covers, Closed
<1>8. Once'
  <2>1. UNCHANGED <<queue, server.accepted, odd>>
    OBVIOUS
  <2>2. \A s \in Syncs : /\ CopyOf(run'[s]) = CopyOf(run[s])
                        /\ TakenOf(run'[s]) = TakenOf(run[s])
    BY <1>1, <1>2
  <2>3. \A i \in ToSet(queue') :
          ToSend(i)' \/ \E s \in Syncs : i \in TakenOf(run'[s])
    BY <2>1, <2>2 DEF PhoneInv, Once, ToSend
  <2>4. \A s \in Syncs : \A i \in CopyOf(run'[s]) \ TakenOf(run'[s]) : ToSend(i)'
    BY <2>1, <2>2 DEF PhoneInv, Once, ToSend
  <2>5. RecordedOnce'
    BY <2>1 DEF PhoneInv, Once, RecordedOnce
  <2>6. QED
    BY <2>3, <2>4, <2>5 DEF Once
<1>9. ListsAgree'
  BY AtRest, <1>1, <1>2 DEF PhoneInv, ListsAgree, Gone
<1>11. PhotosInSight'
  BY AtRest, <1>1, <1>2 DEF PhoneInv, PhotosInSight, InSight, InHandOf, Gone, HasPhoto
<1>12. QED
  BY <1>1, <1>3, <1>4, <1>5, <1>6, <1>7, <1>8, <1>9, <1>11 DEF PhoneInv

(* The list of photos is stored, as L, and p goes on to r.                 *)
LEMMA ReceiptsStored ==
  ASSUME PhoneInv, NEW p \in Routines, run[p].pc = "store",
         NEW r, Hold(p, r), MayHold(p, r), ListTypes',
         UNCHANGED <<kind, queue, server>>,
         past'.saved = past.saved, past'.next = past.next,
         past.dropped \subseteq past'.dropped,
         run[p].got = "rejected" => run[p].photo \in past'.dropped,
         p \in Syncs => /\ CopyOf(r) = CopyOf(run[p]) /\ TakenOf(r) = {}
                        /\ r.pc \in {"rest", "post"}
                        /\ r.pc = "post" =>
                             /\ \A j \in ToSet(r.left) : r.item < j
                             /\ Ordered(r.left),
         p \in Sweeps \cup {Tap} => r.pc \in {"rest", "upload"},
         p = Form => r = Rest,
         odd'.raced = odd.raced, odd'.revived = odd.revived,
         odd'.unheard = odd.unheard, odd.photos \subseteq odd'.photos,
         (\E q \in Routines \ {p} : run[q].pc = "store") =>
           run[p].photo \in odd'.photos,
         IsInjective(receipts'),
         run[p].got # "network" =>
           ToSet(receipts') = ToSet(run[p].list) \ {run[p].photo},
         run[p].got = "network" =>
           ToSet(receipts') = ToSet(run[p].list) \cup {run[p].photo}
  PROVE  PhoneInv'
<1>1. /\ PhoneTypes' /\ Syncs \subseteq Routines
      /\ run'[p] = r /\ \A q \in Routines \ {p} : run'[q] = run[q]
      /\ \A t \in Syncs \ {p} : run'[t] = run[t]
      /\ p # Form => run'[Form] = run[Form]
  BY OneSteps DEF PhoneInv
<1>2. /\ ~IsNew(p, r) /\ ~Writing(r) /\ run[p] # Rest
      /\ r.pc \notin {"store", "took"}
  <2>1. p \in Syncs \/ p \in Sweeps \cup {Tap} \/ p = Form
    BY InHands DEF PhoneInv
  <2>2. r.pc \in {"rest", "post", "upload"} /\ (r.pc = "post" => p \in Syncs)
    BY <2>1, AtRest
  <2>3. p \in Syncs => p \notin Sweeps \cup {Tap}
    BY DEF Syncs, Sweeps, Tap
  <2>4. QED
    BY <2>1, <2>2, <2>3, AtRest DEF IsNew, Writing
<1>3. TakenOf(run[p]) = {}
  BY DEF TakenOf
<1>4. /\ \A x \in ToSet(receipts) : x \in Gone \/ x \in ToSet(run[p].list)
      /\ run[p].got # "network" => run[p].photo \in Gone'
      /\ Gone \subseteq Gone'
  <2>1. run[p].got \in {"uploaded", "rejected", "network"}
    BY InHands DEF PhoneInv, HeldPhoto
  <2>2. QED
    BY <2>1 DEF PhoneInv, ListsAgree, Gone
<1>5. /\ p \notin Syncs => \A t \in Syncs : run'[t] = run[t]
      /\ p \in Syncs => ~IsNew(p, run[p])
  BY <1>1 DEF IsNew, Writing
<1>6. OneSync'
  BY <1>1, <1>2 DEF PhoneInv, OneSync
<1>7. Known'
  BY <1>1, <1>2 DEF PhoneInv, Known
<1>8. Fresh'
  BY <1>1, <1>2 DEF PhoneInv, Fresh
<1>9. Sorted'
  BY AtRest, <1>1, <1>2 DEF PhoneInv, Sorted, InOrder
<1>10. Covered'
  BY <1>1, <1>2, <1>3 DEF PhoneInv, Covered, Covers, Closed
<1>11. Once'
  BY <1>1, <1>3 DEF PhoneInv, Once, ToSend, RecordedOnce
<1>12. ListsAgree'
  BY <1>1, <1>2 DEF PhoneInv, ListsAgree, Gone
<1>14. PhotosInSight'
  BY <1>1, <1>4 DEF PhoneInv, PhotosInSight, InSight, InHandOf, HasPhoto
<1>15. QED
  BY <1>1, <1>6, <1>7, <1>8, <1>9, <1>10, <1>11, <1>12, <1>14 DEF PhoneInv

(* The app is killed.                                                      *)
LEMMA AllKilled ==
  ASSUME PhoneInv, Kill
  PROVE  PhoneInv'
<1>1. /\ run' = [p \in Routines |-> Rest] /\ \A p \in Routines : run'[p] = Rest
      /\ UNCHANGED <<kind, queue, receipts, server, past>>
      /\ odd'.raced = odd.raced /\ odd'.revived = odd.revived
      /\ odd'.unheard = odd.unheard \cup Unfinished
      /\ odd'.photos = odd.photos \cup InHand
  BY DEF Kill, PhoneInv, PhoneTypes, ListTypes
<1>2. Unfinished \subseteq Items
  <2>1. \A q \in Routines : run[q].pc = "took" => run[q].item \in Items
    BY InHands DEF PhoneInv, Posted
  <2>2. \A q \in Routines : run[q].pc = "clear" => ToSet(run[q].batch) \subseteq Items
    BY InHands, Elements DEF PhoneInv, Cleared
  <2>3. QED
    BY <2>1, <2>2 DEF Unfinished
<1>3. InHand \subseteq Expenses
  <2>1. \A q \in Routines : run[q].pc \in {"upload", "store"} => run[q].photo \in Expenses
    BY InHands DEF PhoneInv, HeldPhoto
  <2>2. ASSUME NEW q \in Routines, run[q].pc = "took"
        PROVE  Made(run[q].item, server.accepted[run[q].item]) \in Expenses
    <3>1. run[q].item \in Items /\ q \in Syncs
      BY <2>2, InHands DEF PhoneInv, Posted
    <3>2. server.accepted[run[q].item] \in Nat /\ server.accepted[run[q].item] > 0
      BY <2>2, <3>1 DEF PhoneInv, Covered, PhoneTypes, ListTypes
    <3>3. QED
      BY <3>1, <3>2 DEF Made, Expenses
  <2>3. QED
    BY <2>1, <2>2 DEF InHand
<1>4. PhoneTypes'
  <2>1. ListTypes'
    <3>1. odd' = [odd EXCEPT !.unheard = odd.unheard \cup Unfinished,
                             !.photos = odd.photos \cup InHand]
      BY DEF Kill
    <3>2. odd' \in [raced : SUBSET Items, revived : SUBSET Items,
                    unheard : SUBSET Items, photos : SUBSET Expenses]
      BY <1>2, <1>3, <3>1 DEF PhoneInv, PhoneTypes, ListTypes
    <3>3. QED
      BY <1>1, <3>2 DEF PhoneInv, PhoneTypes, ListTypes
  <2>2. run' \in [Routines -> Holds]
    BY <1>1 DEF Holds
  <2>3. QED
    BY <1>1, <2>1, <2>2 DEF PhoneTypes, MayHold
<1>5. Syncs \subseteq Routines /\ Form \in Routines
  BY DEF Routines
<1>6. \A s \in Syncs : TakenOf(run[s]) \subseteq odd'.unheard
  BY <1>1, <1>5 DEF TakenOf, Unfinished
<1>7. \A p \in Routines : \A x : InHandOf(p, x) => x \in InHand
  BY DEF InHandOf, InHand
<1>8. OneSync'
  BY <1>1, <1>5 DEF OneSync
<1>9. Known'
  BY AtRest, <1>1, <1>5 DEF PhoneInv, Known
<1>10. Fresh'
  BY AtRest, <1>1 DEF Fresh
<1>11. Sorted'
  BY AtRest, <1>1, <1>5 DEF PhoneInv, Sorted, InOrder
<1>12. Covered'
  BY AtRest, <1>1, <1>5 DEF PhoneInv, Covered, Covers, Closed
<1>13. Once'
  BY AtRest, <1>1, <1>5, <1>6 DEF PhoneInv, Once, ToSend, RecordedOnce
<1>14. ListsAgree'
  BY AtRest, <1>1 DEF PhoneInv, ListsAgree
<1>16. PhotosInSight'
  BY <1>1, <1>7 DEF PhoneInv, PhotosInSight, InSight, Gone, HasPhoto
<1>17. QED
  BY <1>4, <1>8, <1>9, <1>10, <1>11, <1>12, <1>13, <1>14, <1>16 DEF PhoneInv

(***************************************************************************)
(* Each action of the app keeps the invariant.                             *)
(***************************************************************************)
LEMMA PostingKeeps ==
  ASSUME PhoneInv, NEW p \in Syncs \cup {Form}, Posting(p) \/ (p = Form /\ FormKept)
  PROVE  PhoneInv'
<1> DEFINE i == run[p].item
           quiet == /\ UNCHANGED <<kind, queue, receipts, past>>
                    /\ odd'.raced = odd.raced /\ odd'.revived = odd.revived
                    /\ odd'.photos = odd.photos /\ odd.unheard \subseteq odd'.unheard
           same == /\ server'.photos = server.photos
                   /\ \A j \in Items : server'.accepted[j] = server.accepted[j]
           more == /\ server'.photos = server.photos
                   /\ server'.accepted[i] = server.accepted[i] + 1
                   /\ \A j \in Items \ {i} : server'.accepted[j] = server.accepted[j]
<1>1. /\ run[p].pc = "post" /\ p \in Routines /\ kind # "fixes"
      /\ run[p] \in Posted({"post"}) /\ i \in Items /\ run[p].left \in Seq(Items)
  <2>1. run[p].pc = "post" /\ p \in Routines
    BY DEF Posting, Accept, Refuse, Unreachable, LoseAnswer, FormKept, Routines
  <2>2. QED
    BY <2>1, InHands DEF PhoneInv, Posted
<1>2. p \in Syncs => i \in past.saved /\ p # Form
  BY <1>1, AtRest DEF PhoneInv, Known, CopyOf
<1>3. ListTypes
  BY DEF PhoneInv, PhoneTypes
<1>4. CASE Accept(p)
  <2>1. quiet /\ more /\ ListTypes' /\ Hold(p, AfterYes(p, i)) /\ UNCHANGED odd
    <3>1. /\ UNCHANGED <<kind, queue, receipts, past, odd>>
          /\ server' = [server EXCEPT !.accepted[i] = server.accepted[i] + 1]
          /\ Hold(p, AfterYes(p, i))
      BY <1>4 DEF Accept, Taken
    <3>2. server.accepted[i] + 1 \in Nat
      BY <1>1, <1>3 DEF ListTypes
    <3>3. QED
      BY <1>1, <1>3, <3>1, <3>2 DEF ListTypes
  <2>2. CASE p \in Syncs
    <3> DEFINE r == [run[p] EXCEPT !.pc = "took"]
    <3>1. AfterYes(p, i) = r
      BY <1>2, <2>2 DEF AfterYes
    <3>2. /\ r \in Posted({"post", "took", "refused"}) /\ r.pc = "took"
          /\ r.item = i /\ r.left = run[p].left
      BY <1>1 DEF Posted
    <3>3. MayHold(p, r) /\ TakenOf(r) = {i}
      BY <1>1, <2>2, <3>2 DEF MayHold, TakenOf
    <3> HIDE DEF r
    <3>4. server'.accepted[i] > 0
      BY <1>1, <1>3, <2>1 DEF ListTypes
    <3>5. QED
      BY <1>1, <2>1, <2>2, <3>1, <3>2, <3>3, <3>4, FlushAnswered
  <2>3. CASE p = Form
    <3> DEFINE r == AfterYes(Form, i)
    <3>1. /\ MayHold(Form, r)
          /\ \/ r = Rest /\ ~HasPhoto(i)
             \/ r.pc = "upload" /\ r.photo = Made(i, server'.accepted[i])
      <4>1. CASE HasPhoto(i)
        <5>1. r = UploadOf(i, server'.accepted[i], <<>>)
          BY <4>1, AtRest DEF AfterYes
        <5>2. server'.accepted[i] \in Nat \ {0} /\ <<>> \in Seq(Items)
          BY <1>1, <1>3, <2>1 DEF ListTypes
        <5>3. Made(i, server'.accepted[i]) \in Expenses
          BY <1>1, <5>2 DEF Made, Expenses
        <5>4. r \in HeldPhoto(Items)
          BY <5>1, <5>2, <5>3 DEF UploadOf, HeldPhoto
        <5>5. QED
          BY <1>1, <2>3, <5>1, <5>4 DEF MayHold, UploadOf
      <4>2. CASE ~HasPhoto(i)
        BY <4>2, AtRest DEF AfterYes, MayHold
      <4>3. QED
        BY <4>1, <4>2
    <3> HIDE DEF r
    <3>2. QED
      BY <1>1, <2>1, <2>3, <3>1, FormAccepted DEF r
  <2>4. QED
    BY <2>2, <2>3
<1>5. CASE Refuse(p)
  <2>1. /\ quiet /\ same /\ ListTypes' /\ Hold(p, AfterNo(p)) /\ UNCHANGED odd
    <3>1. /\ UNCHANGED <<kind, queue, receipts, past, odd>> /\ Hold(p, AfterNo(p))
          /\ server' \in {server, [server EXCEPT !.refused = server.refused \cup {i}]}
      BY <1>5 DEF Refuse, Judged, SignedOut
    <3>2. CASE server' = server
      BY <1>3, <3>1, <3>2 DEF ListTypes
    <3>3. CASE server' = [server EXCEPT !.refused = server.refused \cup {i}]
      <4>1. /\ server' \in [accepted : [Items -> Nat], refused : SUBSET Items,
                            photos : SUBSET Expenses]
            /\ server'.accepted = server.accepted /\ server'.photos = server.photos
        BY <1>1, <1>3, <3>3 DEF ListTypes
      <4>2. QED
        BY <1>3, <3>1, <4>1 DEF ListTypes
    <3>4. QED
      BY <3>1, <3>2, <3>3
  <2>2. CASE p \in Syncs
    <3> DEFINE r == [run[p] EXCEPT !.pc = "refused"]
    <3>1. AfterNo(p) = r
      BY <1>2, <2>2 DEF AfterNo
    <3>2. /\ r \in Posted({"post", "took", "refused"}) /\ r.pc = "refused"
          /\ r.item = i /\ r.left = run[p].left
      BY <1>1 DEF Posted
    <3>3. MayHold(p, r)
      BY <1>1, <2>2, <3>2 DEF MayHold
    <3> HIDE DEF r
    <3>4. QED
      BY <1>1, <2>1, <2>2, <3>1, <3>2, <3>3, FlushAnswered
  <2>3. CASE p = Form
    <3>1. AfterNo(p) = Rest
      BY <2>3 DEF AfterNo
    <3>2. QED
      BY <1>1, <2>1, <3>1, RequestEnds
  <2>4. QED
    BY <2>2, <2>3
<1>6. CASE Unreachable(p) \/ LoseAnswer(p)
  <2>1. /\ quiet /\ ListTypes' /\ Hold(p, AfterNothing(p))
        /\ same \/ (more /\ i \in odd'.unheard)
    <3>1. CASE Unreachable(p)
      BY <1>3, <3>1 DEF Unreachable, ListTypes
    <3>2. CASE LoseAnswer(p)
      <4>1. /\ UNCHANGED <<kind, queue, receipts, past>> /\ Hold(p, AfterNothing(p))
            /\ server' = [server EXCEPT !.accepted[i] = server.accepted[i] + 1]
            /\ odd' = [odd EXCEPT !["unheard"] = odd["unheard"] \cup {i}]
        BY <3>2 DEF LoseAnswer, Taken, Mark
      <4>2. server.accepted[i] + 1 \in Nat
        BY <1>1, <1>3 DEF ListTypes
      <4>3. more /\ ListTypes' /\ i \in odd'.unheard /\ quiet
        BY <1>1, <1>3, <4>1, <4>2 DEF ListTypes
      <4>4. QED
        BY <4>1, <4>3
    <3>3. QED
      BY <1>6, <3>1, <3>2
  <2>2. CASE p \in Syncs
    <3>1. AfterNothing(p) = Rest
      BY <1>2, <2>2 DEF AfterNothing
    <3>2. \A j \in Items : \/ server'.accepted[j] = server.accepted[j]
                           \/ /\ server'.accepted[j] = server.accepted[j] + 1
                              /\ j \in odd'.unheard /\ j \in past.saved
      BY <1>2, <2>1, <2>2
    <3>3. QED
      BY <1>1, <2>1, <3>1, <3>2, RequestEnds
  <2>3. CASE p = Form
    <3> DEFINE r == [pc |-> "save", item |-> i, list |-> queue]
    <3>1. AfterNothing(p) = r
      BY <2>3 DEF AfterNothing
    <3>2. r \in Writes("save") /\ r.item = i /\ r.list = queue
      BY <1>1, <1>3 DEF Writes, ListTypes
    <3> HIDE DEF r
    <3>3. /\ \/ server'.accepted[i] = server.accepted[i]
             \/ server'.accepted[i] = server.accepted[i] + 1 /\ i \in odd'.unheard
          /\ \A j \in Items \ {i} : server'.accepted[j] = server.accepted[j]
      BY <1>1, <2>1
    <3>4. QED
      BY <1>1, <2>1, <2>3, <3>1, <3>2, <3>3, FormReads
  <2>4. QED
    BY <2>2, <2>3
<1>7. CASE p = Form /\ FormKept
  <2>1. /\ UNCHANGED <<kind, queue, receipts, server, past, odd>> /\ Hold(p, Rest)
    BY <1>7 DEF FormKept, Done
  <2>2. ListTypes'
    BY <1>3, <2>1 DEF ListTypes
  <2>3. QED
    BY <1>1, <2>1, <2>2, RequestEnds
<1>8. QED
  BY <1>4, <1>5, <1>6, <1>7 DEF Posting

(* A save: of the form's item, or of a fix.                                *)
LEMMA SavingKeeps ==
  ASSUME PhoneInv, NEW p \in Routines,
         \/ p = Form /\ kind # "fixes" /\ Save
         \/ p \in Fixers /\ EnqueueGpsFix(p)
  PROVE  PhoneInv'
<1> DEFINE i == run[p].item
           s == run[p].list
           L == ToSet(s)
           busy == IF p = Form THEN \E t \in Syncs : ~Resting(t)
                   ELSE \E q \in (Syncs \cup Fixers) \ {p} : ~Resting(q)
<1>1. /\ Hold(p, Rest) /\ UNCHANGED <<kind, receipts, server>>
      /\ past' = [past EXCEPT !["saved"] = past["saved"] \cup {i}]
      /\ odd' = [odd EXCEPT !.raced = odd.raced \cup (IF busy THEN {i} ELSE {}),
                            !.revived = odd.revived \cup (L \ ToSet(queue))]
      /\ queue' = IF p = Form THEN Append(s, i) ELSE Capped(Append(s, i))
  BY DEF Save, EnqueueGpsFix, Enqueued, Noted, Done, Fixers, Form
<1>2. /\ Writing(run[p]) /\ i \in Items /\ s \in Seq(Items)
      /\ p = Form => kind # "fixes"
      /\ p # Form => kind = "fixes" /\ p \in Fixers
  <2>1. run[p].pc = "save" \/ run[p].pc = "push"
    BY DEF Save, EnqueueGpsFix
  <2>2. Form \notin Fixers
    BY DEF Form, Fixers
  <2>3. QED
    BY <2>1, <2>2, InHands DEF PhoneInv, Writes, Writing
<1>3. /\ Ordered(s) /\ \A j \in L : j < i
      /\ kind = "fixes" => Len(s) <= MAX_QUEUED_FIXES
  BY <1>2 DEF PhoneInv, Sorted, InOrder
<1> HIDE DEF i, s
<1> DEFINE t == Append(s, i)
<1>4. /\ t \in Seq(Items) /\ ToSet(t) = L \cup {i} /\ Len(t) = Len(s) + 1
      /\ Ordered(t) /\ t # <<>> /\ Len(s) \in Nat
  <2>1. s \in Seq(Nat) /\ i \in Nat
    BY <1>2, ItemLists, ItemsAssumption
  <2>2. Ordered(t)
    BY <1>3, <2>1, OrderedAppend
  <2>3. t \in Seq(Items) /\ ToSet(t) = L \cup {i} /\ Len(t) = Len(s) + 1
    BY <1>2, ElementsOfAppend
  <2>4. t # <<>>
    BY <1>2
  <2>5. Len(s) \in Nat
    BY <1>2
  <2>6. QED
    BY <2>2, <2>3, <2>4, <2>5
<1> HIDE DEF t
<1>5. /\ queue' \in Seq(Items) /\ InOrder(queue)' /\ i \in ToSet(queue')
      /\ ToSet(queue') \subseteq L \cup {i}
      /\ \A j \in L \ ToSet(queue') : kind = "fixes" /\ \A k \in ToSet(queue') : j < k
      /\ L \subseteq ToSet(queue') \/ Len(queue') = MAX_QUEUED_FIXES
  <2>1. CASE p = Form
    <3>1. queue' = t /\ kind' # "fixes"
      BY <1>1, <1>2, <2>1 DEF t
    <3>2. QED
      BY <1>4, <3>1 DEF InOrder
  <2>2. CASE p # Form
    <3>1. queue' = Capped(t) /\ kind = "fixes" /\ Len(t) <= MAX_QUEUED_FIXES + 1
      BY <1>1, <1>2, <1>3, <2>2, LimitsAssumption DEF t
    <3>2. /\ queue' \in Seq(Items) /\ Ordered(queue') /\ Len(queue') <= MAX_QUEUED_FIXES
          /\ \/ queue' = t
             \/ queue' = Tail(t) /\ Len(queue') = MAX_QUEUED_FIXES
      BY <1>4, <3>1, CappedBuffer
    <3>3. CASE queue' = t
      BY <1>4, <3>2, <3>3 DEF InOrder
    <3>4. CASE queue' = Tail(t) /\ Len(queue') = MAX_QUEUED_FIXES
      <4>1. /\ ToSet(t) = {Head(t)} \cup ToSet(queue')
            /\ \A k \in ToSet(queue') : Head(t) < k
        BY <1>4, <3>4, ElementsOfTail, ItemLists, OrderedTail
      <4>2. ToSet(queue') # {}
        <5>1. queue' # <<>>
          BY <3>2, <3>4, LimitsAssumption
        <5>2. QED
          BY <3>2, <5>1, Elements
      <4>3. i \in ToSet(queue')
        <5>1. ASSUME i = Head(t) PROVE FALSE
          <6>1. PICK k \in ToSet(queue') : TRUE
            BY <4>2
          <6>2. k \in L \cup {i} /\ i < k
            BY <1>4, <4>1, <5>1
          <6>3. i \in Nat /\ (k \in L => k < i /\ k \in Nat)
            BY <1>2, <1>3, Elements, ItemsAssumption
          <6>4. QED
            BY <6>2, <6>3
        <5>2. QED
          BY <1>4, <4>1, <5>1
      <4>4. QED
        BY <1>4, <3>1, <3>2, <3>4, <4>1, <4>3 DEF InOrder
    <3>5. QED
      BY <3>2, <3>3, <3>4
  <2>3. QED
    BY <2>1, <2>2
<1>6. L \subseteq Items
  BY <1>2, Elements
<1>7. /\ past'.saved = past.saved \cup {i} /\ past'.next = past.next
      /\ past'.dropped = past.dropped
      /\ odd'.unheard = odd.unheard /\ odd'.photos = odd.photos
      /\ odd'.raced = odd.raced \cup (IF busy THEN {i} ELSE {})
      /\ odd'.revived = odd.revived \cup (L \ ToSet(queue))
      /\ ListTypes'
  <2> HIDE DEF busy, L
  <2>1. ListTypes /\ receipts' = receipts /\ server' = server
    BY <1>1 DEF PhoneInv, PhoneTypes
  <2>2. /\ past' \in [next : Nat, saved : SUBSET Items, dropped : SUBSET Refused]
        /\ past'.saved = past.saved \cup {i} /\ past'.next = past.next
        /\ past'.dropped = past.dropped
    BY <1>1, <1>2, <2>1 DEF ListTypes
  <2>3. /\ odd' \in [raced : SUBSET Items, revived : SUBSET Items,
                     unheard : SUBSET Items, photos : SUBSET Expenses]
        /\ odd'.unheard = odd.unheard /\ odd'.photos = odd.photos
        /\ odd'.raced = odd.raced \cup (IF busy THEN {i} ELSE {})
        /\ odd'.revived = odd.revived \cup (L \ ToSet(queue))
    BY <1>1, <1>2, <1>6, <2>1 DEF ListTypes
  <2>4. QED
    BY <1>5, <2>1, <2>2, <2>3 DEF ListTypes
<1>8. /\ (\E q \in Syncs : run[q] # Rest) => busy
      /\ (\E q \in Routines \ {p} : Writing(run[q])) => busy
  <2>1. p \notin Syncs
    BY <1>2 DEF Fixers, Form, Syncs
  <2>2. ASSUME NEW q \in Routines \ {p}, Writing(run[q]) PROVE p # Form /\ q \in Fixers
    <3>1. \/ q = Form /\ kind # "fixes"
          \/ q \in Fixers /\ kind = "fixes"
      BY <2>2, InHands DEF PhoneInv, Writing
    <3>2. QED
      BY <1>2, <3>1
  <2>3. QED
    BY <2>1, <2>2, AtRest DEF Resting
<1> HIDE DEF busy
<1>9. /\ (\E q \in Syncs : run[q] # Rest) => i \in odd'.raced
      /\ (\E q \in Routines \ {p} : Writing(run[q])) => i \in odd'.raced
  BY <1>7, <1>8
<1>10. i = run[p].item /\ L = ToSet(run[p].list)
  BY DEF i, s
<1> HIDE DEF L
<1>11. QED
  BY <1>1, <1>2, <1>5, <1>7, <1>9, <1>10, ItemSaved

(* A flush has its answer, and stores the queue without the item.          *)
LEMMA ShiftingKeeps ==
  ASSUME PhoneInv, NEW s \in Syncs, Shift(s) PROVE PhoneInv'
<1> DEFINE i == run[s].item
           left == run[s].left
<1>1. /\ run[s].pc \in {"took", "refused"} /\ queue' = left
      /\ UNCHANGED <<kind, receipts, server, odd>>
      /\ past' = IF run[s].pc = "refused"
                 THEN [past EXCEPT !["dropped"] = past["dropped"] \cup {Refusal(i)}]
                 ELSE past
  BY DEF Shift, Shifted, Noted
<1>2. /\ s \in Routines /\ kind # "fixes" /\ run[s] \in Posted({"took", "refused"})
      /\ i \in Items /\ left \in Seq(Items)
  BY <1>1, InHands DEF PhoneInv, Posted, Routines
<1>3. /\ CopyOf(run[s]) = {i} \cup ToSet(left) /\ i \notin ToSet(left) /\ Ordered(left)
      /\ TakenOf(run[s]) = IF run[s].pc = "took" THEN {i} ELSE {}
  <2>1. Ordered(left) /\ \A j \in ToSet(left) : i < j
    BY <1>1 DEF PhoneInv, Sorted
  <2>2. i \in Nat
    BY <1>2, ItemsAssumption
  <2>3. QED
    BY <1>1, <2>1, <2>2 DEF CopyOf, TakenOf
<1>4. run[s].pc = "took" => server.accepted[i] > 0 /\ server.accepted[i] \in Nat
  BY <1>2 DEF PhoneInv, Covered, PhoneTypes, ListTypes
<1>5. /\ ListTypes' /\ past'.saved = past.saved /\ past'.next = past.next
      /\ past.dropped \subseteq past'.dropped
      /\ run[s].pc = "refused" => Refusal(i) \in past'.dropped
  <2>1. past \in [next : Nat, saved : SUBSET Items, dropped : SUBSET Refused]
    BY DEF PhoneInv, PhoneTypes, ListTypes
  <2> DEFINE d == Refusal(i)
  <2>2. d \in Refused
    BY <1>2 DEF Refusal, Made, Refused
  <2>3. past' = IF run[s].pc = "refused"
                THEN [past EXCEPT !["dropped"] = past["dropped"] \cup {d}] ELSE past
    BY <1>1
  <2> HIDE DEF d
  <2>4. /\ past' \in [next : Nat, saved : SUBSET Items, dropped : SUBSET Refused]
        /\ past'.saved = past.saved /\ past'.next = past.next
        /\ past.dropped \subseteq past'.dropped
        /\ run[s].pc = "refused" => d \in past'.dropped
    BY <2>1, <2>2, <2>3
  <2>5. QED
    BY <1>1, <1>2, <2>4 DEF PhoneInv, PhoneTypes, ListTypes, d
<1>6. PICK r : /\ Hold(s, r) /\ MayHold(s, r) /\ CopyOf(r) = ToSet(left)
               /\ TakenOf(r) = {} /\ r.pc \in {"rest", "post", "upload"}
               /\ r.pc # "rest" => Ordered(r.left)
               /\ r.pc = "post" => \A j \in ToSet(r.left) : r.item < j
               /\ r.pc = "upload" =>
                    run[s].pc = "took" /\ r.photo = Made(i, server.accepted[i])
               /\ run[s].pc = "took" /\ HasPhoto(i) => r.pc = "upload"
  <2>1. CASE run[s].pc = "took" /\ HasPhoto(i)
    <3> DEFINE r == UploadOf(i, server.accepted[i], left)
    <3>1. Hold(s, r)
      BY <2>1 DEF Shift
    <3>2. Made(i, server.accepted[i]) \in Expenses
      BY <1>2, <1>4, <2>1 DEF Made, Expenses
    <3>3. /\ r \in HeldPhoto(Items) /\ r.pc = "upload" /\ r.left = left
          /\ r.photo = Made(i, server.accepted[i])
      BY <1>2, <3>2 DEF UploadOf, HeldPhoto
    <3> HIDE DEF r
    <3>4. CopyOf(r) = ToSet(left) /\ TakenOf(r) = {}
      BY <3>3 DEF CopyOf, TakenOf
    <3>5. MayHold(s, r)
      BY <1>2, <3>3 DEF MayHold
    <3>6. QED
      BY <1>3, <2>1, <3>1, <3>3, <3>4, <3>5
  <2>2. CASE ~ (run[s].pc = "took" /\ HasPhoto(i))
    <3> DEFINE r == PostNext(left)
    <3>1. Hold(s, r)
      BY <2>2 DEF Shift
    <3>2. /\ CopyOf(r) = ToSet(left) /\ TakenOf(r) = {}
          /\ r \in {Rest} \cup Posted({"post"}) /\ (r # Rest => r.pc = "post")
          /\ r # Rest => /\ Ordered(r.left)
                         /\ \A j \in ToSet(r.left) : r.item < j
      BY <1>2, <1>3, GoesOn
    <3> HIDE DEF r
    <3>3. MayHold(s, r)
      BY <1>2, <3>2 DEF MayHold, Posted
    <3>4. QED
      BY <2>2, <3>1, <3>2, <3>3, AtRest
  <2>3. QED
    BY <2>1, <2>2
<1>7. InOrder(queue)'
  BY <1>1, <1>2, <1>3 DEF InOrder
<1>8. /\ ToSet(queue') \subseteq CopyOf(run[s]) \ TakenOf(run[s])
      /\ \A j \in CopyOf(run[s]) \ ToSet(queue') :
           Refusal(j) \in past'.dropped \/ server.accepted[j] > 0
  BY <1>1, <1>3, <1>4, <1>5
<1>9. /\ run[s].pc \in {"took", "refused", "clear"} /\ CopyOf(r) = ToSet(queue')
      /\ UNCHANGED <<kind, receipts, server, odd>>
      /\ r.pc = "upload" =>
           /\ run[s].pc = "took" /\ run[s].item \notin ToSet(queue')
           /\ r.photo = Made(run[s].item, server.accepted[run[s].item])
      /\ run[s].pc = "took" /\ HasPhoto(run[s].item) => r.pc = "upload"
  BY <1>1, <1>3, <1>6
<1>10. QED
  BY <1>5, <1>6, <1>7, <1>8, <1>9, FlushShifts

(* The buffer is read, sent, and cleared.                                  *)
LEMMA BatchKeeps ==
  ASSUME PhoneInv, NEW s \in Syncs, BatchStep(s) PROVE PhoneInv'
<1> DEFINE batch == run[s].batch
<1>1. ListTypes /\ s \in Routines
  BY DEF PhoneInv, PhoneTypes, Routines
<1>2. CASE AnswerBatch(s)
  <2>1. /\ run[s].pc = "batch" /\ kind = "fixes" /\ batch \in Seq(Items)
        /\ CopyOf(run[s]) = ToSet(batch) /\ ToSet(batch) \subseteq past.saved
        /\ ToSet(batch) \subseteq Items /\ UNCHANGED <<kind, queue, receipts, past>>
    <3>1. run[s].pc = "batch" /\ UNCHANGED <<kind, queue, receipts, past>>
      BY <1>2 DEF AnswerBatch
    <3>2. kind = "fixes" /\ batch \in Seq(Items)
      BY <1>1, <3>1, InHands DEF PhoneInv, Batched
    <3>3. CopyOf(run[s]) = ToSet(batch)
      BY <3>1 DEF CopyOf
    <3>4. ToSet(batch) \subseteq past.saved /\ ToSet(batch) \subseteq Items
      BY <3>2, <3>3, Elements DEF PhoneInv, Known
    <3>5. QED
      BY <3>1, <3>2, <3>3, <3>4
  <2>2. \A ok \in BOOLEAN :
          LET r == [pc |-> "clear", batch |-> batch, ok |-> ok]
          IN  /\ MayHold(s, r) /\ r.pc = "clear" /\ r.batch = run[s].batch
              /\ TakenOf(r) = ToSet(batch) /\ r.ok = ok
    BY <2>1 DEF MayHold, Cleared, TakenOf
  <2>3. ASSUME server' = [server EXCEPT !.accepted =
                  [i \in Items |-> IF i \in ToSet(batch) THEN server.accepted[i] + 1
                                                         ELSE server.accepted[i]]]
        PROVE  /\ server' \in [accepted : [Items -> Nat], refused : SUBSET Items,
                               photos : SUBSET Expenses]
               /\ server'.photos = server.photos
               /\ \A i \in Items :
                    IF i \in ToSet(batch)
                    THEN /\ server'.accepted[i] = server.accepted[i] + 1
                         /\ server'.accepted[i] > 0
                    ELSE server'.accepted[i] = server.accepted[i]
    <3> DEFINE f == [i \in Items |-> IF i \in ToSet(batch) THEN server.accepted[i] + 1
                                                           ELSE server.accepted[i]]
    <3>1. /\ \A i \in Items : server.accepted[i] \in Nat
          /\ server \in [accepted : [Items -> Nat], refused : SUBSET Items,
                 photos : SUBSET Expenses]
      BY <1>1 DEF ListTypes
    <3>2. /\ f \in [Items -> Nat]
          /\ \A i \in Items : IF i \in ToSet(batch)
                              THEN f[i] = server.accepted[i] + 1 /\ f[i] > 0
                              ELSE f[i] = server.accepted[i]
      BY <3>1
    <3> HIDE DEF f
    <3>3. server' = [server EXCEPT !.accepted = f]
      BY <2>3 DEF f
    <3>4. /\ server'.accepted = f /\ server'.photos = server.photos
          /\ server' \in [accepted : [Items -> Nat], refused : SUBSET Items,
                          photos : SUBSET Expenses]
      BY <3>1, <3>2, <3>3
    <3>5. QED
      BY <3>2, <3>4
  <2>4. CASE /\ TakenAll(batch) /\ UNCHANGED odd
             /\ Hold(s, [pc |-> "clear", batch |-> batch, ok |-> TRUE])
    <3> DEFINE r == [pc |-> "clear", batch |-> batch, ok |-> TRUE]
    <3>1. /\ MayHold(s, r) /\ r.pc = "clear" /\ r.batch = run[s].batch
          /\ TakenOf(r) = ToSet(batch) /\ Hold(s, r)
      BY <2>2, <2>4
    <3> HIDE DEF r
    <3>2. /\ ListTypes' /\ \A i \in TakenOf(r) : server'.accepted[i] > 0
          /\ server'.photos = server.photos
          /\ \A i \in Items :
               \/ server'.accepted[i] = server.accepted[i]
               \/ /\ server'.accepted[i] = server.accepted[i] + 1 /\ i \in TakenOf(r)
      BY <1>1, <2>1, <2>3, <2>4, <3>1 DEF TakenAll, ListTypes
    <3>3. QED
      BY <2>1, <2>4, <3>1, <3>2, FlushAnswered
  <2>5. CASE /\ \/ UNCHANGED server
                \/ server' = [server EXCEPT !.refused = server.refused \cup ToSet(batch)]
             /\ UNCHANGED odd
             /\ Hold(s, [pc |-> "clear", batch |-> batch, ok |-> FALSE])
    <3> DEFINE r == [pc |-> "clear", batch |-> batch, ok |-> FALSE]
    <3>1. /\ MayHold(s, r) /\ r.pc = "clear" /\ r.batch = run[s].batch
          /\ ~r.ok /\ Hold(s, r)
      BY <2>2, <2>5
    <3> HIDE DEF r
    <3>2. /\ server'.accepted = server.accepted /\ server'.photos = server.photos
          /\ server' \in [accepted : [Items -> Nat], refused : SUBSET Items,
                          photos : SUBSET Expenses]
      <4>1. server \in [accepted : [Items -> Nat], refused : SUBSET Items,
                        photos : SUBSET Expenses]
        BY <1>1 DEF ListTypes
      <4>2. CASE UNCHANGED server
        BY <4>1, <4>2
      <4>3. CASE server' = [server EXCEPT !.refused = server.refused \cup ToSet(batch)]
        <5> HIDE DEF batch
        <5>1. QED
          BY <2>1, <4>1, <4>3
      <4>4. QED
        BY <2>5, <4>2, <4>3
    <3>3. ListTypes'
      BY <1>1, <2>1, <2>5, <3>2 DEF ListTypes
    <3>4. QED
      BY <2>1, <2>5, <3>1, <3>2, <3>3, FlushAnswered
  <2>6. CASE Done(s) /\ UNCHANGED <<server, odd>>
    <3>1. ListTypes' /\ Hold(s, Rest)
      BY <1>1, <2>1, <2>6 DEF ListTypes, Done
    <3>2. QED
      BY <1>1, <2>1, <2>6, <3>1, RequestEnds
  <2>7. CASE TakenAll(batch) /\ Mark("unheard", ToSet(batch)) /\ Done(s)
    <3>1. odd' = [odd EXCEPT !["unheard"] = odd["unheard"] \cup ToSet(batch)]
      BY <2>7 DEF Mark
    <3>2. /\ odd' \in [raced : SUBSET Items, revived : SUBSET Items,
                       unheard : SUBSET Items, photos : SUBSET Expenses]
          /\ odd'.raced = odd.raced /\ odd'.revived = odd.revived
          /\ odd'.photos = odd.photos /\ odd'.unheard = odd.unheard \cup ToSet(batch)
      BY <1>1, <2>1, <3>1 DEF ListTypes
    <3>3. /\ ListTypes' /\ Hold(s, Rest) /\ server'.photos = server.photos
          /\ \A i \in Items :
               \/ server'.accepted[i] = server.accepted[i]
               \/ /\ server'.accepted[i] = server.accepted[i] + 1
                  /\ i \in odd'.unheard /\ i \in past.saved
      BY <1>1, <2>1, <2>3, <2>7, <3>2 DEF TakenAll, Done, ListTypes
    <3>4. QED
      BY <1>1, <2>1, <3>2, <3>3, RequestEnds
  <2>8. QED
    BY <1>2, <2>4, <2>5, <2>6, <2>7 DEF AnswerBatch
<1>3. CASE ClearGpsQueue(s)
  <2>1. /\ run[s].pc = "clear" /\ queue' = <<>> /\ Hold(s, Rest)
        /\ UNCHANGED <<kind, receipts, server, odd>>
        /\ past' = IF run[s].ok THEN past
                   ELSE [past EXCEPT !["dropped"] =
                           past["dropped"] \cup {Refusal(i) : i \in ToSet(batch)}]
    BY <1>3 DEF ClearGpsQueue, Done, Noted
  <2>2. /\ batch \in Seq(Items) /\ ToSet(batch) \subseteq Items /\ run[s].ok \in BOOLEAN
        /\ CopyOf(run[s]) = ToSet(batch)
    <3>1. run[s] \in Cleared
      BY <1>1, <2>1, InHands DEF PhoneInv
    <3>2. batch \in Seq(Items) /\ run[s].ok \in BOOLEAN
      BY <3>1 DEF Cleared
    <3>3. QED
      BY <2>1, <3>2, Elements DEF CopyOf
  <2>3. /\ past' \in [next : Nat, saved : SUBSET Items, dropped : SUBSET Refused]
        /\ past'.saved = past.saved /\ past'.next = past.next
        /\ past.dropped \subseteq past'.dropped
        /\ ~run[s].ok => \A i \in ToSet(batch) : Refusal(i) \in past'.dropped
    <3> DEFINE D == {Refusal(i) : i \in ToSet(batch)}
    <3>1. D \subseteq Refused
      BY <2>2 DEF Refusal, Made, Refused
    <3>2. \A i \in ToSet(batch) : Refusal(i) \in D
      OBVIOUS
    <3>3. past' = IF run[s].ok THEN past
                  ELSE [past EXCEPT !["dropped"] = past["dropped"] \cup D]
      BY <2>1
    <3> HIDE DEF D
    <3>4. past \in [next : Nat, saved : SUBSET Items, dropped : SUBSET Refused]
      BY <1>1 DEF ListTypes
    <3>5. /\ past' \in [next : Nat, saved : SUBSET Items, dropped : SUBSET Refused]
          /\ past'.saved = past.saved /\ past'.next = past.next
          /\ past.dropped \subseteq past'.dropped
          /\ ~run[s].ok => D \subseteq past'.dropped
      BY <3>1, <3>3, <3>4
    <3>6. QED
      BY <3>2, <3>5
  <2>4. /\ queue' \in Seq(Items) /\ Ordered(queue') /\ ToSet(queue') = {}
        /\ Len(queue') = 0
    <3>1. queue' \in Seq(Items) /\ Len(queue') = 0 /\ queue' = <<>>
      BY <2>1
    <3>2. ToSet(queue') = {}
      BY <3>1, Elements
    <3>3. QED
      BY <3>1, <3>2 DEF Ordered
  <2>5. ListTypes' /\ InOrder(queue)'
    <3>1. ListTypes'
      BY <1>1, <2>1, <2>3, <2>4 DEF ListTypes
    <3>2. 0 <= MAX_QUEUED_FIXES
      BY LimitsAssumption
    <3>3. QED
      BY <2>4, <3>1, <3>2 DEF InOrder
  <2>6. \A j \in CopyOf(run[s]) \ ToSet(queue') :
          Refusal(j) \in past'.dropped \/ server.accepted[j] > 0
    BY <2>1, <2>2, <2>3 DEF PhoneInv, Covered
  <2>7. MayHold(s, Rest)
    BY DEF MayHold
  <2>8. QED
    BY AtRest, <2>1, <2>2, <2>3, <2>4, <2>5, <2>6, <2>7, FlushShifts
<1>4. QED
  BY <1>2, <1>3, FixesRead DEF BatchStep

(* The photos: one is taken in hand, uploaded, and the list stored.        *)
LEMMA TakingKeeps ==
  ASSUME PhoneInv, NEW p \in Sweeps \cup {Tap}, (p \in Sweeps /\ Sweep(p)) \/ (p = Tap /\ UploadNow)
  PROVE  PhoneInv'
<1>1. /\ receipts \in Seq(Expenses) /\ p \in Routines
      /\ ToSet(receipts) \subseteq Expenses
  BY Elements DEF PhoneInv, PhoneTypes, ListTypes, Routines
<1>2. /\ run[p] = Rest /\ UNCHANGED <<kind, queue, receipts, server, past, odd>>
      /\ \E photo \in ToSet(receipts), left \in Seq(Expenses) :
           /\ Hold(p, [pc |-> "upload", photo |-> photo, left |-> left])
           /\ ToSet(left) \subseteq ToSet(receipts)
  <2>1. CASE p \in Sweeps /\ Sweep(p)
    <3>1. /\ run[p] = Rest /\ receipts # <<>>
          /\ Hold(p, [pc |-> "upload", photo |-> Head(receipts), left |-> Tail(receipts)])
          /\ UNCHANGED <<kind, queue, receipts, server, past, odd>>
      BY <2>1 DEF Sweep, Free, Resting
    <3>2. /\ Tail(receipts) \in Seq(Expenses) /\ Head(receipts) \in ToSet(receipts)
          /\ ToSet(Tail(receipts)) \subseteq ToSet(receipts)
      BY <1>1, <3>1, ElementsOfTail
    <3>3. QED
      BY <3>1, <3>2
  <2>2. CASE p = Tap /\ UploadNow
    <3>1. /\ run[Tap] = Rest /\ UNCHANGED <<kind, queue, receipts, server, past, odd>>
          /\ \E photo \in ToSet(receipts) :
               Hold(Tap, [pc |-> "upload", photo |-> photo, left |-> <<>>])
      BY <2>2 DEF UploadNow, Free, Resting
    <3>2. <<>> \in Seq(Expenses) /\ ToSet(<<>>) = {}
      <4>1. <<>> \in Seq(Expenses)
        OBVIOUS
      <4>2. QED
        BY <4>1, Elements
    <3>3. QED
      BY <2>2, <3>1, <3>2
  <2>3. QED
    BY <2>1, <2>2
<1>3. PICK photo \in ToSet(receipts), left \in Seq(Expenses) :
        /\ Hold(p, [pc |-> "upload", photo |-> photo, left |-> left])
        /\ ToSet(left) \subseteq ToSet(receipts)
  BY <1>2
<1> DEFINE r == [pc |-> "upload", photo |-> photo, left |-> left]
<1>4. /\ r \in HeldPhoto(Expenses) /\ r.pc = "upload" /\ Hold(p, r)
  BY <1>1, <1>3 DEF HeldPhoto
<1> HIDE DEF r
<1>5. QED
  BY <1>2, <1>4, PhotoTaken

LEMMA UploadKeeps ==
  ASSUME PhoneInv, NEW p \in Routines, TryUpload(p) PROVE PhoneInv'
<1>1. ListTypes /\ run[p].pc = "upload"
  BY DEF TryUpload, PhoneInv, PhoneTypes
<1>2. PICK got \in {"uploaded", "rejected", "network"} :
        /\ Filed(p, got)
        /\ UNCHANGED <<kind, queue, receipts, past, odd>>
        /\ server' = IF got = "uploaded"
                     THEN [server EXCEPT !["photos"] = server["photos"] \cup {run[p].photo}]
                     ELSE server
  BY DEF TryUpload
<1> DEFINE r == [pc |-> "store", photo |-> run[p].photo, left |-> run[p].left,
                 got |-> got, list |-> receipts]
<1>3. /\ run[p].photo \in Expenses
      /\ \/ /\ p \in Syncs \cup {Form} /\ kind # "fixes" /\ run[p].left \in Seq(Items)
         \/ p \in Sweeps \cup {Tap} /\ run[p].left \in Seq(Expenses)
  BY <1>1, InHands DEF PhoneInv, HeldPhoto
<1>4. /\ r.pc = "store" /\ r.left = run[p].left /\ r.photo = run[p].photo
      /\ r.list = receipts /\ r.got = got
  OBVIOUS
<1>5. MayHold(p, r)
  <2>1. receipts \in Seq(Expenses)
    BY <1>1 DEF ListTypes
  <2>2. CASE p \in Syncs \cup {Form} /\ kind # "fixes" /\ run[p].left \in Seq(Items)
    <3>1. r \in HeldPhoto(Items)
      BY <1>3, <2>1, <2>2 DEF HeldPhoto
    <3> HIDE DEF r
    <3>2. QED
      BY <2>2, <3>1 DEF MayHold
  <2>3. CASE p \in Sweeps \cup {Tap} /\ run[p].left \in Seq(Expenses)
    <3>1. r \in HeldPhoto(Expenses)
      BY <1>3, <2>1, <2>3 DEF HeldPhoto
    <3> HIDE DEF r
    <3>2. QED
      BY <2>3, <3>1 DEF MayHold
  <2>4. QED
    BY <1>3, <2>2, <2>3
<1>6. Hold(p, r)
  BY <1>2 DEF Filed
<1> HIDE DEF r
<1>7. /\ server' \in [accepted : [Items -> Nat], refused : SUBSET Items,
                      photos : SUBSET Expenses]
      /\ server'.accepted = server.accepted /\ server.photos \subseteq server'.photos
      /\ got = "uploaded" => run[p].photo \in server'.photos
  <2>1. server \in [accepted : [Items -> Nat], refused : SUBSET Items,
                    photos : SUBSET Expenses]
    BY <1>1 DEF ListTypes
  <2>2. QED
    BY <1>2, <1>3, <2>1
<1>8. ListTypes'
  BY <1>1, <1>2, <1>7 DEF ListTypes
<1>9. r.got = "uploaded" => r.photo \in server'.photos
  BY <1>4, <1>7
<1>10. QED
  BY <1>1, <1>2, <1>4, <1>5, <1>6, <1>7, <1>8, <1>9, UploadAnswers

LEMMA StoringKeeps ==
  ASSUME PhoneInv, NEW p \in Routines, StoreReceipts(p) PROVE PhoneInv'
<1> DEFINE photo == run[p].photo
           list == run[p].list
           left == run[p].left
           got == run[p].got
           r == Onward(p, run[p])
<1>1. /\ ListTypes /\ run[p].pc = "store" /\ Hold(p, r)
      /\ UNCHANGED <<kind, queue, server>>
      /\ past' = IF got = "rejected"
                 THEN [past EXCEPT !["dropped"] = past["dropped"] \cup {photo}]
                 ELSE past
      /\ receipts' = RemoveFirst(list, photo) \o
                       (IF got = "network" THEN <<photo>> ELSE <<>>)
      /\ \/ /\ odd' = [odd EXCEPT !["photos"] = odd["photos"] \cup {photo}]
            /\ \E q \in Routines \ {p} : run[q].pc = "store"
         \/ odd' = odd /\ ~ \E q \in Routines \ {p} : run[q].pc = "store"
  BY DEF StoreReceipts, Relisted, Mark, Noted, PhoneInv, PhoneTypes
<1>2. /\ photo \in Expenses /\ list \in Seq(Expenses) /\ IsInjective(list)
      /\ \/ /\ p \in Syncs \cup {Form} /\ kind # "fixes" /\ left \in Seq(Items)
         \/ p \in Sweeps \cup {Tap} /\ left \in Seq(Expenses)
  <2>1. IsInjective(list)
    BY <1>1 DEF PhoneInv, ListsAgree
  <2>2. QED
    BY <1>1, <2>1, InHands DEF PhoneInv, HeldPhoto
<1>3. /\ receipts' \in Seq(Expenses) /\ IsInjective(receipts')
      /\ got # "network" => ToSet(receipts') = ToSet(list) \ {photo}
      /\ got = "network" => ToSet(receipts') = ToSet(list) \cup {photo}
  <2> DEFINE t == RemoveFirst(list, photo)
  <2>1. t \in Seq(Expenses) /\ IsInjective(t) /\ ToSet(t) = ToSet(list) \ {photo}
    BY <1>2, ElementsOfRemoveFirst
  <2> HIDE DEF t, list, photo, got
  <2>2. CASE got # "network"
    <3>1. receipts' = t \o <<>>
      BY <1>1, <2>2 DEF t
    <3>2. receipts' = t
      BY <2>1, <3>1
    <3>3. QED
      BY <2>1, <2>2, <3>2
  <2>3. CASE got = "network"
    <3>1. receipts' = t \o <<photo>>
      BY <1>1, <2>3 DEF t
    <3>2. receipts' = Append(t, photo)
      BY <1>2, <2>1, <3>1
    <3>3. /\ receipts' \in Seq(Expenses) /\ ToSet(receipts') = ToSet(list) \cup {photo}
      BY <1>2, <2>1, <3>2, ElementsOfAppend
    <3>4. IsInjective(receipts')
      BY <1>2, <2>1, <3>2, InjectiveAppend
    <3>5. QED
      BY <2>3, <3>3, <3>4
  <2>4. QED
    BY <2>2, <2>3
<1>4. /\ odd' \in [raced : SUBSET Items, revived : SUBSET Items,
                   unheard : SUBSET Items, photos : SUBSET Expenses]
      /\ odd'.raced = odd.raced /\ odd'.revived = odd.revived
      /\ odd'.unheard = odd.unheard /\ odd.photos \subseteq odd'.photos
      /\ (\E q \in Routines \ {p} : run[q].pc = "store") => photo \in odd'.photos
  <2>1. odd \in [raced : SUBSET Items, revived : SUBSET Items,
                 unheard : SUBSET Items, photos : SUBSET Expenses]
    BY <1>1 DEF ListTypes
  <2>2. QED
    BY <1>1, <1>2, <2>1
<1>5. /\ past' \in [next : Nat, saved : SUBSET Items, dropped : SUBSET Refused]
      /\ past'.saved = past.saved /\ past'.next = past.next
      /\ past.dropped \subseteq past'.dropped
      /\ got = "rejected" => photo \in past'.dropped
  <2>1. past \in [next : Nat, saved : SUBSET Items, dropped : SUBSET Refused]
    BY <1>1 DEF ListTypes
  <2>2. photo \in Refused
    BY <1>2 DEF Expenses, Refused
  <2> HIDE DEF photo, got
  <2>3. QED
    BY <1>1, <2>1, <2>2
<1>9. ListTypes'
  BY <1>1, <1>3, <1>4, <1>5 DEF ListTypes
<1>6. CASE p \in Syncs \cup {Form} /\ kind # "fixes" /\ left \in Seq(Items)
  <2>1. p \notin Sweeps \cup {Tap}
    BY <1>6 DEF Syncs, Form, Sweeps, Tap
  <2>2. CASE p \in Syncs
    <3>1. r = PostNext(left)
      BY <2>1, <2>2 DEF Onward, PostNext
    <3>2. Ordered(left) /\ CopyOf(run[p]) = ToSet(left)
      BY <1>1, <2>2 DEF PhoneInv, Sorted, CopyOf
    <3>3. /\ CopyOf(r) = CopyOf(run[p]) /\ TakenOf(r) = {}
          /\ r \in {Rest} \cup Posted({"post"}) /\ (r # Rest => r.pc = "post")
          /\ r # Rest => /\ Ordered(r.left)
                         /\ \A j \in ToSet(r.left) : r.item < j
      BY <1>6, <3>1, <3>2, GoesOn
    <3> HIDE DEF r
    <3>4. MayHold(p, r)
      BY <1>6, <2>2, <3>3 DEF MayHold, Posted
    <3>5. QED
      BY AtRest, <1>1, <1>3, <1>4, <1>5, <1>9, <2>1, <2>2, <3>3, <3>4, ReceiptsStored
  <2>3. CASE p = Form
    <3>1. r = Rest /\ p \notin Syncs
      BY <2>1, <2>3, AtRest DEF Onward
    <3>2. MayHold(p, r)
      BY <3>1 DEF MayHold
    <3> HIDE DEF r
    <3>3. QED
      BY <1>1, <1>3, <1>4, <1>5, <1>9, <2>1, <2>3, <3>1, <3>2, ReceiptsStored
  <2>4. QED
    BY <1>6, <2>2, <2>3
<1>7. CASE p \in Sweeps \cup {Tap} /\ left \in Seq(Expenses)
  <2>1. p \notin Syncs /\ p # Form
    BY <1>7 DEF Syncs, Form, Sweeps, Tap
  <2>2. CASE p \in Sweeps /\ left # <<>> /\ got # "network"
    <3> DEFINE next == [pc |-> "upload", photo |-> Head(left), left |-> Tail(left)]
    <3>1. r = next
      BY <2>1, <2>2 DEF Onward
    <3>2. /\ Head(left) \in Expenses /\ Tail(left) \in Seq(Expenses)
          /\ ToSet(left) = {Head(left)} \cup ToSet(Tail(left))
      BY <1>7, <2>2, ElementsOfTail
    <3>3. /\ next \in HeldPhoto(Expenses) /\ next.pc = "upload"
      BY <2>2, <3>2 DEF HeldPhoto
    <3> HIDE DEF r, next
    <3>5. MayHold(p, r) /\ r.pc \in {"rest", "upload"}
      BY <1>7, <3>1, <3>3 DEF MayHold
    <3>6. QED
      BY <1>1, <1>3, <1>4, <1>5, <1>9, <2>1, <3>5, ReceiptsStored
  <2>3. CASE ~ (p \in Sweeps /\ left # <<>> /\ got # "network")
    <3>1. r = Rest
      BY <2>1, <2>3 DEF Onward
    <3>2. MayHold(p, r) /\ r.pc \in {"rest", "upload"}
      BY <3>1, AtRest DEF MayHold
    <3> HIDE DEF r
    <3>3. QED
      BY <1>1, <1>3, <1>4, <1>5, <1>9, <2>1, <3>2, ReceiptsStored
  <2>4. QED
    BY <2>2, <2>3
<1>8. QED
  BY <1>2, <1>6, <1>7

(***************************************************************************)
(* The invariant holds, and with it what the runs check.                   *)
(***************************************************************************)
LEMMA PhoneInvKept == PhoneInv /\ [QueueNext]_phone => PhoneInv'
<1> SUFFICES ASSUME PhoneInv, [QueueNext]_phone PROVE PhoneInv'
  OBVIOUS
<1>1. CASE Recording
  <2>1. CASE RecordPayment \/ SubmitExpense \/ SubmitJobExpense
    <3>1. Submit /\ kind # "fixes"
      BY <2>1 DEF RecordPayment, SubmitExpense, SubmitJobExpense
    <3>2. QED
      BY <3>1, FormSubmitted
  <2>2. CASE FormKept
    BY <2>2, PostingKeeps
  <2>3. CASE EnqueuePayment \/ EnqueueExpense \/ EnqueueJobExpense
    <3>1. Save /\ kind # "fixes" /\ Form \in Routines
      BY <2>3 DEF EnqueuePayment, EnqueueExpense, EnqueueJobExpense, Routines
    <3>2. QED
      BY <3>1, SavingKeeps
  <2>4. QED
    BY <1>1, <2>1, <2>2, <2>3 DEF Recording
<1>2. ASSUME NEW p \in Syncs \cup {Form}, Posting(p) PROVE PhoneInv'
  BY <1>2, PostingKeeps
<1>3. ASSUME NEW s \in Syncs, StartFlush(s) PROVE PhoneInv'
  <2>1. Flush(s) /\ kind # "fixes"
    BY <1>3 DEF StartFlush, FlushQueue, FlushExpenseQueue, FlushJobExpenseQueue
  <2>2. QED
    BY <2>1, FlushReads
<1>4. ASSUME NEW s \in Syncs, ShiftStep(s) PROVE PhoneInv'
  <2>1. Shift(s)
    BY <1>4 DEF ShiftStep, ShiftPayment, ShiftExpense, ShiftJobExpense
  <2>2. QED
    BY <2>1, ShiftingKeeps
<1>5. ASSUME NEW s \in Syncs, BatchStep(s) PROVE PhoneInv'
  BY <1>5, BatchKeeps
<1>6. ASSUME NEW p \in Sweeps, StartSweep(p) PROVE PhoneInv'
  <2>1. Sweep(p)
    BY <1>6 DEF StartSweep, FlushPendingReceipts, FlushPendingJobReceipts
  <2>2. QED
    BY <2>1, TakingKeeps
<1>7. ASSUME NEW p \in Routines, ReceiptStep(p) PROVE PhoneInv'
  BY <1>7, UploadKeeps, StoringKeeps DEF ReceiptStep
<1>8. ASSUME NEW p \in Fixers, FixStep(p) PROVE PhoneInv'
  <2>1. p \in Routines
    BY DEF Routines
  <2>2. QED
    BY <1>8, <2>1, FixArrives, SavingKeeps DEF FixStep
<1>9. CASE HandleRetryReceipt \/ HandleRetryJobReceipt
  <2>1. UploadNow
    BY <1>9 DEF HandleRetryReceipt, HandleRetryJobReceipt
  <2>2. QED
    BY <2>1, TakingKeeps
<1>10. CASE LoadSignsOut \/ LogoutAtOnce \/ LogBackIn \/ UNCHANGED phone
  <2>1. UNCHANGED <<kind, queue, receipts, run, server, past, odd>>
    BY <1>10 DEF LoadSignsOut, LogoutAtOnce, LogBackIn, phone
  <2>2. QED
    BY <2>1, SessionSteps
<1>11. CASE Kill
  BY <1>11, AllKilled
<1>12. QED
  BY <1>1, <1>2, <1>3, <1>4, <1>5, <1>6, <1>7, <1>8, <1>9, <1>10, <1>11
  DEF QueueNext

LEMMA PhoneAlwaysInv == ClientsSpec => []PhoneInv
<1>1. ClientsInit => PhoneInv
  <2> SUFFICES ASSUME Init PROVE PhoneInv
    BY DEF ClientsInit
  <2>1. /\ queue = <<>> /\ receipts = <<>> /\ \A p \in Routines : run[p] = Rest
        /\ run = [p \in Routines |-> Rest]
        /\ server = [accepted |-> [i \in Items |-> 0], refused |-> {},
                     photos |-> {}]
        /\ past = [next |-> 1, saved |-> {}, dropped |-> {}]
        /\ odd = [raced |-> {}, revived |-> {}, unheard |-> {}, photos |-> {}]
    BY DEF Init
  <2>2. PhoneTypes
    <3>1. ListTypes
      BY <2>1 DEF ListTypes
    <3>2. run \in [Routines -> Holds]
      BY <2>1 DEF Holds
    <3>3. QED
      BY <2>1, <3>1, <3>2 DEF PhoneTypes, MayHold
  <2>3. /\ ToSet(queue) = {} /\ ToSet(receipts) = {} /\ Len(queue) = 0
        /\ Ordered(queue) /\ IsInjective(receipts)
    <3>1. queue \in Seq(Items) /\ receipts \in Seq(Expenses) /\ Len(queue) = 0
      BY <2>1
    <3>2. ToSet(queue) = {} /\ ToSet(receipts) = {}
      BY <2>1, <3>1, Elements
    <3>3. Ordered(queue) /\ IsInjective(receipts)
      BY <2>1 DEF Ordered, IsInjective
    <3>4. QED
      BY <3>1, <3>2, <3>3
  <2>4. /\ \A i \in Items : server.accepted[i] = 0
        /\ past.saved = {} /\ Syncs \subseteq Routines /\ Form \in Routines
        /\ 0 <= MAX_QUEUED_FIXES
    BY <2>1, LimitsAssumption DEF Routines
  <2>5. OneSync /\ Known /\ Fresh /\ Sorted
    BY AtRest, <2>1, <2>3, <2>4 DEF OneSync, Known, Fresh, Sorted, InOrder
  <2>6. Covered /\ Once
    BY AtRest, <2>1, <2>3, <2>4 DEF Covered, Covers, Once, ToSend, RecordedOnce
  <2>7. ListsAgree /\ PhotosInSight
    BY AtRest, <2>1, <2>3, <2>4 DEF ListsAgree, PhotosInSight
  <2>8. QED
    BY <2>2, <2>5, <2>6, <2>7 DEF PhoneInv
<1>2. QED
  BY <1>1, AppAlone, PhoneInvKept, PTL DEF ClientsSpec

(***************************************************************************)
(* What was saved on the phone is queued or on the server, or was dropped  *)
(* on a refusal, or was overwritten by a flush it raced: with any number   *)
(* of items, and whatever fails between any two steps of the app.          *)
(***************************************************************************)
THEOREM NothingEverForgotten == ClientsSpec => []NothingForgotten
<1>1. PhoneInv => NothingForgotten
  BY DEF PhoneInv, Covered, Covers, Closed, NothingForgotten, Accounted
<1>2. QED
  BY <1>1, PhoneAlwaysInv, PTL

(***************************************************************************)
(* An item is on the server twice only if its answer was lost or it came   *)
(* back to the queue by a race.                                            *)
(***************************************************************************)
THEOREM NothingRecordedTwice == ClientsSpec => []RecordedOnce
<1>1. PhoneInv => RecordedOnce
  BY DEF PhoneInv, Once
<1>2. QED
  BY <1>1, PhoneAlwaysInv, PTL

(***************************************************************************)
(* A photo whose expense's answer was heard is on the server, listed or in *)
(* hand, or was dropped on a refusal, or was in hand when the app was      *)
(* killed or two routines stored the list at once.                         *)
(***************************************************************************)
THEOREM PhotosFollowTheirExpense == ClientsSpec => []PhotosKept
<1>1. ASSUME PhoneInv PROVE PhotosKept
  <2>1. \A p \in Routines : \A x : InHandOf(p, x) => x \in InHand
    BY DEF InHandOf, InHand
  <2>2. QED
    BY <1>1, <2>1
    DEF PhoneInv, PhotosInSight, InSight, Gone, PhotosKept
<1>2. QED
  BY <1>1, PhoneAlwaysInv, PTL

(***************************************************************************)
(* The buffer of fixes drops its oldest only, and fits in one request when *)
(* the phone's limit is within the server's (both are 500:                 *)
(* gpsQueue.ts:28-30).                                                     *)
(***************************************************************************)
THEOREM NewestFixesAlwaysKept ==
  MAX_QUEUED_FIXES <= MaxBatch => (ClientsSpec => []NewestFixesKept)
<1> SUFFICES ASSUME MAX_QUEUED_FIXES <= MaxBatch PROVE ClientsSpec => []NewestFixesKept
  OBVIOUS
<1>1. ASSUME PhoneInv PROVE NewestFixesKept
  <2>1. BatchFits
    <3> SUFFICES ASSUME NEW s \in Syncs, run[s].pc = "batch"
                 PROVE  Len(run[s].batch) <= MaxBatch
      BY DEF BatchFits
    <3>1. s \in Routines
      BY DEF Routines
    <3>2. kind = "fixes" /\ run[s].batch \in Seq(Items)
      BY <1>1, <3>1, InHands DEF PhoneInv, Batched
    <3>3. Len(run[s].batch) <= MAX_QUEUED_FIXES /\ Len(run[s].batch) \in Nat
      BY <1>1, <3>2 DEF PhoneInv, Sorted, InOrder
    <3>4. QED
      BY <3>3, LimitsAssumption
  <2>2. QED
    BY <1>1, <2>1 DEF PhoneInv, Covered, Covers, Closed, NewestFixesKept, Accounted
<1>2. PhoneInv => NewestFixesKept
  BY <1>1
<1>3. QED
  BY <1>2, PhoneAlwaysInv, PTL
-----------------------------------------------------------------------------
(* The one queue a behaviour is about stays the one, and the screen knows  *)
(* a session, one that is ending, and none.                                *)
Marks == kind \in Kinds /\ session \in {"live", "ending", "over"}

LEMMA MarksKept == Marks /\ [QueueNext]_phone => Marks'
<1> SUFFICES ASSUME Marks, [QueueNext]_phone PROVE Marks'
  OBVIOUS
<1> USE DEF Marks
<1>1. CASE Recording
  BY <1>1 DEF Recording, RecordPayment, SubmitExpense, SubmitJobExpense, Submit,
    FormKept, EnqueuePayment, EnqueueExpense, EnqueueJobExpense, Save
<1>2. ASSUME NEW p \in Syncs \cup {Form}, Posting(p) PROVE Marks'
  BY <1>2 DEF Posting, Accept, Refuse, Judged, SignedOut, SessionAfter401,
    Unreachable, LoseAnswer
<1>3. ASSUME NEW s \in Syncs, StartFlush(s) \/ ShiftStep(s) PROVE Marks'
  BY <1>3 DEF StartFlush, FlushQueue, FlushExpenseQueue, FlushJobExpenseQueue,
    Flush, ShiftStep, ShiftPayment, ShiftExpense, ShiftJobExpense, Shift
<1>4. ASSUME NEW s \in Syncs, BatchStep(s) PROVE Marks'
  BY <1>4 DEF BatchStep, FlushGpsQueue, AnswerBatch, SessionAfter401,
    ClearGpsQueue
<1>5. ASSUME NEW p \in Sweeps, StartSweep(p) PROVE Marks'
  BY <1>5 DEF StartSweep, FlushPendingReceipts, FlushPendingJobReceipts, Sweep
<1>6. ASSUME NEW p \in Routines, ReceiptStep(p) PROVE Marks'
  BY <1>6 DEF ReceiptStep, TryUpload, SessionAfter401, StoreReceipts
<1>7. ASSUME NEW p \in Fixers, FixStep(p) PROVE Marks'
  BY <1>7 DEF FixStep, HandleGpsFix, EnqueueGpsFix
<1>8. CASE HandleRetryReceipt \/ HandleRetryJobReceipt
  BY <1>8 DEF HandleRetryReceipt, HandleRetryJobReceipt, UploadNow
<1>9. CASE LoadSignsOut \/ LogoutAtOnce \/ LogBackIn \/ Kill \/ UNCHANGED phone
  BY <1>9 DEF LoadSignsOut, LogoutAtOnce, LogBackIn, Kill, phone
<1>10. QED
  BY <1>1, <1>2, <1>3, <1>4, <1>5, <1>6, <1>7, <1>8, <1>9 DEF QueueNext

(* The stored lists, what the routines hold, and the session's tokens have *)
(* their types, and neither list holds anything twice.                     *)
LEMMA PhoneWellTyped == ClientsSpec => []TypeOK
<1>1. ClientsInit => Marks
  BY DEF ClientsInit, Init, Marks
<1>2. ASSUME PhoneInv, Marks, SessionInv PROVE TypeOK
  <2>1. IsInjective(queue)
    <3>1. queue \in Seq(Items) /\ DOMAIN queue = 1 .. Len(queue) /\ Ordered(queue)
      BY <1>2 DEF PhoneInv, PhoneTypes, ListTypes, Sorted, InOrder
    <3>2. \A i, j \in 1 .. Len(queue) : i < j => queue[i] # queue[j]
      <4>1. \A i \in 1 .. Len(queue) : queue[i] \in Nat
        BY <3>1, ItemLists
      <4>2. QED
        BY <3>1, <4>1 DEF Ordered
    <3>3. QED
      BY <3>1, <3>2 DEF IsInjective
  <2>2. ASSUME NEW p \in Routines
        PROVE  run[p] \in {Rest} \cup
                 (IF p \in Sweeps \cup {Tap} THEN HeldPhoto(Expenses)
                                             ELSE Held \cup HeldPhoto(Items))
    <3>1. MayHold(p, run[p])
      BY <1>2 DEF PhoneInv, PhoneTypes
    <3>2. Posted({"post", "took", "refused"}) \cup Posted({"post"})
            \cup Writes("save") \cup Writes("push") \cup Batched \cup Cleared
              \subseteq Held
      BY DEF Posted, Writes, Batched, Cleared, Held
    <3>3. \A q \in Syncs \cup Fixers \cup {Form} : q \notin Sweeps \cup {Tap}
      BY DEF Syncs, Fixers, Form, Sweeps, Tap
    <3>4. QED
      BY <3>1, <3>2, <3>3 DEF MayHold
  <2>3. QED
    BY <1>2, <2>1, <2>2
    DEF PhoneInv, PhoneTypes, ListTypes, ListsAgree, Marks, SessionInv,
        SessionTypes, TypeOK
<1>3. PhoneInv /\ Marks /\ SessionInv => TypeOK
  BY <1>2
<1>4. ClientsSpec => []Marks
  BY <1>1, AppAlone, MarksKept, PTL DEF ClientsSpec
<1>5. QED
  BY <1>3, <1>4, PhoneAlwaysInv, SessionAlwaysInv, PTL

=============================================================================
