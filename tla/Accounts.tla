------------------------------ MODULE Accounts ------------------------------
(***************************************************************************)
(* A company signs up, its owner confirms a code sent by mail, and the     *)
(* nightly clean-up removes the companies that never did:                  *)
(* auth.service.ts signup, signup-verification.service.ts,                 *)
(* verification-code.service.ts, abandoned-signup-cleanup.service.ts and   *)
(* tenant-lock.util.ts.                                                    *)
(*                                                                         *)
(* One step is what happens between an awaited call and the next.  A code  *)
(* is named by the request that issued it: of all codes only the one in    *)
(* Redis can still be right.                                               *)
(***************************************************************************)
EXTENDS Integers, FiniteSets, Sequences

CONSTANTS
  Signups,        \* signups of one owner: all give the same email address
  Asks,           \* requests of the owners in flight together
  SIGNUP_CODE_MAX_ATTEMPTS,
  NoOne,
  Scenes,         \* bound: who signs up, and whether weeks pass as well
  MaxStops        \* bound: how often the server stops

ASSUME ScenesAssumption ==
  Scenes \subseteq [who : SUBSET Signups, long : BOOLEAN]
ASSUME NoOneAssumption == NoOne \notin Asks

VARIABLES
  scene,          \* of Scenes
  tenant,         \* tenant[t]: the row of the company that signup t makes
  code,           \* code[t]: its verification code in Redis
  inbox,          \* the companies whose owner holds the code of `code`
  ask,            \* ask[r]: what request r holds
  cleanup,        \* the list the clean-up goes through
  stops

accounts == <<scene, tenant, code, inbox, ask, cleanup, stops>>

NoTenant == [status |-> "none"]
Deleted == [status |-> "deleted"]
NoCode == [by |-> NoOne, attempts |-> 0]
Idle == [pc |-> "idle"]

(* The tenant's row, the owner's user with it; `old` is past the retention *)
(* of unverified signups, `data` are rows that refer to it.                *)
NewTenant ==
  [status |-> "PENDING_VERIFICATION", trial |-> "none", old |-> FALSE,
   data |-> FALSE]

Exists(t) == tenant[t].status \in {"PENDING_VERIFICATION", "ACTIVE"}
Put(r, rec) == ask' = [ask EXCEPT ![r] = rec]

(***************************************************************************)
(* checkTenantLock, for the statuses this code gives.                      *)
(***************************************************************************)
CheckTenantLock(row) ==
  CASE row.status = "PENDING_VERIFICATION" -> "PENDING_VERIFICATION"
    [] row.trial = "over" -> "TRIAL_EXPIRED"
    [] OTHER -> "unlocked"

(***************************************************************************)
(* AuthService.signup: the address is looked up, then tenant and owner are *)
(* created in one transaction; the address is unique within a tenant only. *)
(* The controller sends the code next.                                     *)
(***************************************************************************)
Signup(r, t) ==
  /\ ask[r] = Idle /\ t \in scene.who /\ tenant[t] = NoTenant
  /\ \A q \in Asks : ask[q].pc = "create" => ask[q].of # t
  /\ \A u \in Signups : ~Exists(u)
  /\ Put(r, [pc |-> "create", of |-> t])
  /\ UNCHANGED <<scene, tenant, code, inbox, cleanup, stops>>

CreateTenant(r) ==
  /\ ask[r].pc = "create"
  /\ tenant' = [tenant EXCEPT ![ask[r].of] = NewTenant]
  /\ Put(r, [pc |-> "sendCode"])
  /\ UNCHANGED <<scene, code, inbox, cleanup, stops>>

(***************************************************************************)
(* sendCode takes the first user with the address, whichever signup made   *)
(* it; resendCode takes the caller's own tenant, and whatever its status   *)
(* (mutant: by the address again).                                         *)
(***************************************************************************)
SendCode(r) ==
  /\ ask[r].pc = "sendCode"
  /\ \/ \E t \in Signups : Exists(t) /\ Put(r, [pc |-> "issue", of |-> t])
     \/ (\A t \in Signups : ~Exists(t)) /\ Put(r, Idle)
  /\ UNCHANGED <<scene, tenant, code, inbox, cleanup, stops>>

ResendTo_ByAddress(t) == CHOOSE u \in Signups : Exists(u)
ResendTo(t) == t

ResendCode(r, t) ==
  /\ ask[r] = Idle /\ Exists(t)
  /\ Put(r, [pc |-> "issue", of |-> ResendTo(t)])
  /\ UNCHANGED <<scene, tenant, code, inbox, cleanup, stops>>

(* issue replaces the code and its attempts in one MULTI.                  *)
Issue(r) ==
  /\ ask[r].pc = "issue"
  /\ code' = [code EXCEPT ![ask[r].of] = [by |-> r, attempts |-> 0]]
  /\ inbox' = inbox \ {ask[r].of}
  /\ Put(r, [pc |-> "mail", of |-> ask[r].of])
  /\ UNCHANGED <<scene, tenant, cleanup, stops>>

(* A mail may bring a code that another request has replaced since, or it  *)
(* is not sent: the caller does not look at the answer.                    *)
Mail(r) ==
  /\ ask[r].pc = "mail"
  /\ inbox' = IF code[ask[r].of].by = r THEN inbox \cup {ask[r].of} ELSE inbox
  /\ Put(r, Idle)
  /\ UNCHANGED <<scene, tenant, code, cleanup, stops>>

MailNotSent(r) ==
  /\ ask[r].pc = "mail"
  /\ Put(r, Idle)
  /\ UNCHANGED <<scene, tenant, code, inbox, cleanup, stops>>

(***************************************************************************)
(* verify: the stored hash is read and compared, and the code is deleted   *)
(* or the attempt counted in a later call.                                 *)
(***************************************************************************)
Spent(attempts) == attempts >= SIGNUP_CODE_MAX_ATTEMPTS

ConfirmCode(r, t) ==
  /\ ask[r] = Idle /\ Exists(t)
  /\ code[t].by # NoOne       \* otherwise false at once
  /\ \E right \in {(t \in inbox), FALSE} :
       Put(r, [of |-> t,
               pc |-> CASE Spent(code[t].attempts) -> "destroy"
                        [] right -> "consume"
                        [] OTHER -> "count"])
  /\ UNCHANGED <<scene, tenant, code, inbox, cleanup, stops>>

DropCode(t) ==
  /\ code' = [code EXCEPT ![t] = NoCode]
  /\ inbox' = inbox \ {t}

(* hincrby, on a code deleted meanwhile too: a key without a hash.         *)
CountAttempt(r) ==
  /\ ask[r].pc = "count"
  /\ LET t == ask[r].of
         attempts == code[t].attempts + 1
     IN  /\ code' = [code EXCEPT ![t].attempts = attempts]
         /\ Put(r, IF Spent(attempts) THEN [pc |-> "destroy", of |-> t]
                                      ELSE Idle)
  /\ UNCHANGED <<scene, tenant, inbox, cleanup, stops>>

DestroyCode(r) ==
  /\ ask[r].pc = "destroy"
  /\ DropCode(ask[r].of) /\ Put(r, Idle)
  /\ UNCHANGED <<scene, tenant, cleanup, stops>>

ConsumeCode(r) ==
  /\ ask[r].pc = "consume"
  /\ DropCode(ask[r].of)
  /\ Put(r, [pc |-> "activate", of |-> ask[r].of])
  /\ UNCHANGED <<scene, tenant, cleanup, stops>>

ExpireCode(t) ==
  /\ code[t] # NoCode
  /\ DropCode(t)
  /\ UNCHANGED <<scene, tenant, ask, cleanup, stops>>

(* The update finds the tenant by id, or fails when it is gone.            *)
Activate(r) ==
  /\ ask[r].pc = "activate"
  /\ LET t == ask[r].of
     IN  tenant' = IF Exists(t)
                     THEN [tenant EXCEPT ![t].status = "ACTIVE",
                                         ![t].trial = "on"]
                     ELSE tenant
  /\ Put(r, Idle)
  /\ UNCHANGED <<scene, code, inbox, cleanup, stops>>

(***************************************************************************)
(* The clean-up lists the tenants PENDING beyond the retention and deletes *)
(* them by id, one transaction each.  A row that others refer to cannot be *)
(* deleted, or the database fails: that is logged and the next is next.    *)
(* The company may be verified since: nothing reads its status again.      *)
(***************************************************************************)
Abandoned(t) ==
  /\ Exists(t)
  /\ tenant[t].status = "PENDING_VERIFICATION" /\ tenant[t].old

ListAbandoned ==
  /\ cleanup = {}
  /\ cleanup' = {t \in Signups : Abandoned(t)}
  /\ cleanup' # {}
  /\ UNCHANGED <<scene, tenant, code, inbox, ask, stops>>

DeleteAbandoned(t) ==
  /\ t \in cleanup
  /\ cleanup' = cleanup \ {t}
  /\ \/ /\ ~tenant[t].data
        /\ tenant' = [tenant EXCEPT ![t] = Deleted]
     \/ tenant' = tenant
  /\ UNCHANGED <<scene, code, inbox, ask, stops>>

(***************************************************************************)
(* A week passes, which is the retention and the trial; the owner of an    *)
(* unlocked company enters his first vehicle; the server stops.            *)
(***************************************************************************)
Older(row) == [row EXCEPT !.old = TRUE,
                          !.trial = IF @ = "none" THEN @ ELSE "over"]

WeekPasses ==
  /\ scene.long
  /\ tenant' = [t \in Signups |-> IF Exists(t) THEN Older(tenant[t])
                                             ELSE tenant[t]]
  /\ tenant' # tenant
  /\ UNCHANGED <<scene, code, inbox, ask, cleanup, stops>>

EnterData(t) ==
  /\ scene.long /\ Exists(t) /\ CheckTenantLock(tenant[t]) = "unlocked" /\ ~tenant[t].data
  /\ tenant' = [tenant EXCEPT ![t].data = TRUE]
  /\ UNCHANGED <<scene, code, inbox, ask, cleanup, stops>>

ServerStops ==
  /\ scene.long
  /\ stops < MaxStops /\ stops' = stops + 1
  /\ ask' = [r \in Asks |-> Idle] /\ cleanup' = {}
  /\ UNCHANGED <<scene, tenant, code, inbox>>

(***************************************************************************)
RequestGoesOn(r) ==
  \/ CreateTenant(r) \/ SendCode(r) \/ Issue(r) \/ Mail(r) \/ MailNotSent(r)
  \/ CountAttempt(r) \/ DestroyCode(r) \/ ConsumeCode(r) \/ Activate(r)

AccountsInit ==
  /\ scene \in Scenes
  /\ tenant = [t \in Signups |-> NoTenant]
  /\ code = [t \in Signups |-> NoCode]
  /\ inbox = {} /\ cleanup = {} /\ stops = 0
  /\ ask = [r \in Asks |-> Idle]

AccountsNext ==
  \/ \E r \in Asks :
       \/ RequestGoesOn(r)
       \/ \E t \in Signups : Signup(r, t) \/ ResendCode(r, t) \/ ConfirmCode(r, t)
  \/ \E t \in Signups : ExpireCode(t) \/ EnterData(t)
  \/ WeekPasses \/ ListAbandoned \/ (\E t \in cleanup : DeleteAbandoned(t)) \/ ServerStops

=============================================================================
