------------------------------ MODULE Digests -------------------------------
(***************************************************************************)
(* The four digests mailed to a company's owners, each by a cron job of    *)
(* its own with tables of its own: unpaid days, vehicles off the air,      *)
(* services due and documents running out (modules/notification).  All     *)
(* have one shape: list the tenants; for each of them read what is due and *)
(* not yet recorded as alerted, mail it, record it.  A behaviour follows   *)
(* one of them, `digest`.                                                  *)
(*                                                                         *)
(* A subject is an assignment, a vehicle, the target of a service, or a    *)
(* document.                                                               *)
(***************************************************************************)
EXTENDS Integers, FiniteSets, Sequences, SequencesExt

CONSTANTS
  Digests,        \* the digests of interest
  TenantList,     \* the tenants, as the scan lists them
  Failing,        \* those of them whose rows cannot be read: it throws
  OwnerOf,        \* OwnerOf[s]: whose subject s is
  Scans,          \* runs of the job that may overlap
  Days,           \* the scans' dates are 1 .. Days
  MaxMishaps      \* bound: crashes, failed writes, mails sent but not reported

VARIABLES
  digest,
  standing,       \* standing[s]: where subject s stands
  today,
  reachable,      \* tenants with an active owner's or a contact address
  alerts,         \* the keys recorded as alerted
  mailed,         \* mailed[k]: how many digests had k in them
  scan,           \* scan[n]: what run n holds
  again,          \* keys that a mishap or an overlap may mail again
  mishaps

digests == <<digest, standing, today, reachable, alerts, mailed, scan,
             again, mishaps>>

DigestKinds == {"payments", "vehicles", "services", "documents"}
ASSUME DigestsAssumption == Digests \subseteq DigestKinds

Subjects == DOMAIN OwnerOf
Tenants == ToSet(TenantList)

ASSUME TenantsAssumption ==
  TenantList \in Seq(Tenants) /\ TenantList # <<>> /\ Days \in Nat \ {0}

(***************************************************************************)
(* What the unique index of each alert table is on: the assignment, the    *)
(* vehicle and the day, the service or document and the kind of warning.   *)
(***************************************************************************)
Key(s, day) ==
  CASE digest = "payments" -> <<s, "missed", 0>>
    [] digest = "vehicles" -> <<s, "offline", day>>
    [] OTHER -> <<s, standing[s], 0>>
Keys ==
  Subjects \X {"missed", "soon", "over"} \X {0}
  \cup Subjects \X {"offline"} \X (1 .. Days)
Due(s) == standing[s] \in {"soon", "over"}

AtRest == [pc |-> "rest"]
Hold(n, rec) == scan' = [scan EXCEPT ![n] = rec]

(* The next tenant of the list, after success and failure alike (mutant:   *)
(* a failure ends the scan).                                               *)
NextTenant_UnlessItFailed(n, failed) ==
  Hold(n, IF failed \/ scan[n].left = <<>> THEN AtRest
          ELSE [scan[n] EXCEPT !.pc = "read", !.keys = {},
                               !.left = Tail(@), !.of = Head(scan[n].left)])
NextTenant(n, failed) ==
  Hold(n, IF scan[n].left = <<>> THEN AtRest
          ELSE [scan[n] EXCEPT !.pc = "read", !.keys = {},
                               !.left = Tail(@), !.of = Head(scan[n].left)])

(* The cron job starts a scan; `day` is the date of its `now`.             *)
ScanAndNotify(n) ==
  /\ scan[n] = AtRest
  /\ Hold(n, [pc |-> "read", of |-> Head(TenantList), left |-> Tail(TenantList),
              keys |-> {}, day |-> today])
  /\ UNCHANGED <<digest, standing, today, reachable, alerts, mailed, again,
                 mishaps>>

(***************************************************************************)
(* notifyTenant: what is due and not recorded.  The vehicles' digest reads *)
(* the recorded ones in a second query, and returns early outside the      *)
(* tenant's tracking hours.  (Mutant: the recorded ones are listed too.)   *)
(***************************************************************************)
Unrecorded_AndRecorded(keys) == keys
Unrecorded(keys) == keys \ alerts

OfTenant(n) == {s \in Subjects : OwnerOf[s] = scan[n].of}
DueKeys(n) == {Key(s, scan[n].day) : s \in {u \in OfTenant(n) : Due(u)}}
HeldBy(n) == IF scan[n].pc \in {"address", "mail", "record"} THEN scan[n].keys
                                                             ELSE {}
(* To be mailed; some of it may be on its way in another scan.             *)
Collect(n, keys) ==
  /\ IF keys = {} THEN NextTenant(n, FALSE)
     ELSE Hold(n, [scan[n] EXCEPT !.pc = "address", !.keys = keys])
  /\ again' = again \cup (keys \cap UNION {HeldBy(m) : m \in Scans \ {n}})

ReadFails(n) ==
  /\ scan[n].pc = "read" /\ scan[n].of \in Failing
  /\ NextTenant(n, TRUE)
  /\ UNCHANGED <<digest, standing, today, reachable, alerts, mailed, again,
                 mishaps>>

ReadDue(n) ==
  /\ scan[n].pc = "read" /\ scan[n].of \notin Failing
  /\ IF digest = "vehicles"
       THEN /\ Hold(n, [scan[n] EXCEPT !.pc = "recorded", !.keys = DueKeys(n)])
            /\ UNCHANGED again
       ELSE Collect(n, Unrecorded(DueKeys(n)))
  /\ UNCHANGED <<digest, standing, today, reachable, alerts, mailed, mishaps>>

OutsideTrackingHours(n) ==
  /\ scan[n].pc = "read" /\ digest = "vehicles"
  /\ NextTenant(n, FALSE)
  /\ UNCHANGED <<digest, standing, today, reachable, alerts, mailed, again,
                 mishaps>>

ReadRecorded(n) ==
  /\ scan[n].pc = "recorded"
  /\ Collect(n, Unrecorded(scan[n].keys))
  /\ UNCHANGED <<digest, standing, today, reachable, alerts, mailed, mishaps>>

ResolveOwnerRecipients(n) ==
  /\ scan[n].pc = "address"
  /\ IF scan[n].of \in reachable
       THEN Hold(n, [scan[n] EXCEPT !.pc = "mail"])
       ELSE NextTenant(n, FALSE)
  /\ UNCHANGED <<digest, standing, today, reachable, alerts, mailed, again,
                 mishaps>>

(***************************************************************************)
(* The mail is sent, or not; or it is sent and the answer is lost, which   *)
(* the mailer reports as not sent.                                         *)
(***************************************************************************)
Mailed(n) ==
  mailed' = [k \in Keys |-> mailed[k] + (IF k \in scan[n].keys THEN 1 ELSE 0)]

MailSent(n) ==
  /\ scan[n].pc = "mail" /\ Mailed(n)
  /\ Hold(n, [scan[n] EXCEPT !.pc = "record"])
  /\ UNCHANGED <<digest, standing, today, reachable, alerts, again, mishaps>>

DigestNotSent(n) ==
  /\ scan[n].pc = "mail"
  /\ NextTenant(n, FALSE)
  /\ UNCHANGED <<digest, standing, today, reachable, alerts, mailed, again,
                 mishaps>>

Mishap == mishaps < MaxMishaps /\ mishaps' = mishaps + 1

SentNotReported(n) ==
  /\ scan[n].pc = "mail" /\ Mishap /\ Mailed(n)
  /\ again' = again \cup scan[n].keys
  /\ NextTenant(n, FALSE)
  /\ UNCHANGED <<digest, standing, today, reachable, alerts>>

(* createMany with skipDuplicates.                                         *)
RecordAlerts(n) ==
  /\ scan[n].pc = "record"
  /\ alerts' = alerts \cup scan[n].keys
  /\ NextTenant(n, FALSE)
  /\ UNCHANGED <<digest, standing, today, reachable, mailed, again, mishaps>>

RecordFails(n) ==
  /\ scan[n].pc = "record" /\ Mishap
  /\ again' = again \cup scan[n].keys
  /\ NextTenant(n, TRUE)
  /\ UNCHANGED <<digest, standing, today, reachable, alerts, mailed>>

ScansStop ==
  /\ Mishap /\ \E n \in Scans : scan[n] # AtRest
  /\ scan' = [n \in Scans |-> AtRest]
  /\ again' = again \cup UNION {HeldBy(n) : n \in Scans}
  /\ UNCHANGED <<digest, standing, today, reachable, alerts, mailed>>

(***************************************************************************)
(* The fleet: a day goes unpaid, is paid late or leaves the lookback       *)
(* window; a vehicle comes and goes; a service or document runs out; the   *)
(* service is done or put off, which keeps its reminders; a document is    *)
(* removed, its renewal is another one.                                    *)
(***************************************************************************)
Course ==
  CASE digest = "payments"  -> {<<"fine", "over">>, <<"over", "fine">>}
    [] digest = "vehicles"  -> {<<"fine", "over">>, <<"over", "fine">>}
    [] digest = "services"  -> {<<"fine", "soon">>, <<"soon", "over">>,
                                <<"soon", "fine">>, <<"over", "fine">>}
    [] digest = "documents" -> {<<"fine", "soon">>, <<"soon", "over">>,
                                <<"soon", "gone">>, <<"over", "gone">>}

StandingChanges(s) ==
  /\ \E step \in Course :
       standing[s] = step[1] /\ standing' = [standing EXCEPT ![s] = step[2]]
  /\ UNCHANGED <<digest, today, reachable, alerts, mailed, scan, again, mishaps>>

NextDay ==
  /\ digest = "vehicles" /\ today < Days /\ today' = today + 1
  /\ UNCHANGED <<digest, standing, reachable, alerts, mailed, scan, again,
                 mishaps>>

BecomesReachable(t) ==
  /\ t \notin reachable /\ reachable' = reachable \cup {t}
  /\ UNCHANGED <<digest, standing, today, alerts, mailed, scan, again, mishaps>>

(***************************************************************************)
DigestsInit ==
  /\ digest \in Digests
  /\ standing = [s \in Subjects |-> "fine"] /\ today = 1
  /\ reachable = {} /\ alerts = {} /\ mailed = [k \in Keys |-> 0]
  /\ scan = [n \in Scans |-> AtRest] /\ again = {} /\ mishaps = 0

ScanGoesOn(n) ==
  \/ ReadFails(n) \/ ReadDue(n) \/ OutsideTrackingHours(n) \/ ReadRecorded(n)
  \/ ResolveOwnerRecipients(n) \/ MailSent(n) \/ DigestNotSent(n)
  \/ RecordAlerts(n)

DigestsNext ==
  \/ \E n \in Scans : \/ ScanAndNotify(n) \/ ScanGoesOn(n)
                      \/ SentNotReported(n) \/ RecordFails(n)
  \/ \E s \in Subjects : StandingChanges(s)
  \/ \E t \in Tenants \ Failing : BecomesReachable(t)
  \/ NextDay \/ ScansStop
=============================================================================
