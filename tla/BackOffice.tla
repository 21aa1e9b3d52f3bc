----------------------------- MODULE BackOffice -----------------------------
(***************************************************************************)
(* Six parts of the backend beside the plans and the jobs: accounts,       *)
(* digests, cached lists, the poll of the GPS devices, the map of the      *)
(* fleet and the bulk import.                                              *)
(* No two of them write the same rows or the same keys; a behaviour        *)
(* follows one, `part`.                                                    *)
(***************************************************************************)
EXTENDS Accounts, Digests, TenantCache, DevicePolling, FleetMap,
        BulkImport

CONSTANTS
  Parts,
  Followed        \* the signup whose owner keeps asking for a code

VARIABLE part

vars == <<part, accounts, digests, lists, gps, fleetMap, imports>>

PartNames == {"accounts", "digests", "lists", "gps", "map", "imports"}
ASSUME PartsAssumption == Parts \subseteq PartNames /\ Followed \in Signups

Init ==
  /\ part \in Parts
  /\ AccountsInit /\ DigestsInit /\ ListsInit /\ GpsInit /\ MapInit
  /\ ImportsInit
  \* what the other parts are about makes no difference
  /\ part = "accounts" \/ scene = CHOOSE s \in Scenes : TRUE
  /\ part = "digests" \/ digest = CHOOSE d \in Digests : TRUE
  /\ part = "lists" \/ resource = CHOOSE r \in Resources : TRUE

Accounts(A) == A /\ UNCHANGED <<part, digests, lists, gps, fleetMap, imports>>
Digest(A) == A /\ UNCHANGED <<part, accounts, lists, gps, fleetMap, imports>>
Lists(A) == A /\ UNCHANGED <<part, accounts, digests, gps, fleetMap, imports>>
Gps(A) == A /\ UNCHANGED <<part, accounts, digests, lists, fleetMap, imports>>
FleetMaps(A) == A /\ UNCHANGED <<part, accounts, digests, lists, gps, imports>>
BulkImports(A) == A /\ UNCHANGED <<part, accounts, digests, lists, gps, fleetMap>>

Next ==
  \/ part = "accounts" /\ Accounts(AccountsNext)
  \/ part = "digests" /\ Digest(DigestsNext)
  \/ part = "lists" /\ Lists(ListsNext)
  \/ part = "gps" /\ Gps(GpsNext)
  \/ part = "map" /\ FleetMaps(MapNext)
  \/ part = "imports" /\ BulkImports(ImportsNext)

Spec == Init /\ [][Next]_vars

(***************************************************************************)
(* Fairness.  A request or a scan under way goes on.  The cron job comes   *)
(* back, day by day.  A mail that is sent again and again gets through, to *)
(* the owner before he asks for another code.  An owner asks for a code as *)
(* often as it takes, and types it.  ReadsInTime asks that a scan that     *)
(* comes back falls within a tenant's tracking hours now and then; the     *)
(* scan of silent devices starts at one hour of the day, so that a window  *)
(* without that hour would starve it.  No endpoint sets the hours today,   *)
(* and without hours every scan is in time.                                *)
(***************************************************************************)
CodeArrives(t) ==
  \E r \in Asks : ask[r].pc = "mail" /\ ask[r].of = t
                  /\ code[t].by = r /\ Mail(r)
TypesTheCode(t) ==
  \E r \in Asks : ConfirmCode(r, t) /\ ask'[r].pc = "consume"
ReadsInTime(t) == \E n \in Scans : scan[n].pc = "read" /\ scan[n].of = t
                                   /\ ReadDue(n)
ReachesOwner(t) == \E n \in Scans : scan[n].pc = "mail" /\ scan[n].of = t
                                    /\ MailSent(n)

Fairness ==
  /\ WF_vars(part = "accounts" /\ Accounts(\E r \in Asks : RequestGoesOn(r)))
  /\ SF_vars(part = "accounts"
             /\ Accounts(\E r \in Asks : ResendCode(r, Followed)))
  /\ SF_vars(part = "accounts" /\ Accounts(CodeArrives(Followed)))
  /\ SF_vars(part = "accounts" /\ Accounts(TypesTheCode(Followed)))
  /\ WF_vars(part = "digests" /\
             Digest(\E n \in Scans : ScanAndNotify(n) \/ ScanGoesOn(n)))
  /\ \A t \in Tenants \ Failing :
       /\ SF_vars(part = "digests" /\ Digest(ReadsInTime(t)))
       /\ SF_vars(part = "digests" /\ Digest(ReachesOwner(t)))

FairSpec == Spec /\ Fairness

(***************************************************************************)
(* The type of the six parts' rows and of what their requests hold.        *)
(***************************************************************************)
TenantRow ==
  {NoTenant, Deleted}
  \cup [status : {"PENDING_VERIFICATION", "ACTIVE"},
        trial : {"none", "on", "over"}, old : BOOLEAN, data : BOOLEAN]
AccountsOK ==
  /\ tenant \in [Signups -> TenantRow]
  /\ code \in [Signups -> [by : Asks \cup {NoOne}, attempts : Nat]]
  /\ inbox \subseteq Signups
  /\ ask \in [Asks -> {Idle, [pc |-> "sendCode"]} \cup
               [pc : {"create", "issue", "mail", "count", "destroy", "consume",
                      "activate"}, of : Signups]]
  /\ cleanup \subseteq Signups /\ \A t \in cleanup : Exists(t)
  \* what goes with a status
  /\ \A t \in Signups : tenant[t].status = "PENDING_VERIFICATION" =>
       tenant[t].trial = "none" /\ ~tenant[t].data
  /\ \A t \in inbox : code[t].by # NoOne

DigestsOK ==
  /\ standing \in [Subjects -> {"fine", "soon", "over", "gone"}]
  /\ today \in 1 .. Days /\ reachable \subseteq Tenants
  /\ alerts \cup again \subseteq Keys
  /\ mailed \in [Keys -> Nat]
  /\ \A n \in Scans : scan[n] # AtRest =>
       /\ scan[n].of \in Tenants /\ scan[n].keys \subseteq Keys
       /\ scan[n].day \in 1 .. Days
       /\ HeldBy(n) # {} <=> scan[n].pc \in {"address", "mail", "record"}

ListsOK ==
  /\ version \in Nat \ {0} /\ entry \in 0 .. version
  /\ unsaid \subseteq 1 .. version
  /\ \A r \in Readers : reader[r].pc = "set" => reader[r].list \in 1 .. version

GpsOK ==
  /\ fixes \in [Bikes -> [Times -> Nat]]
  /\ provider \in {"never", "success", "failure"}
  \* what is stored was reported
  /\ \A b \in Bikes, t \in Times : fixes[b][t] > 0 => t <= position[b]

ImportsOK ==
  /\ known \subseteq {"driver", "vehicle"} /\ plans \in Nat
  /\ active \in BOOLEAN /\ booked \subseteq BillingDays
  /\ openings \subseteq [date : BillingDays, plan : 1 .. plans]
  /\ Opened \cap booked = {}
  /\ plans > 0 => known = {"driver", "vehicle"}

MapOK == now \in Minutes /\ track \subseteq Sources \X (1 .. now)

TypeOK == AccountsOK /\ DigestsOK /\ ListsOK /\ GpsOK /\ MapOK /\ ImportsOK

(***************************************************************************)
(* An owner who keeps asking for a code, and in the end types what he was  *)
(* mailed and nothing else, gets his company verified unless the clean-up  *)
(* takes it: also when two companies were made for his address at once, a  *)
(* code is replaced on its way, or the server stops after taking the code. *)
(***************************************************************************)
TypingErrors == \E r \in Asks : ask[r].pc \in {"count", "destroy"}
VerifiedInTheEnd ==
  <>[]~TypingErrors =>
    (tenant[Followed].status = "PENDING_VERIFICATION" ~>
       tenant[Followed].status \in {"ACTIVE", "deleted"})

(***************************************************************************)
(* What is recorded as alerted was mailed, and nothing is mailed twice     *)
(* unless the scan could not record it or two scans had it in hand.        *)
(***************************************************************************)
MailedOnce ==
  \A k \in Keys :
    /\ k \in alerts => mailed[k] > 0
    /\ mailed[k] > 1 => k \in again

(***************************************************************************)
(* What stays due, for a tenant whose owners can be reached, is recorded   *)
(* as mailed in the end: whatever becomes of single mails and scans, and   *)
(* though the rows of the tenant before it cannot be read.                 *)
(***************************************************************************)
Overdue(s) ==
  /\ part = "digests" /\ Due(s)
  /\ OwnerOf[s] \in reachable \ Failing /\ Key(s, today) \notin alerts
AlertedInTheEnd == \A s \in Subjects : []<>~Overdue(s)

(***************************************************************************)
(* A list served from the cache is the database's, but for a write that    *)
(* has its invalidation still to come, a write that tells the cache        *)
(* nothing, or a read that was overtaken by a write before it was stored.  *)
(***************************************************************************)
StaleOnlyIfUnseen ==
  entry \notin {NoEntry, version} =>
    \/ late
    \/ \E w \in Writers : writer[w] # Waiting /\ writer[w].of > entry
    \/ \E v \in unsaid : v > entry

(***************************************************************************)
(* A position that Traccar keeps reporting is one fix of the vehicle, but  *)
(* for polls that read the same latest fix before either inserted.         *)
(***************************************************************************)
FixesStoredOnce ==
  \A b \in Bikes, t \in Times : fixes[b][t] > 1 => <<b, t>> \in overlapped

(***************************************************************************)
(* The vehicle never goes back on the map by more than the window in which *)
(* its device is preferred: whatever comes late, from either source.       *)
(***************************************************************************)
Shown == ResolveCurrentPosition(track, now)
NeverGoesFarBack ==
  [][~Offline(track, now) /\ ~Offline(track', now') =>
       Shown' >= Shown - DEVICE_PREFERENCE_WINDOW_MINUTES]_vars

(***************************************************************************)
(* However often a fleet is imported, its corrected workbook too, and by   *)
(* two people at once: what a driver owes from before comes in once, for   *)
(* one plan and one day.  (But for a plan that is closed by hand between   *)
(* the reads and the writes of a commit that is to create one.)            *)
(***************************************************************************)
OpeningBalanceOnce == closed \/ \A x, y \in openings : x = y
=============================================================================
