-------------------------- MODULE BackOfficeProofs --------------------------
(***************************************************************************)
(* Theorems about the back office, for any companies, requests, scans,     *)
(* polls and imports in flight together and any bounds: the invariants of  *)
(* its six parts, and that a vehicle never goes far back on the map.       *)
(***************************************************************************)
EXTENDS BackOffice, ProofLemmas

(***************************************************************************)
(* A behaviour that follows one part is a behaviour of every part: the     *)
(* parts share no variable.                                                *)
(***************************************************************************)
LEMMA PartsAlone ==
  Spec => /\ AccountsInit /\ [][AccountsNext]_accounts
          /\ DigestsInit /\ [][DigestsNext]_digests
          /\ ListsInit /\ [][ListsNext]_lists
          /\ GpsInit /\ [][GpsNext]_gps
          /\ MapInit /\ [][MapNext]_fleetMap
          /\ ImportsInit /\ [][ImportsNext]_imports
<1>1. Init => /\ AccountsInit /\ DigestsInit /\ ListsInit
              /\ GpsInit /\ MapInit /\ ImportsInit
  BY DEF Init
<1>2. [Next]_vars => /\ [AccountsNext]_accounts /\ [DigestsNext]_digests
                     /\ [ListsNext]_lists /\ [GpsNext]_gps
                     /\ [MapNext]_fleetMap /\ [ImportsNext]_imports
  BY DEF Next, vars, Accounts, Digest, Lists, Gps, FleetMaps, BulkImports
<1>3. QED
  BY <1>1, <1>2, PTL DEF Spec

-----------------------------------------------------------------------------
(***************************************************************************)
(* Cached lists.  A list in a reader's hands, and the version a writer     *)
(* has still to announce, are versions that were written.                  *)
(***************************************************************************)
ListsInv ==
  /\ ListsOK
  /\ reader \in [Readers -> {Waiting} \cup [pc : {"query"}]
                             \cup [pc : {"set"}, list : 1 .. version]]
  /\ writer \in [Writers -> {Waiting} \cup [pc : {"invalidate"}, of : 1 .. version]]
  /\ StaleOnlyIfUnseen

LEMMA ListsInvKept == ListsInv /\ [ListsNext]_lists => ListsInv'
<1> SUFFICES ASSUME ListsInv, [ListsNext]_lists PROVE ListsInv'
  OBVIOUS
<1> USE DEF ListsInv, ListsOK, StaleOnlyIfUnseen, Waiting, NoEntry
<1>1. ASSUME NEW r \in Readers, GetMiss(r) PROVE ListsInv'
  BY <1>1 DEF GetMiss
<1>2. ASSUME NEW r \in Readers, Query(r) PROVE ListsInv'
  <2>1. version \in 1 .. version
    OBVIOUS
  <2>2. QED
    BY <1>2, <2>1 DEF Query
<1>3. ASSUME NEW r \in Readers, SetEntry(r) PROVE ListsInv'
  <2>1. reader[r].list \in 1 .. version
    BY <1>3 DEF SetEntry
  <2>2. /\ reader' \in [Readers -> {Waiting} \cup [pc : {"query"}]
                             \cup [pc : {"set"}, list : 1 .. version]]
        /\ UNCHANGED <<version, writer, unsaid>>
    BY <1>3 DEF SetEntry
  <2>3. entry' = reader[r].list /\ (entry' # version => late')
    BY <1>3 DEF SetEntry
  <2>4. \A g \in Readers : reader'[g].pc = "set" => reader'[g].list \in 1 .. version
    BY <2>2
  <2>5. QED
    BY <2>1, <2>2, <2>3, <2>4
<1>4. ASSUME NEW w \in Writers, Write(w) PROVE ListsInv'
  BY <1>4 DEF Write
<1>5. ASSUME NEW w \in Writers, Invalidate(w) PROVE ListsInv'
  BY <1>5 DEF Invalidate
<1>6. CASE WriteUnannounced
  BY <1>6 DEF WriteUnannounced
<1>7. CASE Expire
  BY <1>7 DEF Expire
<1>8. CASE RequestsLost
  BY <1>8 DEF RequestsLost
<1>9. CASE UNCHANGED lists
  BY <1>9 DEF lists
<1>10. QED
  BY <1>1, <1>2, <1>3, <1>4, <1>5, <1>6, <1>7, <1>8, <1>9 DEF ListsNext

LEMMA ListsAlwaysInv == Spec => []ListsInv
<1>1. ListsInit => ListsInv
  BY DEF ListsInit, ListsInv, ListsOK, StaleOnlyIfUnseen, Waiting, NoEntry
<1>2. QED
  BY <1>1, PartsAlone, ListsInvKept, PTL

(***************************************************************************)
(* However readers, writers and stops of the server interleave: a list     *)
(* served from the cache is the database's, or somebody has still to say   *)
(* that it is not, or never will.                                          *)
(***************************************************************************)
THEOREM CachedListsAreFresh == Spec => []StaleOnlyIfUnseen
<1>1. ListsInv => StaleOnlyIfUnseen
  BY DEF ListsInv
<1>2. QED
  BY <1>1, ListsAlwaysInv, PTL

-----------------------------------------------------------------------------
(***************************************************************************)
(* The bulk import.  Until a plan is closed under a commit that creates    *)
(* one, the index refuses every such commit as soon as there is a plan; so *)
(* that an opening balance comes with the first plan of the pair.          *)
(***************************************************************************)
Creator(i) == import[i].pc = "write" /\ import[i].plan

Imported ==
  {NotImporting} \cup [pc : {"refuse"}]
  \cup [pc : {"write"}, date : BillingDays, plan : BOOLEAN,
        creates : SUBSET {"driver", "vehicle"}, opening : BOOLEAN]

OpenedOnce ==
  /\ \A x, y \in openings : x = y
  /\ plans > 0 /\ (\E i \in Imports : Creator(i)) => active

ImportsInv ==
  /\ ImportsOK
  /\ import \in [Imports -> Imported] /\ closed \in BOOLEAN
  /\ \A i \in Imports :
       import[i].pc = "write" /\ import[i].opening => import[i].plan
  /\ ~closed => OpenedOnce

LEMMA ImportsInvKept == ImportsInv /\ [ImportsNext]_imports => ImportsInv'
<1> SUFFICES ASSUME ImportsInv, [ImportsNext]_imports PROVE ImportsInv'
  OBVIOUS
<1> USE DEF NotImporting
<1>1. ASSUME NEW i \in Imports, NEW book \in Workbooks, BeginCommit(i, book)
      PROVE  ImportsInv'
  <2> DEFINE w == [pc |-> "write", date |-> book.date,
                   creates |-> book.sheets \ known, plan |-> plans = 0,
                   opening |-> OpeningRow(book)]
  <2>1. /\ import \in [Imports -> Imported] /\ plans \in Nat
        /\ UNCHANGED <<known, plans, active, openings, booked, closed>>
        /\ \/ import' = [import EXCEPT ![i] = w]
           \/ import' = [import EXCEPT ![i] = [pc |-> "refuse"]]
    BY <1>1 DEF BeginCommit, ImportsInv, ImportsOK
  <2>2. /\ book.date \in BillingDays /\ book.balance \in BOOLEAN
        /\ book.sheets \subseteq {"driver", "vehicle"}
    BY SheetsAssumption DEF Workbooks
  <2>3. w \in Imported /\ (w.opening => w.plan) /\ (w.plan => plans = 0)
    BY <2>1, <2>2 DEF Imported, OpeningRow
  <2>4. [pc |-> "refuse"] \in Imported
    BY DEF Imported
  <2> HIDE DEF w
  <2>5. import' \in [Imports -> Imported]
    BY <2>1, <2>3, <2>4
  <2>6. /\ \A j \in Imports : j # i => import'[j] = import[j]
        /\ import'[i] = w \/ import'[i] = [pc |-> "refuse"]
    BY <2>1
  <2>7. ASSUME ~closed PROVE OpenedOnce'
    <3>1. \A j \in Imports : Creator(j)' => plans = 0 \/ Creator(j)
      BY <2>3, <2>6 DEF Creator
    <3>2. QED
      BY <2>1, <2>7, <3>1 DEF ImportsInv, OpenedOnce
  <2>8. \A j \in Imports :
          (import'[j].pc = "write" /\ import'[j].opening) => import'[j].plan
    BY <2>3, <2>6 DEF ImportsInv
  <2>9. QED
    BY <2>1, <2>5, <2>7, <2>8 DEF ImportsInv, ImportsOK, Opened
<1>2. ASSUME NEW i \in Imports, Commit(i) PROVE ImportsInv'
  <2> DEFINE w == import[i]
             entered == [date |-> w.date, plan |-> plans']
  <2>1. /\ w \in [pc : {"write"}, date : BillingDays, plan : BOOLEAN,
                  creates : SUBSET {"driver", "vehicle"}, opening : BOOLEAN]
        /\ import \in [Imports -> Imported] /\ ImportsOK
    BY <1>2 DEF Commit, ImportsInv, Imported
  <2>2. /\ w.pc = "write" /\ known' = {"driver", "vehicle"}
        /\ w.plan => ~active
        /\ w.opening => w.date \notin Opened \cup booked
        /\ plans' = (IF w.plan THEN plans + 1 ELSE plans)
        /\ active' = (active \/ w.plan)
        /\ openings' = openings \cup (IF w.opening THEN {entered} ELSE {})
        /\ UNCHANGED <<booked, closed>>
    BY <1>2 DEF Commit, UniqueRows
  <2>3. /\ import' \in [Imports -> Imported]
        /\ \A j \in Imports : import'[j].pc = "write" => import'[j] = import[j]
    BY <1>2, <2>1 DEF Commit, Imported
  <2>4. (w.opening => w.plan) /\ plans \in Nat /\ w.date \in BillingDays
    BY <2>1, <2>2 DEF ImportsInv, ImportsOK
  <2>5. ImportsOK'
    <3>1. /\ plans' \in Nat /\ plans' >= plans
          /\ w.opening => entered \in [date : BillingDays, plan : 1 .. plans']
      BY <2>2, <2>4
    <3>2. openings' \subseteq [date : BillingDays, plan : 1 .. plans']
      <4>1. \A n \in 1 .. plans : n \in 1 .. plans'
        BY <2>4, <3>1
      <4>2. openings \subseteq [date : BillingDays, plan : 1 .. plans']
        BY <2>1, <4>1 DEF ImportsOK
      <4>3. QED
        BY <2>2, <3>1, <4>2
    <3>3. Opened' \cap booked' = {}
      BY <2>1, <2>2 DEF ImportsOK, Opened
    <3>4. active' \in BOOLEAN /\ booked' \subseteq BillingDays
      BY <2>1, <2>2 DEF ImportsOK
    <3>5. QED
      BY <2>2, <3>1, <3>2, <3>3, <3>4 DEF ImportsOK
  <2>6. ASSUME ~closed PROVE OpenedOnce'
    <3>1. OpenedOnce
      BY <2>6 DEF ImportsInv
    <3>2. w.plan => plans = 0 /\ openings = {}
      <4>1. w.plan => ~(plans > 0)
        BY <2>2, <3>1 DEF OpenedOnce, Creator
      <4>2. plans = 0 => openings = {}
        BY <2>1 DEF ImportsOK
      <4>3. QED
        BY <2>4, <4>1, <4>2
    <3>3. \A x, y \in openings' : x = y
      BY <2>2, <2>4, <3>1, <3>2 DEF OpenedOnce
    <3>4. plans' > 0 /\ (\E j \in Imports : Creator(j)') => active'
      BY <2>2, <2>3, <2>4, <3>1 DEF OpenedOnce, Creator
    <3>5. QED
      BY <3>3, <3>4 DEF OpenedOnce
  <2>7. QED
    BY <2>2, <2>3, <2>5, <2>6 DEF ImportsInv
<1>3. ASSUME NEW i \in Imports, RollBack(i) PROVE ImportsInv'
  <2>1. /\ import' \in [Imports -> Imported]
        /\ \A j \in Imports : import'[j].pc = "write" => import'[j] = import[j]
        /\ UNCHANGED <<known, plans, active, openings, booked, closed>>
    BY <1>3 DEF RollBack, ImportsInv, Imported
  <2>2. ~closed => OpenedOnce'
    BY <2>1 DEF ImportsInv, OpenedOnce, Creator
  <2>3. QED
    BY <2>1, <2>2 DEF ImportsInv, ImportsOK, Opened
<1>4. CASE EnterByHand
  <2>1. UNCHANGED <<openings, import, closed>> /\ ImportsOK /\ plans \in Nat
    BY <1>4 DEF EnterByHand, ImportsInv, ImportsOK
  <2>2. ASSUME UNCHANGED <<plans, active>> PROVE ImportsInv'
    <3>1. known' = known \/ \E x \in {"driver", "vehicle"} \ known :
                              known' = known \cup {x}
      BY <1>4, <2>2 DEF EnterByHand
    <3>2. booked' = booked \/ \E d \in BillingDays \ (Opened \cup booked) :
                                booked' = booked \cup {d}
      BY <1>4, <2>2 DEF EnterByHand
    <3>3. known' \subseteq {"driver", "vehicle"}
          /\ (plans > 0 => known' = {"driver", "vehicle"})
      BY <2>1, <3>1 DEF ImportsOK
    <3>4. booked' \subseteq BillingDays /\ Opened' \cap booked' = {}
      BY <2>1, <3>2 DEF ImportsOK, Opened
    <3>5. QED
      BY <2>1, <2>2, <3>3, <3>4 DEF ImportsInv, ImportsOK, OpenedOnce, Creator
  <2>3. ASSUME known = {"driver", "vehicle"}, plans' = plans + 1,
               active' = TRUE, UNCHANGED <<known, booked>>
        PROVE  ImportsInv'
    <3>1. \A n \in 1 .. plans : n \in 1 .. plans'
      BY <2>1, <2>3
    <3>2. openings' \subseteq [date : BillingDays, plan : 1 .. plans']
      BY <2>1, <3>1 DEF ImportsOK
    <3>3. ImportsOK'
      BY <2>1, <2>3, <3>2 DEF ImportsOK, Opened
    <3>4. QED
      BY <2>1, <2>3, <3>3 DEF ImportsInv, OpenedOnce, Creator
  <2>4. QED
    BY <1>4, <2>2, <2>3 DEF EnterByHand
<1>5. CASE ClosePlan
  <2>1. /\ UNCHANGED <<known, plans, openings, booked, import>>
        /\ active' = FALSE /\ closed' \in BOOLEAN
        /\ ~closed' => ~closed /\ \A i \in Imports : ~Creator(i)
    BY <1>5 DEF ClosePlan, ImportsInv, Creator
  <2>2. ~closed' => OpenedOnce'
    BY <2>1 DEF ImportsInv, OpenedOnce, Creator
  <2>3. QED
    BY <2>1, <2>2 DEF ImportsInv, ImportsOK, Opened
<1>6. CASE UNCHANGED imports
  BY <1>6 DEF imports, ImportsInv, ImportsOK, Opened, OpenedOnce, Creator
<1>7. QED
  BY <1>1, <1>2, <1>3, <1>4, <1>5, <1>6 DEF ImportsNext

LEMMA ImportsAlwaysInv == Spec => []ImportsInv
<1>1. ImportsInit => ImportsInv
  <2> USE DEF ImportsInit, NotImporting
  <2>1. ImportsInit => ImportsOK
    <3>1. ASSUME ImportsInit PROVE ImportsOK
      <4>1. /\ known = {} /\ plans = 0 /\ active = FALSE
            /\ openings = {} /\ booked = {}
        BY <3>1
      <4>2. \A S : openings \subseteq S /\ booked \subseteq S /\ known \subseteq S
        BY <4>1
      <4>3. Opened \cap booked = {}
        BY <4>1
      <4>4. active \in BOOLEAN
        BY <4>1, Zenon
      <4>5. plans \in Nat /\ ~(plans > 0)
        BY <4>1
      <4>6. QED
        BY <4>2, <4>3, <4>4, <4>5, Zenon DEF ImportsOK
    <3>2. QED
      BY <3>1
  <2>2. ImportsInit => import \in [Imports -> Imported]
    BY DEF Imported
  <2>3. ImportsInit => \A i \in Imports : import[i].pc # "write"
    OBVIOUS
  <2>4. ImportsInit => closed \in BOOLEAN
    OBVIOUS
  <2>5. ImportsInit => OpenedOnce
    BY DEF OpenedOnce
  <2>6. QED
    BY <2>1, <2>2, <2>3, <2>4, <2>5, Zenon DEF ImportsInv
<1>2. QED
  BY <1>1, PartsAlone, ImportsInvKept, PTL

(***************************************************************************)
(* However many workbooks of a fleet are committed, in whatever            *)
(* interleaving, and whatever is entered by hand beside them: there is one *)
(* opening balance, of one date and of one plan, unless a plan was closed  *)
(* while a commit that had not seen it was about to create another.        *)
(***************************************************************************)
THEOREM OpeningBalancesOnce == Spec => []OpeningBalanceOnce
<1>1. ImportsInv => OpeningBalanceOnce
  BY DEF ImportsInv, OpenedOnce, OpeningBalanceOnce
<1>2. QED
  BY <1>1, ImportsAlwaysInv, PTL

-----------------------------------------------------------------------------
(***************************************************************************)
(* The map.  What the fleet map shows of a vehicle with fixes is a fix, at *)
(* most the window before the newest.                                      *)
(***************************************************************************)
LEMMA NewestIs ==
  ASSUME NEW fs, NEW t \in Nat, fs \subseteq Sources \X (1 .. t), fs # {}
  PROVE  /\ Newest(fs) \in MinutesOf(fs) /\ Newest(fs) \in 1 .. t
         /\ \A k \in MinutesOf(fs) : k <= Newest(fs)
<1>1. MinutesOf(fs) \subseteq 1 .. t /\ MinutesOf(fs) # {}
  BY DEF MinutesOf
<1>2. \E m \in MinutesOf(fs) : \A k \in MinutesOf(fs) : k <= m
  BY <1>1, Greatest
<1>3. QED
  BY <1>1, <1>2 DEF Newest

LEMMA ShownIs ==
  ASSUME NEW fs, NEW t \in Nat, NEW u, fs \subseteq Sources \X (1 .. t), fs # {}
  PROVE  /\ ResolveCurrentPosition(fs, u) \in 1 .. t
         /\ ResolveCurrentPosition(fs, u) <= Newest(fs)
         /\ ResolveCurrentPosition(fs, u)
              >= Newest(fs) - DEVICE_PREFERENCE_WINDOW_MINUTES
<1> DEFINE P == Preferred(fs, u)
<1> USE MinutesAssumption
<1>1. /\ Newest(fs) \in 1 .. t /\ \A f \in fs : f[2] <= Newest(fs)
  BY NewestIs DEF MinutesOf
<1>2. CASE P = {}
  BY <1>1, <1>2 DEF ResolveCurrentPosition
<1>3. CASE P # {}
  <2>1. P \subseteq fs
    BY DEF Preferred
  <2>2. Newest(P) \in MinutesOf(P) /\ Newest(P) \in 1 .. t
    <3> HIDE DEF P
    <3>1. QED
      BY <1>3, <2>1, NewestIs
  <2>3. PICK f \in P : f[2] = Newest(P)
    BY <2>2 DEF MinutesOf
  <2>4. f \in fs /\ f[2] >= Newest(fs) - DEVICE_PREFERENCE_WINDOW_MINUTES
    BY <2>3 DEF Preferred
  <2>5. ResolveCurrentPosition(fs, u) = Newest(P)
    BY <1>3 DEF ResolveCurrentPosition
  <2>6. QED
    BY <1>1, <2>2, <2>3, <2>4, <2>5
<1>4. QED
  BY <1>2, <1>3

LEMMA MapOKKept == MapOK /\ [MapNext]_fleetMap => MapOK' /\ track \subseteq track'
<1> SUFFICES ASSUME MapOK, [MapNext]_fleetMap
             PROVE  MapOK' /\ track \subseteq track'
  OBVIOUS
<1> USE MinutesAssumption DEF MapOK, Minutes, Sources
<1>1. ASSUME NEW batch \in SUBSET (1 .. now), RecordPhoneFixes(batch)
      PROVE  MapOK' /\ track \subseteq track'
  BY <1>1 DEF RecordPhoneFixes
<1>2. ASSUME NEW m \in Minutes, StoreDeviceFix(m)
      PROVE  MapOK' /\ track \subseteq track'
  BY <1>2 DEF StoreDeviceFix
<1>3. CASE MinutePasses
  BY <1>3 DEF MinutePasses
<1>4. CASE AssignmentChanges \/ UNCHANGED fleetMap
  BY <1>4 DEF AssignmentChanges, fleetMap
<1>5. QED
  BY <1>1, <1>2, <1>3, <1>4 DEF MapNext

LEMMA MapAlwaysOK == Spec => []MapOK
<1>1. MapInit => MapOK
  BY MinutesAssumption DEF MapInit, MapOK, Minutes
<1>2. QED
  BY <1>1, PartsAlone, MapOKKept, PTL

(***************************************************************************)
(* Whatever comes late, from the phone or the device, and whatever the     *)
(* limits are: the vehicle does not go back on the map by more than the    *)
(* window in which its device is preferred.                                *)
(***************************************************************************)
THEOREM NeverFarBack == Spec => NeverGoesFarBack
<1> DEFINE W == DEVICE_PREFERENCE_WINDOW_MINUTES
           Step == ~Offline(track, now) /\ ~Offline(track', now') =>
                     Shown' >= Shown - W
<1>1. MapOK /\ [MapNext]_fleetMap => Step
  <2> SUFFICES ASSUME MapOK, [MapNext]_fleetMap, track # {} PROVE Shown' >= Shown - W
    BY DEF Offline
  <2> USE MinutesAssumption
  <2>1. MapOK' /\ track \subseteq track' /\ track' # {}
    BY MapOKKept
  <2>2. now \in Nat /\ now' \in Nat
    BY <2>1 DEF MapOK, Minutes
  <2>3. Shown \in Nat /\ Shown <= Newest(track)
    BY <2>2, ShownIs DEF MapOK, Shown
  <2>4. Shown' \in Nat /\ Shown' >= Newest(track') - W
    BY <2>1, <2>2, ShownIs DEF MapOK, Shown
  <2>5. /\ Newest(track) \in Nat /\ Newest(track') \in Nat
        /\ Newest(track') >= Newest(track)
    BY <2>1, <2>2, NewestIs DEF MapOK, MinutesOf
  <2>6. QED
    BY <2>3, <2>4, <2>5
<1>2. Spec => [][MapOK /\ [MapNext]_fleetMap]_vars
  BY MapAlwaysOK, PartsAlone, PTL
<1>3. [MapOK /\ [MapNext]_fleetMap]_vars => [Step]_vars
  BY <1>1
<1>4. QED
  BY <1>2, <1>3, PTL DEF NeverGoesFarBack

-----------------------------------------------------------------------------
(***************************************************************************)
(* The poll of the devices.  What a poll holds was reported, what it is    *)
(* about to insert is not stored, and no other poll is about to insert it, *)
(* but for fixes that two polls had in hand at once.                       *)
(***************************************************************************)
Fixes == Bikes \X Times
Polled ==
  {NotPolling} \cup [pc : {"fetch", "recordFailure", "success"}]
  \cup [pc : {"match"}, at : [Bikes -> 0 .. MaxTime]]
  \cup [pc : {"latest"}, matched : SUBSET Fixes]
  \cup [pc : {"insert"}, rows : SUBSET Fixes]

WasReported(f) == f[2] <= position[f[1]]
HoldsReported(p) ==
  /\ poll[p].pc = "match" => \A b \in Bikes : poll[p].at[b] <= position[b]
  /\ poll[p].pc = "latest" => \A f \in poll[p].matched : WasReported(f)
  /\ poll[p].pc = "insert" => \A f \in poll[p].rows : WasReported(f)

GpsTypes ==
  /\ GpsOK
  /\ position \in [Bikes -> 0 .. MaxTime] /\ paired \subseteq Bikes
  /\ poll \in [Polls -> Polled]

InsertsAreNew ==
  \A p \in Polls : \A f \in ToInsert(p) :
    fixes[f[1]][f[2]] = 0 \/ f \in overlapped
InsertsAreApart ==
  \A p, q \in Polls : p # q => ToInsert(p) \cap ToInsert(q) \subseteq overlapped

GpsInv ==
  /\ GpsTypes /\ (\A p \in Polls : HoldsReported(p))
  /\ InsertsAreNew /\ InsertsAreApart /\ FixesStoredOnce

(* A fix newer than the latest is not stored.                              *)
LEMMA NewerIsNew ==
  ASSUME NEW b \in Bikes, NEW t \in Times, Newer(<<b, t>>), GpsOK
  PROVE  fixes[b][t] = 0
<1> DEFINE S == Stored(b) \cup {0}
<1>1. S \subseteq Nat /\ S # {} /\ \A u \in S : u <= MaxTime
  BY MaxTimeAssumption DEF Stored, Times
<1>2. \E n \in S : \A m \in S : m <= n
  <2> HIDE DEF S
  <2>1. QED
    BY <1>1, Greatest, MaxTimeAssumption
<1>3. Latest(b) \in S /\ \A u \in Stored(b) : u <= Latest(b)
  BY <1>2, <1>1 DEF Latest
<1>4. t \notin Stored(b)
  BY <1>1, <1>3 DEF Newer, Times
<1>5. QED
  BY <1>4 DEF Stored, GpsOK

(* What changes nothing that is stored or about to be.                     *)
LEMMA NothingToInsert ==
  ASSUME GpsInv, GpsTypes', \A p \in Polls : HoldsReported(p)',
         UNCHANGED <<fixes, overlapped>>,
         \A p \in Polls : ToInsert(p)' \subseteq ToInsert(p)
  PROVE  GpsInv'
BY DEF GpsInv, InsertsAreNew, InsertsAreApart, FixesStoredOnce

LEMMA GpsInvKept == GpsInv /\ [GpsNext]_gps => GpsInv'
<1> SUFFICES ASSUME GpsInv, [GpsNext]_gps PROVE GpsInv'
  OBVIOUS
<1>0. GpsTypes /\ \A p \in Polls : HoldsReported(p)
  BY DEF GpsInv
<1> USE MaxTimeAssumption DEF NotPolling
<1>1. ASSUME NEW p \in Polls, ScanAll(p) \/ PollFails(p) \/ PollBreaksOff(p)
      PROVE  GpsInv'
  <2>1. GpsTypes'
    BY <1>0, <1>1 DEF ScanAll, PollFails, PollBreaksOff, Polling, GpsTypes,
                      GpsOK, Polled
  <2>2. \A q \in Polls : HoldsReported(q)' /\ ToInsert(q)' \subseteq ToInsert(q)
    BY <1>0, <1>1 DEF ScanAll, PollFails, PollBreaksOff, Polling, GpsTypes,
                      HoldsReported, WasReported, ToInsert
  <2>3. QED
    BY <1>1, <2>1, <2>2, NothingToInsert DEF ScanAll, PollFails, PollBreaksOff
<1>2. ASSUME NEW p \in Polls, GetPositions(p) PROVE GpsInv'
  <2>1. GpsTypes'
    BY <1>0, <1>2 DEF GetPositions, Polling, GpsTypes, GpsOK, Polled
  <2>2. \A q \in Polls : HoldsReported(q)' /\ ToInsert(q)' \subseteq ToInsert(q)
    BY <1>0, <1>2 DEF GetPositions, Polling, GpsTypes, HoldsReported,
                      WasReported, ToInsert
  <2>3. QED
    BY <1>2, <2>1, <2>2, NothingToInsert DEF GetPositions
<1>3. ASSUME NEW p \in Polls, RecordFailure(p) \/ RecordSuccess(p)
      PROVE  GpsInv'
  <2>1. GpsTypes'
    BY <1>0, <1>3 DEF RecordFailure, RecordSuccess, Polling, GpsTypes, GpsOK,
                      Polled
  <2>2. \A q \in Polls : HoldsReported(q)' /\ ToInsert(q)' \subseteq ToInsert(q)
    BY <1>0, <1>3 DEF RecordFailure, RecordSuccess, Polling, GpsTypes,
                      HoldsReported, WasReported, ToInsert
  <2>3. QED
    BY <1>3, <2>1, <2>2, NothingToInsert DEF RecordFailure, RecordSuccess
<1>4. ASSUME NEW p \in Polls, MatchVehicles(p) PROVE GpsInv'
  <2> DEFINE at == poll[p].at
             matched == {b \in paired : at[b] # 0}
             fs == {<<b, at[b]>> : b \in matched}
  <2>1. /\ at \in [Bikes -> 0 .. MaxTime] /\ paired \subseteq Bikes
        /\ \A b \in Bikes : at[b] <= position[b]
    BY <1>0, <1>4 DEF MatchVehicles, GpsTypes, Polled, HoldsReported
  <2>2. fs \subseteq Fixes /\ \A f \in fs : WasReported(f)
    BY <2>1 DEF Fixes, Times, WasReported
  <2>3. /\ UNCHANGED <<position, paired, fixes, provider, overlapped>>
        /\ \/ poll' = [poll EXCEPT ![p] = [pc |-> "success"]]
           \/ poll' = [poll EXCEPT ![p] = [pc |-> "latest", matched |-> fs]]
    BY <1>4 DEF MatchVehicles, Polling
  <2> HIDE DEF fs
  <2>4. GpsTypes'
    BY <1>0, <2>2, <2>3 DEF GpsTypes, GpsOK, Polled
  <2>5. \A q \in Polls : HoldsReported(q)' /\ ToInsert(q)' \subseteq ToInsert(q)
    BY <1>0, <2>2, <2>3 DEF GpsTypes, HoldsReported, WasReported, ToInsert
  <2>6. QED
    BY <2>3, <2>4, <2>5, NothingToInsert
<1>5. ASSUME NEW p \in Polls, ReadLatest(p) PROVE GpsInv'
  <2> DEFINE rows == {f \in poll[p].matched : Newer(f)}
  <2>1. /\ rows \subseteq Fixes /\ \A f \in rows : WasReported(f)
        /\ ToInsert(p) = {}
    BY <1>0, <1>5 DEF ReadLatest, GpsTypes, Polled, HoldsReported, ToInsert
  <2>2. \A f \in rows : fixes[f[1]][f[2]] = 0
    BY <1>0, <2>1, NewerIsNew DEF GpsTypes, Fixes
  <2>3. /\ UNCHANGED <<position, paired, fixes, provider>>
        /\ overlapped' = overlapped \cup
             (rows \cap UNION {ToInsert(q) : q \in Polls \ {p}})
        /\ \/ poll' = [poll EXCEPT ![p] = [pc |-> "success"]]
           \/ poll' = [poll EXCEPT ![p] = [pc |-> "insert", rows |-> rows]]
    BY <1>5 DEF ReadLatest, Polling
  <2> HIDE DEF rows
  <2>4. GpsTypes' /\ \A q \in Polls : HoldsReported(q)'
    <3>1. GpsTypes'
      BY <1>0, <2>1, <2>3 DEF GpsTypes, GpsOK, Polled
    <3>2. \A q \in Polls : HoldsReported(q)'
      BY <1>0, <2>1, <2>3 DEF GpsTypes, HoldsReported, WasReported
    <3>3. QED
      BY <3>1, <3>2
  <2>5. /\ \A q \in Polls : q # p => ToInsert(q)' = ToInsert(q)
        /\ ToInsert(p)' \subseteq rows
    BY <1>0, <2>3 DEF GpsTypes, ToInsert
  <2>6. InsertsAreNew' /\ FixesStoredOnce'
    BY <2>2, <2>3, <2>5 DEF GpsInv, InsertsAreNew, FixesStoredOnce
  <2>7. InsertsAreApart'
    BY <2>3, <2>5 DEF GpsInv, InsertsAreApart
  <2>8. QED
    BY <2>4, <2>6, <2>7 DEF GpsInv
<1>6. ASSUME NEW p \in Polls, InsertFixes(p) PROVE GpsInv'
  <2> DEFINE rows == poll[p].rows
  <2>1. /\ rows \subseteq Fixes /\ \A f \in rows : WasReported(f)
        /\ ToInsert(p) = rows
    BY <1>0, <1>6 DEF InsertFixes, GpsTypes, Polled, HoldsReported, ToInsert
  <2>2. /\ UNCHANGED <<position, paired, provider, overlapped>>
        /\ poll' = [poll EXCEPT ![p] = [pc |-> "success"]]
        /\ fixes' = [b \in Bikes |-> [t \in Times |->
                       fixes[b][t] + (IF <<b, t>> \in rows THEN 1 ELSE 0)]]
    BY <1>6 DEF InsertFixes, Polling
  <2> HIDE DEF rows
  <2>3. \A b \in Bikes, t \in Times :
          /\ fixes[b][t] \in Nat
          /\ fixes'[b][t] = fixes[b][t] + (IF <<b, t>> \in rows THEN 1 ELSE 0)
    BY <1>0, <2>2 DEF GpsTypes, GpsOK
  <2>4. fixes' \in [Bikes -> [Times -> Nat]]
    BY <2>2, <2>3
  <2>5. ASSUME NEW b \in Bikes, NEW t \in Times, fixes'[b][t] > 0
        PROVE  t <= position[b]
    <3>1. CASE <<b, t>> \in rows
      <4>1. WasReported(<<b, t>>)
        BY <2>1, <3>1
      <4>2. QED
        BY <4>1 DEF WasReported
    <3>2. CASE <<b, t>> \notin rows
      <4>1. fixes[b][t] > 0
        BY <2>3, <2>5, <3>2
      <4>2. QED
        BY <1>0, <4>1 DEF GpsTypes, GpsOK
    <3>3. QED
      BY <3>1, <3>2
  <2>6. GpsTypes'
    BY <1>0, <2>2, <2>4, <2>5 DEF GpsTypes, GpsOK, Polled
  <2>7. /\ \A q \in Polls : HoldsReported(q)'
        /\ \A q \in Polls : q # p => ToInsert(q)' = ToInsert(q)
        /\ ToInsert(p)' = {}
    BY <1>0, <2>2 DEF GpsTypes, HoldsReported, WasReported, ToInsert
  <2>8. InsertsAreNew'
    <3>1. \A q \in Polls : \A f \in ToInsert(q) : f \in Fixes
      BY <1>0 DEF GpsTypes, Polled, ToInsert
    <3>2. ASSUME NEW q \in Polls, q # p, NEW f \in ToInsert(q), f \notin overlapped
          PROVE  fixes'[f[1]][f[2]] = 0
      <4>1. f \in Fixes /\ fixes[f[1]][f[2]] = 0 /\ f \notin rows
        BY <2>1, <3>1, <3>2 DEF GpsInv, InsertsAreNew, InsertsAreApart
      <4>2. QED
        BY <2>3, <4>1 DEF Fixes
    <3>3. QED
      BY <2>2, <2>7, <3>2 DEF InsertsAreNew
  <2>9. InsertsAreApart'
    BY <2>2, <2>7 DEF GpsInv, InsertsAreApart
  <2>10. FixesStoredOnce'
    BY <2>1, <2>2, <2>3 DEF GpsInv, FixesStoredOnce, InsertsAreNew
  <2>11. QED
    BY <2>6, <2>7, <2>8, <2>9, <2>10 DEF GpsInv
<1>7. ASSUME NEW b \in Bikes, Report(b) PROVE GpsInv'
  <2>1. /\ position' \in [Bikes -> 0 .. MaxTime]
        /\ \A x \in Bikes : position[x] <= position'[x]
        /\ UNCHANGED <<paired, fixes, provider, poll, overlapped>>
    BY <1>0, <1>7 DEF Report, GpsTypes
  <2>2. GpsTypes'
    BY <1>0, <2>1 DEF GpsTypes, GpsOK, Times
  <2>3. \A q \in Polls : HoldsReported(q)'
    BY <1>0, <2>1 DEF GpsTypes, Polled, Fixes, Times, HoldsReported, WasReported
  <2>4. QED
    BY <2>1, <2>2, <2>3, NothingToInsert DEF ToInsert
<1>8. ASSUME NEW b \in Bikes, PairDevice(b) PROVE GpsInv'
  <2>1. GpsTypes' /\ \A q \in Polls : HoldsReported(q)'
    BY <1>0, <1>8 DEF PairDevice, GpsTypes, GpsOK, HoldsReported, WasReported
  <2>2. QED
    BY <1>8, <2>1, NothingToInsert DEF PairDevice, ToInsert
<1>9. CASE UNCHANGED gps
  <2>1. GpsTypes' /\ \A q \in Polls : HoldsReported(q)'
    BY <1>0, <1>9 DEF gps, GpsTypes, GpsOK, HoldsReported, WasReported
  <2>2. QED
    BY <1>9, <2>1, NothingToInsert DEF gps, ToInsert
<1>10. QED
  BY <1>1, <1>2, <1>3, <1>4, <1>5, <1>6, <1>7, <1>8, <1>9 DEF GpsNext

LEMMA GpsAlwaysInv == Spec => []GpsInv
<1>1. GpsInit => GpsInv
  <2> SUFFICES ASSUME GpsInit PROVE GpsInv
    OBVIOUS
  <2> USE MaxTimeAssumption DEF GpsInit, NotPolling
  <2>1. GpsTypes
    BY DEF GpsTypes, GpsOK, Polled, Times
  <2>2. \A p \in Polls : HoldsReported(p) /\ ToInsert(p) = {}
    BY DEF HoldsReported, ToInsert
  <2>3. FixesStoredOnce
    BY DEF FixesStoredOnce
  <2>4. QED
    BY <2>1, <2>2, <2>3 DEF GpsInv, InsertsAreNew, InsertsAreApart
<1>2. QED
  BY <1>1, PartsAlone, GpsInvKept, PTL

(***************************************************************************)
(* For any number of devices and polls that overlap or break off: a        *)
(* position is stored once, unless two polls read the latest fix before    *)
(* either stored it.                                                       *)
(***************************************************************************)
THEOREM PositionsStoredOnce == Spec => []FixesStoredOnce
<1>1. GpsInv => FixesStoredOnce
  BY DEF GpsInv
<1>2. QED
  BY <1>1, GpsAlwaysInv, PTL

-----------------------------------------------------------------------------
(***************************************************************************)
(* The digests.  What a scan is about to record was mailed; what it is     *)
(* about to mail was not, or counts as one that may come again; what was   *)
(* mailed is recorded, about to be, or may come again; and no two scans    *)
(* have a key in hand that may not.                                        *)
(***************************************************************************)
Scanning ==
  [pc : {"read", "recorded", "address", "mail", "record"}, of : Tenants,
   left : Seq(Tenants), keys : SUBSET Keys, day : 1 .. Days]

DigestTypes ==
  /\ digest \in DigestKinds
  /\ standing \in [Subjects -> {"fine", "soon", "over", "gone"}]
  /\ today \in 1 .. Days /\ reachable \subseteq Tenants
  /\ alerts \subseteq Keys /\ again \subseteq Keys /\ mailed \in [Keys -> Nat]
  /\ scan \in [Scans -> {AtRest} \cup Scanning]
  /\ \A n \in Scans : scan[n].pc \in {"address", "mail", "record"} =>
       scan[n].keys # {}

ToMail(n) == IF scan[n].pc \in {"address", "mail"} THEN scan[n].keys ELSE {}
ToRecord(n) == IF scan[n].pc = "record" THEN scan[n].keys ELSE {}

RecordsMailed == \A n \in Scans : \A k \in ToRecord(n) : mailed[k] > 0
MailsTheUnmailed ==
  \A n \in Scans : \A k \in ToMail(n) : mailed[k] = 0 \/ k \in again
MailedIsKnown ==
  \A k \in Keys : mailed[k] > 0 =>
    k \in alerts \cup again \/ \E n \in Scans : k \in ToRecord(n)
InOneHand ==
  \A n, m \in Scans : n # m => HeldBy(n) \cap HeldBy(m) \subseteq again

DigestsInv ==
  /\ DigestTypes /\ RecordsMailed /\ MailsTheUnmailed /\ MailedIsKnown
  /\ InOneHand /\ MailedOnce

LEMMA DueKeysAreKeys ==
  ASSUME DigestTypes, NEW n \in Scans, scan[n] # AtRest
  PROVE  DueKeys(n) \subseteq Keys
<1> SUFFICES ASSUME NEW s \in Subjects, Due(s) PROVE Key(s, scan[n].day) \in Keys
  BY DEF DueKeys, OfTenant
<1>1. scan[n].day \in 1 .. Days
  BY DEF DigestTypes, Scanning, AtRest
<1>2. standing[s] \in {"soon", "over"}
  BY DEF Due
<1>3. QED
  BY <1>1, <1>2 DEF Key, Keys, DigestTypes, DigestKinds

LEMMA HeldIs ==
  ASSUME NEW n
  PROVE  /\ HeldBy(n) = ToMail(n) \cup ToRecord(n)
         /\ HeldBy(n)' = ToMail(n)' \cup ToRecord(n)'
BY DEF HeldBy, ToMail, ToRecord

LEMMA InHandAreKeys ==
  ASSUME DigestTypes, NEW n \in Scans
  PROVE  ToMail(n) \subseteq Keys /\ ToRecord(n) \subseteq Keys
<1>1. scan[n] = AtRest \/ scan[n].keys \subseteq Keys
  BY DEF DigestTypes, Scanning
<1>2. QED
  BY <1>1 DEF AtRest, ToMail, ToRecord

(* One scan takes a step: it still has the type, and nothing to do with    *)
(* the others.                                                             *)
LEMMA ScanHolds ==
  ASSUME DigestTypes, NEW n \in Scans, NEW rec \in {AtRest} \cup Scanning,
         Hold(n, rec)
  PROVE  /\ scan' \in [Scans -> {AtRest} \cup Scanning] /\ scan'[n] = rec
         /\ \A m \in Scans \ {n} :
              /\ scan'[m] = scan[m]
              /\ ToMail(m)' = ToMail(m) /\ ToRecord(m)' = ToRecord(m)
BY DEF DigestTypes, Hold, ToMail, ToRecord

LEMMA GoesToNextTenant ==
  ASSUME DigestTypes, NEW n \in Scans, scan[n] # AtRest, NEW failed,
         NextTenant(n, failed)
  PROVE  /\ scan' \in [Scans -> {AtRest} \cup Scanning]
         /\ scan'[n].pc \in {"rest", "read"}
         /\ ToMail(n)' = {} /\ ToRecord(n)' = {}
         /\ \A m \in Scans \ {n} :
              /\ scan'[m] = scan[m]
              /\ ToMail(m)' = ToMail(m) /\ ToRecord(m)' = ToRecord(m)
<1> DEFINE next == IF scan[n].left = <<>> THEN AtRest
                   ELSE [scan[n] EXCEPT !.pc = "read", !.keys = {},
                               !.left = Tail(@), !.of = Head(scan[n].left)]
<1>1. scan[n] \in Scanning
  BY DEF DigestTypes
<1>2. scan[n].left # <<>> => /\ Head(scan[n].left) \in Tenants
                             /\ Tail(scan[n].left) \in Seq(Tenants)
  BY <1>1 DEF Scanning
<1>3. /\ next \in {AtRest} \cup Scanning /\ next.pc \in {"rest", "read"}
      /\ Hold(n, next)
  BY <1>1, <1>2 DEF Scanning, NextTenant, AtRest
<1> HIDE DEF next
<1>4. /\ scan' \in [Scans -> {AtRest} \cup Scanning] /\ scan'[n] = next
      /\ \A m \in Scans \ {n} :
           /\ scan'[m] = scan[m]
           /\ ToMail(m)' = ToMail(m) /\ ToRecord(m)' = ToRecord(m)
  BY <1>3, ScanHolds
<1>5. QED
  BY <1>3, <1>4 DEF ToMail, ToRecord

(* Nothing new in hand, nothing mailed and nothing forgotten.              *)
LEMMA NothingToMail ==
  ASSUME DigestsInv, DigestTypes', UNCHANGED <<alerts, mailed, again>>,
         \A n \in Scans : /\ ToMail(n)' \subseteq ToMail(n)
                          /\ ToRecord(n)' = ToRecord(n)
  PROVE  DigestsInv'
<1>1. RecordsMailed' /\ MailsTheUnmailed' /\ MailedIsKnown'
  BY DEF DigestsInv, RecordsMailed, MailsTheUnmailed, MailedIsKnown
<1>2. InOneHand'
  BY HeldIs DEF DigestsInv, InOneHand
<1>3. MailedOnce'
  BY DEF DigestsInv, MailedOnce
<1>4. QED
  BY <1>1, <1>2, <1>3 DEF DigestsInv

(* A scan collects keys that are due and not recorded.                     *)
LEMMA CollectKeeps ==
  ASSUME DigestsInv, NEW n \in Scans, scan[n].pc \in {"read", "recorded"},
         NEW keys \in SUBSET Keys, Collect(n, Unrecorded(keys)),
         UNCHANGED <<digest, standing, today, reachable, alerts, mailed>>
  PROVE  DigestsInv'
<1> DEFINE ks == keys \ alerts
           new == ks \cap UNION {HeldBy(m) : m \in Scans \ {n}}
<1>1. /\ DigestTypes /\ scan[n] # AtRest /\ scan[n] \in Scanning
      /\ ks \subseteq Keys
      /\ ToMail(n) = {} /\ ToRecord(n) = {} /\ HeldBy(n) = {}
  BY DEF DigestsInv, DigestTypes, AtRest, ToMail, ToRecord, HeldBy
<1>2. again' = again \cup new
  BY DEF Collect, Unrecorded
<1>3. /\ scan' \in [Scans -> {AtRest} \cup Scanning]
      /\ \A m \in Scans \ {n} :
           /\ scan'[m] = scan[m]
           /\ ToMail(m)' = ToMail(m) /\ ToRecord(m)' = ToRecord(m)
      /\ scan'[n].pc \in {"address", "mail", "record"} => scan'[n].keys # {}
      /\ ToMail(n)' \subseteq ks /\ ToRecord(n)' = {}
  <2>1. CASE ks = {}
    <3>1. NextTenant(n, FALSE)
      BY <2>1 DEF Collect, Unrecorded
    <3>2. QED
      BY <1>1, <3>1, GoesToNextTenant
  <2>2. CASE ks # {}
    <3> DEFINE rec == [scan[n] EXCEPT !.pc = "address", !.keys = ks]
    <3>1. /\ rec \in Scanning /\ rec.pc = "address" /\ rec.keys = ks
          /\ Hold(n, rec)
      BY <1>1, <2>2 DEF Scanning, Collect, Unrecorded
    <3> HIDE DEF rec, ks
    <3>2. QED
      BY <1>1, <2>2, <3>1, ScanHolds DEF ToMail, ToRecord
  <2>3. QED
    BY <2>1, <2>2
<1> HIDE DEF ks
<1>4. DigestTypes'
  <2>1. again' \subseteq Keys
    BY <1>1, <1>2 DEF DigestTypes
  <2>2. QED
    BY <1>1, <1>3, <2>1 DEF DigestTypes
<1>5. \A m \in Scans : ToRecord(m)' = ToRecord(m)
  BY <1>1, <1>3
<1>6. RecordsMailed' /\ MailedIsKnown' /\ MailedOnce'
  BY <1>2, <1>5 DEF DigestsInv, RecordsMailed, MailedIsKnown, MailedOnce
<1>7. MailsTheUnmailed'
  <2>1. ASSUME NEW k \in ks PROVE mailed[k] = 0 \/ k \in again'
    <3>1. k \in Keys /\ k \notin alerts /\ mailed[k] \in Nat
      BY <1>1 DEF ks, DigestTypes
    <3>2. CASE mailed[k] > 0 /\ k \notin again
      <4>1. PICK m \in Scans : k \in ToRecord(m)
        BY <3>1, <3>2 DEF DigestsInv, MailedIsKnown
      <4>2. m # n /\ k \in HeldBy(m)
        BY <1>1, <4>1, HeldIs
      <4>3. QED
        BY <1>2, <4>2
    <3>3. QED
      BY <1>2, <3>1, <3>2
  <2>2. QED
    BY <1>2, <1>3, <2>1 DEF DigestsInv, MailsTheUnmailed
<1>8. InOneHand'
  <2>1. \A m \in Scans \ {n} : HeldBy(m)' = HeldBy(m)
    BY <1>3, HeldIs
  <2>2. HeldBy(n)' \subseteq ks
    BY <1>3, HeldIs
  <2>3. QED
    BY <1>2, <2>1, <2>2 DEF DigestsInv, InOneHand
<1>9. QED
  BY <1>4, <1>6, <1>7, <1>8 DEF DigestsInv

LEMMA DigestsInvKept == DigestsInv /\ [DigestsNext]_digests => DigestsInv'
<1> SUFFICES ASSUME DigestsInv, [DigestsNext]_digests PROVE DigestsInv'
  OBVIOUS
<1>0. DigestTypes
  BY DEF DigestsInv
<1>1. ASSUME NEW n \in Scans, ScanAndNotify(n) PROVE DigestsInv'
  <2> DEFINE rec == [pc |-> "read", of |-> Head(TenantList),
                     left |-> Tail(TenantList), keys |-> {}, day |-> today]
  <2>1. rec \in Scanning /\ rec.pc = "read"
    BY <1>0, TenantsAssumption DEF Scanning, DigestTypes
  <2>2. /\ scan[n].pc = "rest" /\ Hold(n, rec)
        /\ UNCHANGED <<digest, standing, today, reachable, alerts, mailed, again>>
    BY <1>1 DEF ScanAndNotify, AtRest
  <2> HIDE DEF rec
  <2>3. /\ DigestTypes'
        /\ \A m \in Scans : ToMail(m)' = ToMail(m) /\ ToRecord(m)' = ToRecord(m)
    BY <1>0, <2>1, <2>2, ScanHolds DEF DigestTypes, ToMail, ToRecord
  <2>4. QED
    BY <2>2, <2>3, NothingToMail
<1>2. ASSUME NEW n \in Scans,
             ReadFails(n) \/ OutsideTrackingHours(n) \/ DigestNotSent(n)
      PROVE  DigestsInv'
  <2>1. /\ \E failed : NextTenant(n, failed)
        /\ scan[n].pc \in {"read", "mail"} /\ scan[n] # AtRest
        /\ UNCHANGED <<digest, standing, today, reachable, alerts, mailed, again>>
    <3>1. NextTenant(n, TRUE) \/ NextTenant(n, FALSE)
      BY <1>2 DEF ReadFails, OutsideTrackingHours, DigestNotSent
    <3>2. scan[n].pc \in {"read", "mail"}
      BY <1>2 DEF ReadFails, OutsideTrackingHours, DigestNotSent
    <3>3. scan[n] # AtRest
      BY <3>2 DEF AtRest
    <3>4. UNCHANGED <<digest, standing, today, reachable, alerts, mailed, again>>
      BY <1>2 DEF ReadFails, OutsideTrackingHours, DigestNotSent
    <3>5. QED
      BY <3>1, <3>2, <3>3, <3>4
  <2>2. /\ DigestTypes' /\ ToRecord(n) = {}
        /\ \A m \in Scans : ToMail(m)' \subseteq ToMail(m)
        /\ \A m \in Scans \ {n} : ToRecord(m)' = ToRecord(m)
        /\ ToRecord(n)' = {}
    BY <1>0, <2>1, GoesToNextTenant DEF DigestTypes, ToRecord
  <2>3. QED
    BY <2>1, <2>2, NothingToMail
<1>3. ASSUME NEW n \in Scans, ReadDue(n) PROVE DigestsInv'
  <2>1. scan[n].pc = "read" /\ scan[n] # AtRest /\ DueKeys(n) \subseteq Keys
    BY <1>0, <1>3, DueKeysAreKeys DEF ReadDue, AtRest
  <2>2. CASE digest = "vehicles"
    <3> DEFINE ks == DueKeys(n)
               rec == [scan[n] EXCEPT !.pc = "recorded", !.keys = ks]
    <3>1. /\ UNCHANGED <<digest, standing, today, reachable, alerts, mailed, again>>
          /\ Hold(n, rec)
      BY <1>3, <2>2 DEF ReadDue
    <3> HIDE DEF ks
    <3>2. rec \in Scanning /\ rec.pc = "recorded"
      <4>1. scan[n] \in Scanning /\ ks \subseteq Keys
        BY <1>0, <2>1 DEF DigestTypes, ks
      <4>2. QED
        BY <4>1 DEF Scanning
    <3> HIDE DEF rec
    <3>3. /\ DigestTypes'
          /\ \A m \in Scans : ToMail(m)' = ToMail(m) /\ ToRecord(m)' = ToRecord(m)
      BY <1>0, <2>1, <3>1, <3>2, ScanHolds DEF DigestTypes, ToMail, ToRecord
    <3>4. QED
      BY <3>1, <3>3, NothingToMail
  <2>3. CASE digest # "vehicles"
    <3>1. /\ Collect(n, Unrecorded(DueKeys(n)))
          /\ UNCHANGED <<digest, standing, today, reachable, alerts, mailed>>
      BY <1>3, <2>3 DEF ReadDue
    <3>2. QED
      BY <2>1, <3>1, CollectKeeps
  <2>4. QED
    BY <2>2, <2>3
<1>4. ASSUME NEW n \in Scans, ReadRecorded(n) PROVE DigestsInv'
  <2>1. scan[n].pc = "recorded" /\ scan[n].keys \in SUBSET Keys
    BY <1>0, <1>4 DEF ReadRecorded, DigestTypes, Scanning, AtRest
  <2>2. QED
    BY <1>4, <2>1, CollectKeeps DEF ReadRecorded
<1>5. ASSUME NEW n \in Scans, ResolveOwnerRecipients(n) PROVE DigestsInv'
  <2>1. /\ scan[n].pc = "address" /\ scan[n] # AtRest
        /\ ToRecord(n) = {} /\ ToMail(n) = scan[n].keys
        /\ UNCHANGED <<digest, standing, today, reachable, alerts, mailed, again>>
    BY <1>5 DEF ResolveOwnerRecipients, AtRest, ToRecord, ToMail
  <2>2. CASE scan[n].of \notin reachable
    <3>1. NextTenant(n, FALSE)
      BY <1>5, <2>2 DEF ResolveOwnerRecipients
    <3>2. /\ DigestTypes'
          /\ \A m \in Scans : /\ ToMail(m)' \subseteq ToMail(m)
                              /\ ToRecord(m)' = ToRecord(m)
      BY <1>0, <2>1, <3>1, GoesToNextTenant DEF DigestTypes
    <3>3. QED
      BY <2>1, <3>2, NothingToMail
  <2>3. CASE scan[n].of \in reachable
    <3> DEFINE rec == [scan[n] EXCEPT !.pc = "mail"]
    <3>1. /\ Hold(n, rec) /\ rec \in Scanning /\ rec.pc = "mail"
          /\ rec.keys = scan[n].keys
      BY <1>0, <1>5, <2>1, <2>3 DEF ResolveOwnerRecipients, DigestTypes, Scanning
    <3> HIDE DEF rec
    <3>2. /\ DigestTypes'
          /\ \A m \in Scans : ToMail(m)' = ToMail(m) /\ ToRecord(m)' = ToRecord(m)
      BY <1>0, <2>1, <3>1, ScanHolds DEF DigestTypes, ToMail, ToRecord
    <3>3. QED
      BY <2>1, <3>2, NothingToMail
  <2>4. QED
    BY <2>2, <2>3
<1>6. ASSUME NEW n \in Scans, MailSent(n) PROVE DigestsInv'
  <2> DEFINE rec == [scan[n] EXCEPT !.pc = "record"]
             ks == scan[n].keys
  <2>1. /\ scan[n].pc = "mail" /\ scan[n] # AtRest /\ ks \subseteq Keys /\ ks # {}
        /\ ToRecord(n) = {} /\ ToMail(n) = ks
        /\ UNCHANGED <<digest, standing, today, reachable, alerts, again>>
    BY <1>0, <1>6 DEF MailSent, AtRest, ToRecord, ToMail, DigestTypes, Scanning
  <2>2. mailed' = [k \in Keys |-> mailed[k] + (IF k \in ks THEN 1 ELSE 0)]
    BY <1>6 DEF MailSent, Mailed
  <2>3. /\ Hold(n, rec) /\ rec \in Scanning /\ rec.pc = "record" /\ rec.keys = ks
    BY <1>0, <1>6, <2>1 DEF MailSent, DigestTypes, Scanning
  <2> HIDE DEF rec, ks
  <2>4. \A k \in Keys : /\ mailed[k] \in Nat /\ mailed'[k] \in Nat
                        /\ mailed'[k] = IF k \in ks THEN mailed[k] + 1 ELSE mailed[k]
    BY <1>0, <2>2 DEF DigestTypes
  <2>5. /\ DigestTypes' /\ ToMail(n)' = {} /\ ToRecord(n)' = ks
        /\ \A m \in Scans \ {n} :
             ToMail(m)' = ToMail(m) /\ ToRecord(m)' = ToRecord(m)
    BY <1>0, <2>1, <2>2, <2>3, <2>4, ScanHolds DEF DigestTypes, ToMail, ToRecord
  <2>6. \A m \in Scans : HeldBy(m)' = HeldBy(m)
    <3>1. HeldBy(n) = ks /\ HeldBy(n)' = ks
      BY <2>1, <2>5, HeldIs
    <3>2. \A m \in Scans \ {n} : HeldBy(m)' = HeldBy(m)
      BY <2>5, HeldIs
    <3>3. QED
      BY <3>1, <3>2
  <2>7. \A m \in Scans : ToMail(m) \cup ToRecord(m) \subseteq Keys
    BY <1>0, InHandAreKeys
  <2>8. RecordsMailed'
    BY <2>1, <2>4, <2>5, <2>7 DEF DigestsInv, RecordsMailed
  <2>9. MailsTheUnmailed'
    <3>1. ASSUME NEW m \in Scans, NEW k \in ToMail(m)', k \notin again
          PROVE  mailed'[k] = 0
      <4>1. m # n /\ k \in ToMail(m) /\ k \in Keys
        BY <2>5, <2>7, <3>1
      <4>2. k \notin ks
        BY <2>1, <3>1, <4>1, HeldIs DEF DigestsInv, InOneHand
      <4>3. QED
        BY <2>4, <3>1, <4>1, <4>2 DEF DigestsInv, MailsTheUnmailed
    <3>2. QED
      BY <2>1, <3>1 DEF MailsTheUnmailed
  <2>10. MailedIsKnown'
    <3>1. ASSUME NEW k \in Keys, mailed'[k] > 0, k \notin alerts \cup again
          PROVE  \E m \in Scans : k \in ToRecord(m)'
      <4>1. CASE k \in ks
        BY <2>5, <4>1
      <4>2. CASE k \notin ks
        BY <2>1, <2>4, <2>5, <3>1, <4>2 DEF DigestsInv, MailedIsKnown
      <4>3. QED
        BY <4>1, <4>2
    <3>2. QED
      BY <2>1, <3>1 DEF MailedIsKnown
  <2>11. InOneHand'
    BY <2>1, <2>6 DEF DigestsInv, InOneHand
  <2>12. MailedOnce'
    <3>1. \A k \in ks : mailed[k] = 0 \/ k \in again
      BY <2>1 DEF DigestsInv, MailsTheUnmailed
    <3>2. QED
      BY <2>1, <2>4, <3>1 DEF DigestsInv, MailedOnce
  <2>13. QED
    BY <2>5, <2>8, <2>9, <2>10, <2>11, <2>12 DEF DigestsInv
<1>7. ASSUME NEW n \in Scans, SentNotReported(n) PROVE DigestsInv'
  <2> DEFINE ks == scan[n].keys
  <2>1. /\ scan[n].pc = "mail" /\ scan[n] # AtRest /\ ks \subseteq Keys
        /\ NextTenant(n, FALSE) /\ ToRecord(n) = {} /\ ToMail(n) = ks
        /\ again' = again \cup ks
        /\ UNCHANGED <<digest, standing, today, reachable, alerts>>
    <3>1. scan[n].pc = "mail" /\ scan[n] # AtRest
      BY <1>7 DEF SentNotReported, AtRest
    <3>2. ToRecord(n) = {} /\ ToMail(n) = ks
      BY <3>1 DEF ToRecord, ToMail
    <3>3. ks \subseteq Keys
      BY <1>0, <3>2, InHandAreKeys
    <3>4. QED
      BY <1>7, <3>1, <3>2, <3>3 DEF SentNotReported
  <2>2. mailed' = [k \in Keys |-> mailed[k] + (IF k \in ks THEN 1 ELSE 0)]
    BY <1>7 DEF SentNotReported, Mailed
  <2> HIDE DEF ks
  <2>3. \A k \in Keys : /\ mailed[k] \in Nat /\ mailed'[k] \in Nat
                        /\ mailed'[k] = IF k \in ks THEN mailed[k] + 1 ELSE mailed[k]
    BY <1>0, <2>2 DEF DigestTypes
  <2>4. /\ DigestTypes' /\ ToMail(n)' = {} /\ ToRecord(n)' = {}
        /\ \A m \in Scans \ {n} :
             ToMail(m)' = ToMail(m) /\ ToRecord(m)' = ToRecord(m)
    BY <1>0, <2>1, <2>2, <2>3, GoesToNextTenant DEF DigestTypes
  <2>5. \A m \in Scans : /\ HeldBy(m)' \subseteq HeldBy(m)
                         /\ ToMail(m)' \subseteq ToMail(m)
                         /\ ToRecord(m)' = ToRecord(m)
    BY <2>1, <2>4, HeldIs
  <2>6. \A m \in Scans : ToMail(m) \cup ToRecord(m) \subseteq Keys
    BY <1>0, InHandAreKeys
  <2>7. RecordsMailed' /\ MailsTheUnmailed'
    BY <2>1, <2>3, <2>5, <2>6 DEF DigestsInv, RecordsMailed, MailsTheUnmailed
  <2>8. MailedIsKnown' /\ InOneHand'
    BY <2>1, <2>3, <2>5 DEF DigestsInv, MailedIsKnown, InOneHand
  <2>9. MailedOnce'
    BY <2>1, <2>3 DEF DigestsInv, MailedOnce
  <2>10. QED
    BY <2>4, <2>7, <2>8, <2>9 DEF DigestsInv
<1>8. ASSUME NEW n \in Scans, RecordAlerts(n) \/ RecordFails(n) PROVE DigestsInv'
  <2> DEFINE ks == scan[n].keys
  <2>1. /\ scan[n].pc = "record" /\ scan[n] # AtRest /\ ks \subseteq Keys
        /\ \E failed : NextTenant(n, failed)
        /\ ToRecord(n) = ks /\ ToMail(n) = {}
        /\ \/ alerts' = alerts \cup ks /\ again' = again
           \/ alerts' = alerts /\ again' = again \cup ks
        /\ UNCHANGED <<digest, standing, today, reachable, mailed>>
    <3>1. scan[n].pc = "record" /\ scan[n] # AtRest
      <4>1. scan[n].pc = "record"
        BY <1>8 DEF RecordAlerts, RecordFails
      <4>2. QED
        BY <4>1 DEF AtRest
    <3>2. ToRecord(n) = ks /\ ToMail(n) = {}
      BY <3>1 DEF ToRecord, ToMail
    <3>3. ks \subseteq Keys
      BY <1>0, <3>2, InHandAreKeys
    <3>4. NextTenant(n, FALSE) \/ NextTenant(n, TRUE)
      BY <1>8 DEF RecordAlerts, RecordFails
    <3>5. QED
      BY <1>8, <3>1, <3>2, <3>3, <3>4 DEF RecordAlerts, RecordFails
  <2> HIDE DEF ks
  <2>2. /\ scan' \in [Scans -> {AtRest} \cup Scanning]
        /\ scan'[n].pc \in {"rest", "read"}
        /\ ToMail(n)' = {} /\ ToRecord(n)' = {}
        /\ \A m \in Scans \ {n} :
              /\ scan'[m] = scan[m]
              /\ ToMail(m)' = ToMail(m) /\ ToRecord(m)' = ToRecord(m)
    BY <1>0, <2>1, GoesToNextTenant
  <2>3. DigestTypes'
    BY <1>0, <2>1, <2>2 DEF DigestTypes
  <2>4. \A m \in Scans : /\ HeldBy(m)' \subseteq HeldBy(m)
                         /\ ToMail(m)' \subseteq ToMail(m)
                         /\ ToRecord(m)' \subseteq ToRecord(m)
    BY <2>2, HeldIs
  <2>5. RecordsMailed' /\ MailsTheUnmailed' /\ InOneHand'
    BY <2>1, <2>4 DEF DigestsInv, RecordsMailed, MailsTheUnmailed, InOneHand
  <2>6. MailedIsKnown'
    BY <2>1, <2>2 DEF DigestsInv, MailedIsKnown
  <2>7. MailedOnce'
    BY <2>1 DEF DigestsInv, MailedOnce, RecordsMailed
  <2>8. QED
    BY <2>3, <2>5, <2>6, <2>7 DEF DigestsInv
<1>9. CASE ScansStop
  <2>1. /\ again' = again \cup UNION {HeldBy(n) : n \in Scans}
        /\ scan' = [n \in Scans |-> AtRest]
        /\ UNCHANGED <<digest, standing, today, reachable, alerts, mailed>>
    BY <1>9 DEF ScansStop
  <2>2. \A n \in Scans : HeldBy(n) \subseteq Keys
    BY <1>0, HeldIs, InHandAreKeys
  <2>3. DigestTypes' /\ \A n \in Scans : ToMail(n)' = {} /\ ToRecord(n)' = {}
    BY <1>0, <2>1, <2>2 DEF DigestTypes, ToMail, ToRecord, AtRest
  <2>4. RecordsMailed' /\ MailsTheUnmailed' /\ InOneHand'
    BY <2>3, HeldIs DEF RecordsMailed, MailsTheUnmailed, InOneHand
  <2>5. MailedIsKnown' /\ MailedOnce'
    BY <2>1, HeldIs DEF DigestsInv, MailedIsKnown, MailedOnce
  <2>6. QED
    BY <2>3, <2>4, <2>5 DEF DigestsInv
<1>10. ASSUME \/ \E s \in Subjects : StandingChanges(s)
              \/ \E t \in Tenants \ Failing : BecomesReachable(t)
              \/ NextDay \/ UNCHANGED digests
       PROVE  DigestsInv'
  <2>1. UNCHANGED <<digest, alerts, mailed, scan, again>>
    BY <1>10 DEF StandingChanges, BecomesReachable, NextDay, digests
  <2>2. today' \in 1 .. Days /\ reachable' \subseteq Tenants
    BY <1>0, <1>10, TenantsAssumption
    DEF StandingChanges, BecomesReachable, NextDay, digests, DigestTypes
  <2>3. standing' \in [Subjects -> {"fine", "soon", "over", "gone"}]
    <3>1. ASSUME NEW s \in Subjects, StandingChanges(s)
          PROVE  standing' \in [Subjects -> {"fine", "soon", "over", "gone"}]
      <4>1. PICK step \in Course : standing' = [standing EXCEPT ![s] = step[2]]
        BY <3>1 DEF StandingChanges
      <4>2. step[2] \in {"fine", "soon", "over", "gone"}
        BY <1>0, <4>1 DEF Course, DigestTypes, DigestKinds
      <4>3. QED
        BY <1>0, <4>1, <4>2 DEF DigestTypes
    <3>2. QED
      BY <1>0, <1>10, <3>1 DEF BecomesReachable, NextDay, digests, DigestTypes
  <2>4. /\ DigestTypes'
        /\ \A n \in Scans : ToMail(n)' = ToMail(n) /\ ToRecord(n)' = ToRecord(n)
    BY <1>0, <2>1, <2>2, <2>3 DEF DigestTypes, ToMail, ToRecord
  <2>5. QED
    BY <2>1, <2>4, NothingToMail
<1>11. QED
  BY <1>1, <1>2, <1>3, <1>4, <1>5, <1>6, <1>7, <1>8, <1>9, <1>10
  DEF DigestsNext, ScanGoesOn

LEMMA DigestsAlwaysInv == Spec => []DigestsInv
<1>1. DigestsInit => DigestsInv
  <2> SUFFICES ASSUME DigestsInit PROVE DigestsInv
    OBVIOUS
  <2>1. DigestTypes
    BY DigestsAssumption, TenantsAssumption DEF DigestsInit, DigestTypes, AtRest
  <2>2. \A n \in Scans : ToMail(n) = {} /\ ToRecord(n) = {}
    BY DEF DigestsInit, AtRest, ToMail, ToRecord
  <2>3. RecordsMailed /\ MailsTheUnmailed /\ MailedIsKnown /\ MailedOnce
    BY <2>2 DEF DigestsInit, RecordsMailed, MailsTheUnmailed, MailedIsKnown,
                MailedOnce
  <2>4. InOneHand
    BY <2>2, HeldIs DEF InOneHand
  <2>5. QED
    BY <2>1, <2>3, <2>4 DEF DigestsInv
<1>2. QED
  BY <1>1, PartsAlone, DigestsInvKept, PTL

(***************************************************************************)
(* For any tenants, subjects and scans, each digest: what is recorded as   *)
(* alerted was mailed, and nothing is mailed twice unless a scan could not *)
(* record it, a mail went out unreported, or two scans had it in hand.     *)
(***************************************************************************)
THEOREM DigestsMailedOnce == Spec => []MailedOnce
<1>1. DigestsInv => MailedOnce
  BY DEF DigestsInv
<1>2. QED
  BY <1>1, DigestsAlwaysInv, PTL

-----------------------------------------------------------------------------
(***************************************************************************)
(* Accounts.  Of the requests that are about to create a company no two    *)
(* create the same, and it is not there yet.                               *)
(***************************************************************************)
LiveRow ==
  [status : {"PENDING_VERIFICATION", "ACTIVE"}, trial : {"none", "on", "over"},
   old : BOOLEAN, data : BOOLEAN]
Asking ==
  {Idle, [pc |-> "sendCode"]}
  \cup [pc : {"create", "issue", "mail", "count", "destroy", "consume",
              "activate"}, of : Signups]

Creating(r) == ask[r].pc = "create"
CreatesApart ==
  /\ \A r \in Asks : Creating(r) => tenant[ask[r].of] = NoTenant
  /\ \A q, r \in Asks :
       q # r /\ Creating(q) /\ Creating(r) => ask[q].of # ask[r].of
AccountsInv == AccountsOK /\ CreatesApart

LEMMA ExistingRow ==
  ASSUME AccountsOK, NEW t \in Signups
  PROVE  /\ Exists(t) => tenant[t] \in LiveRow
         /\ ~Exists(t) => tenant[t] \in {NoTenant, Deleted}
BY DEF AccountsOK, TenantRow, LiveRow, Deleted, Exists, NoTenant

(* Requests that leave the companies alone, and begin no creation.         *)
LEMMA CompaniesStand ==
  ASSUME AccountsInv, UNCHANGED <<tenant, cleanup>>, ask' \in [Asks -> Asking],
         \A r \in Asks : Creating(r)' => ask'[r] = ask[r],
         code' \in [Signups -> [by : Asks \cup {NoOne}, attempts : Nat]],
         inbox' \subseteq Signups, \A t \in inbox' : code'[t].by # NoOne
  PROVE  AccountsInv'
<1>1. AccountsOK'
  BY DEF AccountsInv, AccountsOK, Asking, Exists
<1>2. CreatesApart'
  BY DEF AccountsInv, CreatesApart, Creating
<1>3. QED
  BY <1>1, <1>2 DEF AccountsInv

(* Companies that are there change; the others do not.                     *)
LEMMA CompaniesChange ==
  ASSUME AccountsInv, UNCHANGED <<code, inbox, cleanup>>,
         ask' \in [Asks -> Asking],
         \A r \in Asks : Creating(r)' => ask'[r] = ask[r],
         tenant' \in [Signups -> TenantRow],
         \A t \in Signups : ~Exists(t) => tenant'[t] = tenant[t],
         \A t \in Signups : Exists(t) =>
           /\ tenant'[t] \in LiveRow
           /\ tenant'[t].status = "PENDING_VERIFICATION" =>
                tenant'[t].trial = "none" /\ ~tenant'[t].data
  PROVE  AccountsInv'
<1>1. AccountsOK'
  BY DEF AccountsInv, AccountsOK, Asking, Exists, LiveRow, Deleted, NoTenant
<1>2. CreatesApart'
  <2>1. \A t \in Signups : tenant[t] = NoTenant => tenant'[t] = NoTenant
    BY DEF Exists, NoTenant
  <2>2. \A r \in Asks : Creating(r)' => ask[r].of \in Signups
    BY DEF Creating, Asking, Idle
  <2>3. QED
    BY <2>1, <2>2 DEF AccountsInv, CreatesApart, Creating
<1>3. QED
  BY <1>1, <1>2 DEF AccountsInv

(* A request goes on.                                                      *)
LEMMA PutIs ==
  ASSUME AccountsInv, NEW r \in Asks, NEW rec \in Asking, Put(r, rec)
  PROVE  /\ ask' \in [Asks -> Asking] /\ ask'[r] = rec
         /\ \A q \in Asks \ {r} : ask'[q] = ask[q]
BY DEF AccountsInv, AccountsOK, Asking, Put

LEMMA AccountsInvKept == AccountsInv /\ [AccountsNext]_accounts => AccountsInv'
<1> SUFFICES ASSUME AccountsInv, [AccountsNext]_accounts PROVE AccountsInv'
  OBVIOUS
<1>a. /\ ask \in [Asks -> Asking] /\ inbox \subseteq Signups
      /\ code \in [Signups -> [by : Asks \cup {NoOne}, attempts : Nat]]
      /\ tenant \in [Signups -> TenantRow]
      /\ \A t \in inbox : code[t].by # NoOne
  BY DEF AccountsInv, AccountsOK, Asking
<1>b. \A r \in Asks : ask[r].pc \notin {"idle", "sendCode"} => ask[r].of \in Signups
  BY <1>a DEF Asking, Idle
<1>c. Idle \in Asking /\ Idle.pc = "idle" /\ [pc |-> "sendCode"] \in Asking
  BY DEF Asking, Idle
<1>d. \A t \in Signups :
        /\ Exists(t) => tenant[t] \in LiveRow
        /\ ~Exists(t) => tenant[t] \in {NoTenant, Deleted}
  BY ExistingRow DEF AccountsInv
<1>1. ASSUME NEW r \in Asks, NEW t \in Signups, Signup(r, t) PROVE AccountsInv'
  <2> DEFINE rec == [pc |-> "create", of |-> t]
  <2>1. rec \in Asking /\ rec.pc = "create" /\ rec.of = t
    BY DEF Asking
  <2>2. /\ Put(r, rec) /\ tenant[t] = NoTenant
        /\ \A q \in Asks : Creating(q) => ask[q].of # t
        /\ UNCHANGED <<tenant, code, inbox, cleanup>>
    BY <1>1 DEF Signup, Creating
  <2> HIDE DEF rec
  <2>3. /\ ask' \in [Asks -> Asking] /\ ask'[r] = rec
        /\ \A q \in Asks \ {r} : ask'[q] = ask[q]
    BY <2>1, <2>2, PutIs
  <2>4. CreatesApart'
    BY <2>1, <2>2, <2>3 DEF AccountsInv, CreatesApart, Creating
  <2>5. AccountsOK'
    BY <2>2, <2>3 DEF AccountsInv, AccountsOK, Asking, Exists
  <2>6. QED
    BY <2>4, <2>5 DEF AccountsInv
<1>2. ASSUME NEW r \in Asks, CreateTenant(r) PROVE AccountsInv'
  <2> DEFINE t == ask[r].of
  <2>1. /\ Creating(r) /\ t \in Signups /\ tenant[t] = NoTenant
        /\ tenant' = [tenant EXCEPT ![t] = NewTenant]
        /\ Put(r, [pc |-> "sendCode"])
        /\ UNCHANGED <<code, inbox, cleanup>>
    BY <1>2, <1>b DEF CreateTenant, Creating, AccountsInv, CreatesApart
  <2>2. /\ \A q \in Asks \ {r} : Creating(q) => ask[q].of # t
    BY <2>1 DEF AccountsInv, CreatesApart
  <2>3. /\ ask' \in [Asks -> Asking] /\ ask'[r] = [pc |-> "sendCode"]
        /\ \A q \in Asks \ {r} : ask'[q] = ask[q]
    BY <1>c, <2>1, PutIs
  <2> HIDE DEF t
  <2>4. /\ NewTenant \in LiveRow /\ NewTenant.status = "PENDING_VERIFICATION"
        /\ NewTenant.trial = "none" /\ ~NewTenant.data
    BY DEF NewTenant, LiveRow
  <2>5. /\ tenant' \in [Signups -> TenantRow] /\ tenant'[t] = NewTenant
        /\ \A u \in Signups \ {t} : tenant'[u] = tenant[u]
    BY <1>a, <2>1, <2>4 DEF TenantRow, LiveRow
  <2>6. AccountsOK'
    <3>1. \A u \in cleanup : u \in Signups /\ u # t /\ Exists(u)
      BY <2>1 DEF AccountsInv, AccountsOK, Exists, NoTenant
    <3>2. \A u \in cleanup : Exists(u)'
      BY <2>5, <3>1 DEF Exists
    <3>3. QED
      BY <2>1, <2>3, <2>4, <2>5, <3>2 DEF AccountsInv, AccountsOK, Asking
  <2>7. CreatesApart'
    <3>1. \A q \in Asks : Creating(q)' => /\ q # r /\ Creating(q)
                                          /\ ask'[q] = ask[q]
                                          /\ ask[q].of \in Signups \ {t}
      BY <1>b, <2>2, <2>3 DEF Creating
    <3>2. QED
      BY <2>5, <3>1 DEF AccountsInv, CreatesApart
  <2>8. QED
    BY <2>6, <2>7 DEF AccountsInv
<1>3. ASSUME NEW r \in Asks, SendCode(r) PROVE AccountsInv'
  <2>1. \A t \in Signups : [pc |-> "issue", of |-> t] \in Asking
    BY DEF Asking
  <2>2. PICK rec \in Asking : Put(r, rec) /\ rec.pc # "create"
    BY <1>3, <1>c, <2>1 DEF SendCode
  <2>3. QED
    BY <1>3, <1>a, <2>2, PutIs, CompaniesStand DEF SendCode, Creating
<1>4. ASSUME NEW r \in Asks, NEW t \in Signups, ResendCode(r, t)
      PROVE  AccountsInv'
  <2>1. [pc |-> "issue", of |-> t] \in Asking
    BY DEF Asking
  <2>2. PICK rec \in Asking : Put(r, rec) /\ rec.pc # "create"
    BY <1>4, <2>1 DEF ResendCode, ResendTo
  <2>3. QED
    BY <1>4, <1>a, <2>2, PutIs, CompaniesStand DEF ResendCode, Creating
<1>5. ASSUME NEW r \in Asks, Issue(r) PROVE AccountsInv'
  <2> DEFINE t == ask[r].of
             rec == [pc |-> "mail", of |-> t]
  <2>1. /\ t \in Signups /\ Put(r, rec) /\ inbox' = inbox \ {t}
        /\ code' = [code EXCEPT ![t] = [by |-> r, attempts |-> 0]]
        /\ UNCHANGED <<tenant, cleanup>>
    BY <1>5, <1>b DEF Issue
  <2>2. rec \in Asking /\ rec.pc # "create"
    BY <2>1 DEF Asking
  <2> HIDE DEF t, rec
  <2>3. /\ ask' \in [Asks -> Asking]
        /\ \A q \in Asks : Creating(q)' => ask'[q] = ask[q]
    BY <2>1, <2>2, PutIs DEF Creating
  <2>4. /\ code' \in [Signups -> [by : Asks \cup {NoOne}, attempts : Nat]]
        /\ \A u \in Signups \ {t} : code'[u] = code[u]
    BY <1>a, <2>1
  <2>5. QED
    BY <1>a, <2>1, <2>3, <2>4, CompaniesStand
<1>6. ASSUME NEW r \in Asks, Mail(r) \/ MailNotSent(r) PROVE AccountsInv'
  <2> DEFINE t == ask[r].of
  <2>1. /\ t \in Signups /\ Put(r, Idle)
        /\ \/ inbox' = inbox
           \/ inbox' = inbox \cup {t} /\ code[t].by = r
        /\ UNCHANGED <<tenant, code, cleanup>>
    BY <1>6, <1>b DEF Mail, MailNotSent
  <2>2. /\ ask' \in [Asks -> Asking]
        /\ \A q \in Asks : Creating(q)' => ask'[q] = ask[q]
    BY <1>c, <2>1, PutIs DEF Creating
  <2>3. QED
    BY <1>a, <2>1, <2>2, NoOneAssumption, CompaniesStand
<1>7. ASSUME NEW r \in Asks, NEW t \in Signups, ConfirmCode(r, t)
      PROVE  AccountsInv'
  <2>1. \A p \in {"destroy", "consume", "count"} : [of |-> t, pc |-> p] \in Asking
    BY DEF Asking
  <2>2. PICK p \in {"destroy", "consume", "count"} : Put(r, [of |-> t, pc |-> p])
    BY <1>7 DEF ConfirmCode
  <2>3. /\ ask' \in [Asks -> Asking]
        /\ \A q \in Asks : Creating(q)' => ask'[q] = ask[q]
    BY <2>1, <2>2, PutIs DEF Creating
  <2>4. UNCHANGED <<tenant, code, inbox, cleanup>>
    BY <1>7 DEF ConfirmCode
  <2>5. QED
    BY <1>a, <2>3, <2>4, CompaniesStand
<1>8. ASSUME NEW r \in Asks, CountAttempt(r) PROVE AccountsInv'
  <2> DEFINE t == ask[r].of
             attempts == code[t].attempts + 1
  <2>1. /\ t \in Signups /\ code' = [code EXCEPT ![t].attempts = attempts]
        /\ \/ Put(r, [pc |-> "destroy", of |-> t])
           \/ Put(r, Idle)
        /\ UNCHANGED <<tenant, inbox, cleanup>>
    BY <1>8, <1>b DEF CountAttempt
  <2>2. [pc |-> "destroy", of |-> t] \in Asking
    BY <2>1 DEF Asking
  <2>3. attempts \in Nat
    BY <1>a, <2>1
  <2> HIDE DEF t, attempts
  <2>4. /\ ask' \in [Asks -> Asking]
        /\ \A q \in Asks : Creating(q)' => ask'[q] = ask[q]
    BY <1>c, <2>1, <2>2, PutIs DEF Creating
  <2>5. /\ code' \in [Signups -> [by : Asks \cup {NoOne}, attempts : Nat]]
        /\ \A u \in Signups : code'[u].by = code[u].by
    BY <1>a, <2>1, <2>3
  <2>6. QED
    BY <1>a, <2>1, <2>4, <2>5, CompaniesStand
<1>9. ASSUME NEW t \in Signups, DropCode(t), UNCHANGED <<tenant, cleanup>>,
             ask' \in [Asks -> Asking],
             \A q \in Asks : Creating(q)' => ask'[q] = ask[q]
      PROVE  AccountsInv'
  <2>1. /\ code' = [code EXCEPT ![t] = NoCode] /\ inbox' = inbox \ {t}
    BY <1>9 DEF DropCode
  <2>2. /\ code' \in [Signups -> [by : Asks \cup {NoOne}, attempts : Nat]]
        /\ \A u \in Signups \ {t} : code'[u] = code[u]
    BY <1>a, <2>1 DEF NoCode
  <2>3. QED
    BY <1>9, <1>a, <2>1, <2>2, CompaniesStand
<1>10. ASSUME NEW r \in Asks, DestroyCode(r) \/ ConsumeCode(r) PROVE AccountsInv'
  <2> DEFINE t == ask[r].of
             rec == [pc |-> "activate", of |-> t]
  <2>1. /\ t \in Signups /\ DropCode(t) /\ UNCHANGED <<tenant, cleanup>>
        /\ Put(r, rec) \/ Put(r, Idle)
    BY <1>10, <1>b DEF DestroyCode, ConsumeCode
  <2>2. rec \in Asking /\ rec.pc # "create"
    BY <2>1 DEF Asking
  <2> HIDE DEF t, rec
  <2>3. QED
    BY <1>9, <1>c, <2>1, <2>2, PutIs DEF Creating
<1>11. ASSUME NEW t \in Signups, ExpireCode(t) PROVE AccountsInv'
  BY <1>9, <1>11, <1>a DEF ExpireCode
<1>12. ASSUME NEW r \in Asks, Activate(r) PROVE AccountsInv'
  <2> DEFINE t == ask[r].of
             row == [tenant[t] EXCEPT !.status = "ACTIVE", !.trial = "on"]
  <2>1. /\ t \in Signups /\ Put(r, Idle) /\ UNCHANGED <<code, inbox, cleanup>>
        /\ tenant' = IF Exists(t) THEN [tenant EXCEPT ![t] = row] ELSE tenant
    BY <1>12, <1>b, <1>a DEF Activate
  <2>2. /\ ask' \in [Asks -> Asking]
        /\ \A q \in Asks : Creating(q)' => ask'[q] = ask[q]
    BY <1>c, <2>1, PutIs DEF Creating
  <2>3. Exists(t) => row \in LiveRow /\ row.status = "ACTIVE"
    <3>1. Exists(t) => tenant[t] \in LiveRow
      BY <1>d, <2>1
    <3>2. QED
      BY <3>1 DEF LiveRow
  <2> HIDE DEF t, row
  <2>4. tenant' \in [Signups -> TenantRow]
    BY <1>a, <2>1, <2>3 DEF TenantRow, LiveRow
  <2>5. \A u \in Signups : /\ u # t => tenant'[u] = tenant[u]
                           /\ ~Exists(u) => tenant'[u] = tenant[u]
                           /\ u = t /\ Exists(u) => tenant'[u] = row
    BY <1>a, <2>1
  <2>6. \A u \in Signups : tenant[u].status = "PENDING_VERIFICATION" =>
          tenant[u].trial = "none" /\ ~tenant[u].data
    BY DEF AccountsInv, AccountsOK
  <2>7. ASSUME NEW u \in Signups, Exists(u)
        PROVE  /\ tenant'[u] \in LiveRow
               /\ tenant'[u].status = "PENDING_VERIFICATION" =>
                    tenant'[u].trial = "none" /\ ~tenant'[u].data
    BY <1>d, <2>3, <2>5, <2>6, <2>7
  <2>8. QED
    BY <2>1, <2>2, <2>4, <2>5, <2>7, CompaniesChange
<1>13. ASSUME NEW t \in Signups, EnterData(t) PROVE AccountsInv'
  <2> DEFINE row == [tenant[t] EXCEPT !.data = TRUE]
  <2>1. /\ Exists(t) /\ tenant[t].status # "PENDING_VERIFICATION"
        /\ tenant' = [tenant EXCEPT ![t] = row]
        /\ UNCHANGED <<code, inbox, ask, cleanup>>
    BY <1>13 DEF EnterData, CheckTenantLock
  <2>2. row \in LiveRow /\ row.status # "PENDING_VERIFICATION"
    BY <1>d, <2>1 DEF LiveRow
  <2> HIDE DEF row
  <2>3. /\ tenant' \in [Signups -> TenantRow] /\ tenant'[t] = row
        /\ \A u \in Signups \ {t} : tenant'[u] = tenant[u]
    BY <1>a, <2>1, <2>2 DEF TenantRow, LiveRow
  <2>4. \A u \in Signups : tenant[u].status = "PENDING_VERIFICATION" =>
          tenant[u].trial = "none" /\ ~tenant[u].data
    BY DEF AccountsInv, AccountsOK
  <2>5. ASSUME NEW u \in Signups, Exists(u)
        PROVE  /\ tenant'[u] \in LiveRow
               /\ tenant'[u].status = "PENDING_VERIFICATION" =>
                    tenant'[u].trial = "none" /\ ~tenant'[u].data
    BY <1>d, <2>2, <2>3, <2>4, <2>5
  <2>6. ask' \in [Asks -> Asking] /\ \A q \in Asks : ask'[q] = ask[q]
    BY <1>a, <2>1
  <2>7. QED
    BY <2>1, <2>3, <2>5, <2>6, CompaniesChange
<1>14. CASE WeekPasses
  <2>1. /\ tenant' = [t \in Signups |-> IF Exists(t) THEN Older(tenant[t])
                                                     ELSE tenant[t]]
        /\ UNCHANGED <<code, inbox, ask, cleanup>>
    BY <1>14 DEF WeekPasses
  <2>2. ASSUME NEW row \in LiveRow
        PROVE  /\ Older(row) \in LiveRow
               /\ Older(row).status = row.status /\ Older(row).data = row.data
               /\ row.trial = "none" => Older(row).trial = "none"
    BY DEF LiveRow, Older
  <2>3. \A u \in Signups : tenant[u].status = "PENDING_VERIFICATION" =>
          tenant[u].trial = "none" /\ ~tenant[u].data
    BY DEF AccountsInv, AccountsOK
  <2>4. \A u \in Signups : tenant'[u] = IF Exists(u) THEN Older(tenant[u])
                                                     ELSE tenant[u]
    BY <2>1
  <2>5. tenant' \in [Signups -> TenantRow]
    <3>1. LiveRow \subseteq TenantRow
      BY DEF LiveRow, TenantRow
    <3>2. ASSUME NEW u \in Signups PROVE tenant'[u] \in TenantRow
      BY <1>a, <1>d, <2>2, <2>4, <3>1
    <3>3. QED
      BY <2>1, <3>2, <2>4
  <2>6. ASSUME NEW u \in Signups, Exists(u)
        PROVE  /\ tenant'[u] \in LiveRow
               /\ tenant'[u].status = "PENDING_VERIFICATION" =>
                    tenant'[u].trial = "none" /\ ~tenant'[u].data
    BY <1>d, <2>2, <2>3, <2>4, <2>6
  <2>7. QED
    BY <1>a, <2>1, <2>4, <2>5, <2>6, CompaniesChange
<1>15. CASE ListAbandoned
  <2>1. /\ cleanup' = {t \in Signups : Abandoned(t)}
        /\ UNCHANGED <<tenant, code, inbox, ask>>
    BY <1>15 DEF ListAbandoned
  <2>2. AccountsOK' /\ CreatesApart'
    BY <2>1 DEF AccountsInv, AccountsOK, CreatesApart, Creating, Abandoned, Exists
  <2>3. QED
    BY <2>2 DEF AccountsInv
<1>16. ASSUME NEW t \in cleanup, DeleteAbandoned(t) PROVE AccountsInv'
  <2>1. t \in Signups /\ Exists(t) /\ cleanup \subseteq Signups
    BY DEF AccountsInv, AccountsOK
  <2>2. /\ cleanup' = cleanup \ {t} /\ UNCHANGED <<code, inbox, ask>>
        /\ tenant' = [tenant EXCEPT ![t] = Deleted] \/ tenant' = tenant
    BY <1>16 DEF DeleteAbandoned
  <2>3. CASE tenant' = tenant
    BY <2>2, <2>3 DEF AccountsInv, AccountsOK, CreatesApart, Creating, Exists
  <2>4. CASE tenant' = [tenant EXCEPT ![t] = Deleted]
    <3>1. /\ Deleted \in TenantRow /\ Deleted.status = "deleted"
      BY DEF TenantRow, Deleted
    <3>2. /\ tenant' \in [Signups -> TenantRow] /\ tenant'[t] = Deleted
          /\ \A u \in Signups \ {t} : tenant'[u] = tenant[u]
      BY <1>a, <2>1, <2>4, <3>1
    <3>3. \A u \in cleanup' : u \in Signups \ {t} /\ Exists(u)'
      BY <2>1, <2>2, <3>2 DEF AccountsInv, AccountsOK, Exists
    <3>4. AccountsOK'
      BY <2>1, <2>2, <3>1, <3>2, <3>3 DEF AccountsInv, AccountsOK
    <3>5. CreatesApart'
      <4>1. \A r \in Asks : Creating(r) => ask[r].of \in Signups \ {t}
        BY <1>b, <2>1 DEF AccountsInv, CreatesApart, Creating, Exists, NoTenant
      <4>2. QED
        BY <2>2, <3>2, <4>1 DEF AccountsInv, CreatesApart, Creating
    <3>6. QED
      BY <3>4, <3>5 DEF AccountsInv
  <2>5. QED
    BY <2>2, <2>3, <2>4
<1>17. CASE ServerStops
  <2>1. /\ UNCHANGED <<tenant, code, inbox>> /\ cleanup' = {}
        /\ ask' = [r \in Asks |-> Idle]
    BY <1>17 DEF ServerStops
  <2>2. AccountsOK'
    BY <2>1 DEF AccountsInv, AccountsOK
  <2>3. CreatesApart'
    BY <2>1 DEF CreatesApart, Creating, Idle
  <2>4. QED
    BY <2>2, <2>3 DEF AccountsInv
<1>18. CASE UNCHANGED accounts
  BY <1>18, <1>a, CompaniesStand DEF accounts
<1>19. QED
  BY <1>1, <1>2, <1>3, <1>4, <1>5, <1>6, <1>7, <1>8, <1>10, <1>11, <1>12,
     <1>13, <1>14, <1>15, <1>16, <1>17, <1>18
  DEF AccountsNext, RequestGoesOn

LEMMA AccountsAlwaysInv == Spec => []AccountsInv
<1>1. AccountsInit => AccountsInv
  <2> USE DEF AccountsInit, NoTenant, Idle, NoCode
  <2>1. AccountsInit => AccountsOK
    BY DEF AccountsOK, TenantRow
  <2>2. AccountsInit => CreatesApart
    BY DEF CreatesApart, Creating
  <2>3. QED
    BY <2>1, <2>2 DEF AccountsInv
<1>2. QED
  BY <1>1, PartsAlone, AccountsInvKept, PTL

-----------------------------------------------------------------------------
(***************************************************************************)
(* The rows of the six parts, and what their requests hold, have their     *)
(* types, and what goes with a status goes with it.                        *)
(***************************************************************************)
THEOREM BackOfficeTypes == Spec => []TypeOK
<1>1. DigestsInv => DigestsOK
  <2> SUFFICES ASSUME DigestsInv PROVE DigestsOK
    OBVIOUS
  <2>1. DigestTypes
    BY DEF DigestsInv
  <2>2. ASSUME NEW n \in Scans, scan[n] # AtRest
        PROVE  /\ scan[n].of \in Tenants /\ scan[n].keys \subseteq Keys
               /\ scan[n].day \in 1 .. Days
               /\ HeldBy(n) # {} <=> scan[n].pc \in {"address", "mail", "record"}
    <3>1. scan[n] \in Scanning
      BY <2>1, <2>2 DEF DigestTypes
    <3>2. scan[n].pc \in {"address", "mail", "record"} => scan[n].keys # {}
      BY <2>1 DEF DigestTypes
    <3>3. QED
      BY <3>1, <3>2 DEF Scanning, HeldBy
  <2>3. QED
    BY <2>1, <2>2 DEF DigestTypes, DigestsOK
<1>2. AccountsInv /\ DigestsInv /\ ListsInv /\ GpsInv /\ MapOK /\ ImportsInv => TypeOK
  BY <1>1 DEF AccountsInv, ListsInv, GpsInv, GpsTypes, ImportsInv, TypeOK
<1>3. QED
  BY <1>2, AccountsAlwaysInv, DigestsAlwaysInv, ListsAlwaysInv, GpsAlwaysInv,
     MapAlwaysOK, ImportsAlwaysInv, PTL
=============================================================================
