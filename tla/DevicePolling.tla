--------------------------- MODULE DevicePolling ----------------------------
(***************************************************************************)
(* The poll of a fleet's GPS devices: gps-device-polling.service.ts.  The  *)
(* company's Traccar server knows the last position of each device, here   *)
(* by its time; a cron job fetches them every few minutes and stores those *)
(* that are newer than what the vehicle has.  Nothing keeps two polls      *)
(* apart when one takes longer than the interval.                          *)
(***************************************************************************)
EXTENDS Integers, FiniteSets

CONSTANTS
  Bikes,
  Polls,          \* polls that may overlap
  MaxTime,        \* bound: times of positions
  MaxBreaks       \* bound: polls broken off

ASSUME MaxTimeAssumption == MaxTime \in Nat

VARIABLES
  position,       \* position[b]: Traccar's for b's device, 0 when there is none
  paired,         \* the vehicles whose gpsDeviceId is that of the device
  fixes,          \* fixes[b][t]: rows of gps_locations
  provider,       \* the last poll's outcome on the provider's row
  poll,           \* poll[p]: what poll p holds
  overlapped,     \* fixes that two polls held together
  breaks

gps == <<position, paired, fixes, provider, poll, overlapped, breaks>>

Times == 1 .. MaxTime
NotPolling == [pc |-> "rest"]
Polling(p, rec) == poll' = [poll EXCEPT ![p] = rec]

Stored(b) == {t \in Times : fixes[b][t] > 0}
Latest(b) == CHOOSE t \in Stored(b) \cup {0} : \A u \in Stored(b) : u <= t

ScanAll(p) ==
  /\ poll[p] = NotPolling
  /\ Polling(p, [pc |-> "fetch"])
  /\ UNCHANGED <<position, paired, fixes, provider, overlapped, breaks>>

(* pollTenantConfig: devices and positions, or what went wrong.            *)
GetPositions(p) ==
  /\ poll[p].pc = "fetch"
  /\ Polling(p, [pc |-> "match", at |-> position])
  /\ UNCHANGED <<position, paired, fixes, provider, overlapped, breaks>>

PollFails(p) ==
  /\ poll[p].pc = "fetch"
  /\ Polling(p, [pc |-> "recordFailure"])
  /\ UNCHANGED <<position, paired, fixes, provider, overlapped, breaks>>

RecordFailure(p) ==
  /\ poll[p].pc = "recordFailure"
  /\ provider' = "failure"
  /\ Polling(p, NotPolling)
  /\ UNCHANGED <<position, paired, fixes, overlapped, breaks>>

(***************************************************************************)
(* writeMatchedFixes: the vehicles of the devices; the latest fix of each; *)
(* the rows that are newer, in one insert (mutant: not older).             *)
(***************************************************************************)
MatchVehicles(p) ==
  /\ poll[p].pc = "match"
  /\ LET at == poll[p].at
         matched == {b \in paired : at[b] # 0}
     IN  Polling(p, IF matched = {} THEN [pc |-> "success"]
                    ELSE [pc |-> "latest",
                          matched |-> {<<b, at[b]>> : b \in matched}])
  /\ UNCHANGED <<position, paired, fixes, provider, overlapped, breaks>>

Newer_OrTheSame(f) == f[2] >= Latest(f[1])
Newer(f) == f[2] > Latest(f[1])

ToInsert(p) == IF poll[p].pc = "insert" THEN poll[p].rows ELSE {}

ReadLatest(p) ==
  /\ poll[p].pc = "latest"
  /\ LET rows == {f \in poll[p].matched : Newer(f)}
     IN  /\ Polling(p, IF rows = {} THEN [pc |-> "success"]
                       ELSE [pc |-> "insert", rows |-> rows])
         /\ overlapped' = overlapped \cup
              (rows \cap UNION {ToInsert(q) : q \in Polls \ {p}})
  /\ UNCHANGED <<position, paired, fixes, provider, breaks>>

InsertFixes(p) ==
  /\ poll[p].pc = "insert"
  /\ fixes' = [b \in Bikes |-> [t \in Times |->
                 fixes[b][t] + (IF <<b, t>> \in poll[p].rows THEN 1 ELSE 0)]]
  /\ Polling(p, [pc |-> "success"])
  /\ UNCHANGED <<position, paired, provider, overlapped, breaks>>

RecordSuccess(p) ==
  /\ poll[p].pc = "success"
  /\ provider' = "success"
  /\ Polling(p, NotPolling)
  /\ UNCHANGED <<position, paired, fixes, overlapped, breaks>>

(* A statement throws, or the server stops: what is stored stays.          *)
PollBreaksOff(p) ==
  /\ poll[p] # NotPolling /\ breaks < MaxBreaks
  /\ breaks' = breaks + 1
  /\ Polling(p, NotPolling)
  /\ UNCHANGED <<position, paired, fixes, provider, overlapped>>

(***************************************************************************)
(* A device reports, a vehicle is paired with its device or unpaired.      *)
(***************************************************************************)
Report(b) ==
  /\ position[b] < MaxTime
  /\ position' = [position EXCEPT ![b] = @ + 1]
  /\ UNCHANGED <<paired, fixes, provider, poll, overlapped, breaks>>

PairDevice(b) ==
  /\ paired' = IF b \in paired THEN paired \ {b} ELSE paired \cup {b}
  /\ UNCHANGED <<position, fixes, provider, poll, overlapped, breaks>>

GpsInit ==
  /\ position = [b \in Bikes |-> 0] /\ paired = {}
  /\ fixes = [b \in Bikes |-> [t \in Times |-> 0]]
  /\ provider = "never" /\ poll = [p \in Polls |-> NotPolling]
  /\ overlapped = {} /\ breaks = 0

GpsNext ==
  \/ \E p \in Polls :
       \/ ScanAll(p) \/ GetPositions(p) \/ PollFails(p) \/ RecordFailure(p)
       \/ MatchVehicles(p) \/ ReadLatest(p) \/ InsertFixes(p)
       \/ RecordSuccess(p) \/ PollBreaksOff(p)
  \/ \E b \in Bikes : Report(b) \/ PairDevice(b)
=============================================================================
