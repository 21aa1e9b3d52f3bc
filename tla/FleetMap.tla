------------------------------ MODULE FleetMap ------------------------------
(***************************************************************************)
(* Where a vehicle is shown: current-position.ts, over the fixes that the  *)
(* driver's phone and the vehicle's device have reported, each known by    *)
(* its source and its minute (gps.service.ts).  A phone that was out of    *)
(* reach sends what it has buffered late; a batch sent again stores again  *)
(* what is there already, which a set does not show.                       *)
(***************************************************************************)
EXTENDS Integers, FiniteSets

CONSTANTS
  GPS_STALE_AFTER_MINUTES, DEVICE_PREFERENCE_WINDOW_MINUTES,
  MaxNow          \* bound: minutes

ASSUME MinutesAssumption ==
  /\ {GPS_STALE_AFTER_MINUTES, DEVICE_PREFERENCE_WINDOW_MINUTES} \subseteq Nat
  /\ MaxNow \in Nat \ {0}

VARIABLES
  now,
  track,          \* the vehicle's fixes
  onDuty          \* the driver has an assignment on it today

fleetMap == <<now, track, onDuty>>

Sources == {"PHONE", "DEVICE"}
Minutes == 1 .. MaxNow
MinutesOf(fs) == {f[2] : f \in fs}
Newest(fs) == CHOOSE m \in MinutesOf(fs) : \A k \in MinutesOf(fs) : k <= m

(***************************************************************************)
(* resolveCurrentPosition: the newest fix, or the newest of the device     *)
(* when that is within the window before it (mutant: when it is not stale  *)
(* itself).  The code looks only among the twenty newest fixes; here the   *)
(* device's is found however many of the phone's came after it.            *)
(***************************************************************************)
Offline(fs, t) ==
  fs = {} \/ Newest(fs) < t - GPS_STALE_AFTER_MINUTES

Preferred_WhileNotStale(fs, t) ==
  {f \in fs : f[1] = "DEVICE" /\ f[2] >= t - GPS_STALE_AFTER_MINUTES}
Preferred(fs, t) ==
  {f \in fs : /\ f[1] = "DEVICE"
              /\ f[2] >= Newest(fs) - DEVICE_PREFERENCE_WINDOW_MINUTES}

ResolveCurrentPosition(fs, t) ==
  Newest(IF Preferred(fs, t) = {} THEN fs ELSE Preferred(fs, t))

(***************************************************************************)
(* recordPhoneFixes: a batch of whatever minutes; the fixes of a day       *)
(* without an assignment are discarded.  The poll stores a device's last   *)
(* position if it is newer than the device's others.                       *)
(***************************************************************************)
RecordPhoneFixes(batch) ==
  /\ track' = IF onDuty THEN track \cup ({"PHONE"} \X batch) ELSE track
  /\ UNCHANGED <<now, onDuty>>

StoreDeviceFix(m) ==
  /\ m <= now /\ \A f \in track : f[1] = "DEVICE" => f[2] < m
  /\ track' = track \cup {<<"DEVICE", m>>}
  /\ UNCHANGED <<now, onDuty>>

MinutePasses ==
  /\ now < MaxNow /\ now' = now + 1
  /\ UNCHANGED <<track, onDuty>>

AssignmentChanges ==
  /\ onDuty' = ~onDuty
  /\ UNCHANGED <<now, track>>

MapInit == now = 1 /\ track = {} /\ onDuty = FALSE

MapNext ==
  \/ \E batch \in SUBSET (1 .. now) : RecordPhoneFixes(batch)
  \/ \E m \in Minutes : StoreDeviceFix(m)
  \/ MinutePasses \/ AssignmentChanges
=============================================================================
