---------------------------- MODULE TenantCache -----------------------------
(***************************************************************************)
(* The shared cache of a tenant's lists (tenant-cache.service.ts) and the  *)
(* services that keep lists in it.  A behaviour follows one key of one     *)
(* tenant, `resource`; the list in the database is known by its version.   *)
(***************************************************************************)
EXTENDS Integers, FiniteSets

CONSTANTS
  Resources,      \* the lists of interest
  Readers, Writers,
  MaxVersion, MaxLost \* bounds: writes, and stops of the server

VARIABLES
  resource,
  version,        \* of the rows in the database
  entry,          \* the version under the key, NoEntry when there is none
  reader, writer, \* what the requests in flight hold
  late,           \* the entry was out of date when it was stored
  unsaid,         \* versions whose write told the cache nothing
  lost

lists == <<resource, version, entry, reader, writer, late, unsaid, lost>>

CachedLists == {"motorcycles", "drivers", "assignments", "settings", "billing"}
ASSUME ResourcesAssumption == Resources \subseteq CachedLists

NoEntry == 0
Waiting == [pc |-> "idle"]

(***************************************************************************)
(* Who invalidates: the services' own create, update, deactivate,          *)
(* reactivate and delete.  Who writes the rows and does not: the bulk      *)
(* import (vehicles, drivers), a service's odometer reading (vehicles), a  *)
(* password reset (a driver's user), the generator and a new plan (rows of *)
(* assignments), and whatever changes what a company is billed for.        *)
(***************************************************************************)
Invalidated == {"motorcycles", "drivers", "assignments", "settings"}
Unannounced == {"motorcycles", "drivers", "assignments", "billing"}

(***************************************************************************)
(* list: get, which answers with the entry when there is one; on a miss    *)
(* the query, then set.                                                    *)
(***************************************************************************)
GetMiss(r) ==
  /\ reader[r] = Waiting /\ entry = NoEntry
  /\ reader' = [reader EXCEPT ![r] = [pc |-> "query"]]
  /\ UNCHANGED <<resource, version, entry, writer, late, unsaid, lost>>

Query(r) ==
  /\ reader[r].pc = "query"
  /\ reader' = [reader EXCEPT ![r] = [pc |-> "set", list |-> version]]
  /\ UNCHANGED <<resource, version, entry, writer, late, unsaid, lost>>

SetEntry(r) ==
  /\ reader[r].pc = "set"
  /\ entry' = reader[r].list
  /\ late' = (reader[r].list # version)
  /\ reader' = [reader EXCEPT ![r] = Waiting]
  /\ UNCHANGED <<resource, version, writer, unsaid, lost>>

(***************************************************************************)
(* A write, and then its invalidation (mutant: it is forgotten).           *)
(***************************************************************************)
Write_AndForget(w) ==
  /\ writer[w] = Waiting /\ version < MaxVersion
  /\ resource \in Invalidated
  /\ version' = version + 1
  /\ UNCHANGED <<resource, entry, reader, writer, late, unsaid, lost>>
Write(w) ==
  /\ writer[w] = Waiting /\ version < MaxVersion
  /\ resource \in Invalidated
  /\ version' = version + 1
  /\ writer' = [writer EXCEPT ![w] = [pc |-> "invalidate", of |-> version + 1]]
  /\ UNCHANGED <<resource, entry, reader, late, unsaid, lost>>

Invalidate(w) ==
  /\ writer[w].pc = "invalidate"
  /\ entry' = NoEntry /\ late' = FALSE
  /\ writer' = [writer EXCEPT ![w] = Waiting]
  /\ UNCHANGED <<resource, version, reader, unsaid, lost>>

WriteUnannounced ==
  /\ resource \in Unannounced /\ version < MaxVersion
  /\ version' = version + 1
  /\ unsaid' = unsaid \cup {version + 1}
  /\ UNCHANGED <<resource, entry, reader, writer, late, lost>>

(* TENANT_CACHE_TTL_MS passes.                                             *)
Expire ==
  /\ entry # NoEntry
  /\ entry' = NoEntry /\ late' = FALSE
  /\ UNCHANGED <<resource, version, reader, writer, unsaid, lost>>

(* The server stops; the cache does not: writes not announced yet are      *)
(* never.                                                                  *)
RequestsLost ==
  /\ lost < MaxLost /\ lost' = lost + 1
  /\ unsaid' = unsaid \cup
       {writer[w].of : w \in {u \in Writers : writer[u] # Waiting}}
  /\ reader' = [r \in Readers |-> Waiting]
  /\ writer' = [w \in Writers |-> Waiting]
  /\ UNCHANGED <<resource, version, entry, late>>

(***************************************************************************)
ListsInit ==
  /\ resource \in Resources
  /\ version = 1 /\ entry = NoEntry /\ late = FALSE /\ unsaid = {} /\ lost = 0
  /\ reader = [r \in Readers |-> Waiting]
  /\ writer = [w \in Writers |-> Waiting]

ListsNext ==
  \/ \E r \in Readers : GetMiss(r) \/ Query(r) \/ SetEntry(r)
  \/ \E w \in Writers : Write(w) \/ Invalidate(w)
  \/ WriteUnannounced \/ Expire \/ RequestsLost
=============================================================================
