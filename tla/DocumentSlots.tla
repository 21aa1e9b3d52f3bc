--------------------------- MODULE DocumentSlots ----------------------------
(***************************************************************************)
(* One document of a driver or a vehicle: DocumentSlot.tsx in the hands of *)
(* several members of the office, and document.service.ts with its rows    *)
(* and files.  A new document replaces the one on the page by an upload    *)
(* followed by a deletion; the page shows the newest row.                  *)
(***************************************************************************)
EXTENDS Integers, Sequences, FiniteSets, SequencesExt

CONSTANTS
  Clerks,
  MaxDocuments,   \* bound: documents uploaded
  MaxOutages      \* bound: stops of the server, failed writes, lost answers

VARIABLES
  filed,          \* the rows ever created, in the order of uploadedAt
  erased,         \* those of them that were deleted
  disk,           \* the documents whose file is stored
  existing,       \* existing[c]: the document on the page of clerk c
  clerk,          \* clerk[c]: his request in flight
  made,           \* documents uploaded so far
  unwanted,       \* documents that somebody asked to delete
  outages

slots == <<filed, erased, disk, existing, clerk, made, unwanted, outages>>

NoDocument == 0
AtEase == [pc |-> "rest"]

(* list: newest first, of which the page takes the first of its kind.      *)
Rows == {n \in 1 .. Len(filed) : filed[n] \notin erased}
IsNewest(d) ==
  \/ Rows = {} /\ d = NoDocument
  \/ \E n \in Rows : d = filed[n] /\ \A k \in Rows : k <= n

LoadSlot(c) ==
  /\ clerk[c] = AtEase
  /\ \E d \in ToSet(filed) \cup {NoDocument} :
       /\ IsNewest(d) /\ d # existing[c]
       /\ existing' = [existing EXCEPT ![c] = d]
  /\ UNCHANGED <<filed, erased, disk, clerk, made, unwanted, outages>>

Outage == outages < MaxOutages /\ outages' = outages + 1
Now(c, rec) == clerk' = [clerk EXCEPT ![c] = rec]

(***************************************************************************)
(* handleUpload, of a first document or, with `old`, of its replacement;   *)
(* create: the file is written.                                            *)
(***************************************************************************)
HandleUpload(c) ==
  /\ clerk[c] = AtEase /\ made < MaxDocuments
  /\ made' = made + 1 /\ disk' = disk \cup {made'}
  /\ Now(c, [pc |-> "insert", new |-> made', old |-> existing[c]])
  /\ UNCHANGED <<filed, erased, existing, unwanted, outages>>

(***************************************************************************)
(* The row is created, and the document it replaces is deleted; it stays   *)
(* when the answer is lost, and when the row could not be created (mutant: *)
(* the deletion in a `finally`).                                           *)
(***************************************************************************)
Removing(d) == [pc |-> "find", of |-> d]

InsertDocument(c) ==
  /\ clerk[c].pc = "insert"
  /\ filed' = Append(filed, clerk[c].new)
  /\ \/ /\ Now(c, IF clerk[c].old = NoDocument THEN AtEase
                   ELSE Removing(clerk[c].old))
        /\ UNCHANGED outages
     \/ Now(c, AtEase) /\ Outage
  /\ UNCHANGED <<erased, disk, existing, made, unwanted>>

AfterFailure_Finally(c) ==
  IF clerk[c].old = NoDocument THEN AtEase ELSE Removing(clerk[c].old)
AfterFailure(c) == AtEase

InsertFails(c) ==
  /\ clerk[c].pc = "insert"
  /\ disk' = disk \ {clerk[c].new} /\ Now(c, AfterFailure(c)) /\ Outage
  /\ UNCHANGED <<filed, erased, existing, made, unwanted>>

HandleDelete(c) ==
  /\ clerk[c] = AtEase /\ existing[c] # NoDocument
  /\ unwanted' = unwanted \cup {existing[c]}
  /\ Now(c, Removing(existing[c]))
  /\ UNCHANGED <<filed, erased, disk, existing, made, outages>>

(* remove: the row, the file, the row.                                     *)
FindDocument(c) ==
  /\ clerk[c].pc = "find"
  /\ Now(c, IF clerk[c].of \in erased THEN AtEase
            ELSE [clerk[c] EXCEPT !.pc = "unlink"])
  /\ UNCHANGED <<filed, erased, disk, existing, made, unwanted, outages>>

UnlinkDocument(c) ==
  /\ clerk[c].pc = "unlink"
  /\ \/ disk' = disk \ {clerk[c].of} /\ UNCHANGED outages
     \/ UNCHANGED disk /\ Outage
  /\ Now(c, [clerk[c] EXCEPT !.pc = "erase"])
  /\ UNCHANGED <<filed, erased, existing, made, unwanted>>

EraseDocument(c) ==
  /\ clerk[c].pc = "erase"
  /\ erased' = erased \cup {clerk[c].of} /\ Now(c, AtEase)
  /\ UNCHANGED <<filed, disk, existing, made, unwanted, outages>>

ServerDown ==
  /\ Outage
  /\ clerk' = [c \in Clerks |-> AtEase]
  /\ UNCHANGED <<filed, erased, disk, existing, made, unwanted>>

SlotsInit ==
  /\ filed = <<>> /\ erased = {} /\ disk = {}
  /\ existing = [c \in Clerks |-> NoDocument]
  /\ clerk = [c \in Clerks |-> AtEase]
  /\ made = 0 /\ unwanted = {} /\ outages = 0

SlotsNext ==
  \/ \E c \in Clerks :
       \/ LoadSlot(c)
       \/ HandleUpload(c)
       \/ InsertDocument(c)
       \/ InsertFails(c)
       \/ HandleDelete(c)
       \/ FindDocument(c)
       \/ UnlinkDocument(c)
       \/ EraseDocument(c)
  \/ ServerDown

SlotsSpec == SlotsInit /\ [][SlotsNext]_slots

(***************************************************************************)
(* The document that was filed last can be opened until somebody deletes   *)
(* it: replacing, by several members of the office at once, with failures  *)
(* and stops of the server, never leaves a driver or vehicle without one.  *)
(***************************************************************************)
DocumentsKept ==
  filed # <<>> /\ Last(filed) \notin unwanted => Last(filed) \in disk \ erased
=============================================================================
