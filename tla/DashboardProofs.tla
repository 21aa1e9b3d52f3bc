--------------------------- MODULE DashboardProofs --------------------------
(***************************************************************************)
(* Theorems about the dashboard, for any files, any number of members of   *)
(* the office, any list pages and any bounds; and, with the theorems about *)
(* the app, about the two together.                                        *)
(***************************************************************************)
EXTENDS DriverAppProofs

(***************************************************************************)
(* A behaviour that follows one client is a behaviour of each part of the  *)
(* dashboard: the others leave it alone.                                   *)
(***************************************************************************)
LEMMA ReviewsAlone == ClientsSpec => ReviewsSpec
<1>1. ClientsInit => ReviewsInit
  BY DEF ClientsInit
<1>2. [ClientsNext]_allVars => [ReviewsNext]_reviews
  BY DEF ClientsNext, allVars, App, OnPages, InReviews, InSlots
<1>3. QED
  BY <1>1, <1>2, PTL DEF ClientsSpec, ReviewsSpec

LEMMA SlotsAlone == ClientsSpec => SlotsSpec
<1>1. ClientsInit => SlotsInit
  BY DEF ClientsInit
<1>2. [ClientsNext]_allVars => [SlotsNext]_slots
  BY DEF ClientsNext, allVars, App, OnPages, InReviews, InSlots
<1>3. QED
  BY <1>1, <1>2, PTL DEF ClientsSpec, SlotsSpec

-----------------------------------------------------------------------------
(***************************************************************************)
(* The review dialogs: what is on the screen, and on its way to the server. *)
(***************************************************************************)
Commits == [pc : {"sent", "taken"}, file : Files, by : Files]

ReviewsInv ==
  /\ file \in Files \cup {NoFile} /\ preview \in Files \cup {NoFile}
  /\ reading \in Files \cup {NoFile}
  /\ sending \in {NotSending} \cup Commits
  /\ result \in Files \cup {NoFile}
  /\ recorded \subseteq [file : Files, by : Files]

LEMMA ReviewsInvInit == ReviewsInit => ReviewsInv
BY DEF ReviewsInit, ReviewsInv, NotSending

LEMMA ReviewsInvKept == ReviewsInv /\ [ReviewsNext]_reviews => ReviewsInv'
<1> SUFFICES ASSUME ReviewsInv, [ReviewsNext]_reviews PROVE ReviewsInv'
  OBVIOUS
<1> USE DEF ReviewsInv, NotSending, Commits
<1>1. ASSUME NEW f \in Files \cup {NoFile}, ChooseFile(f) PROVE ReviewsInv'
  BY <1>1 DEF ChooseFile
<1>2. CASE RunPreview
  BY <1>2 DEF RunPreview
<1>3. CASE PreviewAnswered
  BY <1>3 DEF PreviewAnswered
<1>4. CASE PreviewFails
  BY <1>4 DEF PreviewFails
<1>5. CASE RunCommit
  BY <1>5 DEF RunCommit
<1>6. CASE CommitTaken
  BY <1>6 DEF CommitTaken
<1>7. CASE CommitAnswered
  BY <1>7 DEF CommitAnswered
<1>8. CASE CommitFails
  BY <1>8 DEF CommitFails
<1>9. CASE CloseDialog
  BY <1>9 DEF CloseDialog
<1>10. CASE UNCHANGED reviews
  BY <1>10 DEF reviews
<1>11. QED
  BY <1>1, <1>2, <1>3, <1>4, <1>5, <1>6, <1>7, <1>8, <1>9, <1>10 DEF ReviewsNext

-----------------------------------------------------------------------------
(***************************************************************************)
(* The documents.  A request that is about to remove one removes one that  *)
(* somebody asked to delete, or that a later one has replaced; a request   *)
(* about to insert one has its file on disk, and it is nobody else's.      *)
(***************************************************************************)
RowsEver == ToSet(filed)
Removes(r) == [pc : {"find", "unlink", "erase"}, of : r]
Inserts == [pc : {"insert"}, new : Nat \ {0}, old : RowsEver \cup {NoDocument}]

SlotsTypes ==
  /\ filed \in Seq(Nat \ {0}) /\ made \in Nat
  /\ erased \subseteq RowsEver
  /\ \A d \in RowsEver : d <= made
  /\ existing \in [Clerks -> RowsEver \cup {NoDocument}]
  /\ clerk \in [Clerks -> {AtEase} \cup Removes(RowsEver) \cup Inserts]

Waiting(c) == clerk[c].pc = "insert"
Going(c) == clerk[c].pc \in {"find", "unlink", "erase"}

FilesOfInserts ==
  \A c \in Clerks : Waiting(c) =>
    /\ clerk[c].new \in disk \ RowsEver /\ clerk[c].new <= made
    /\ \A b \in Clerks : Waiting(b) /\ clerk[b].new = clerk[c].new => b = c

RemovesTheOld ==
  \A c \in Clerks : Going(c) =>
    clerk[c].of \in unwanted \/ clerk[c].of # Last(filed)

SlotsInv ==
  SlotsTypes /\ FilesOfInserts /\ RemovesTheOld /\ DocumentsKept

LEMMA SlotsInvInit == SlotsInit => SlotsInv
BY DEF SlotsInit, SlotsInv, SlotsTypes, FilesOfInserts, RemovesTheOld,
       DocumentsKept, Waiting, Going, AtEase, NoDocument, RowsEver, ToSet

(* What an append does to the set of the rows and to the last of them.     *)
LEMMA AppendFiled ==
  ASSUME NEW s \in Seq(Nat \ {0}), NEW d \in Nat \ {0}
  PROVE  /\ Append(s, d) \in Seq(Nat \ {0}) /\ Append(s, d) # <<>>
         /\ ToSet(Append(s, d)) = ToSet(s) \cup {d}
         /\ Last(Append(s, d)) = d
<1> DEFINE t == Append(s, d)
<1>1. /\ t \in Seq(Nat \ {0}) /\ Len(t) = Len(s) + 1
      /\ \A i \in 1 .. Len(s) : t[i] = s[i]
      /\ t[Len(s) + 1] = d
  OBVIOUS
<1>2. DOMAIN t = 1 .. Len(s) + 1 /\ DOMAIN s = 1 .. Len(s) /\ Len(s) \in Nat
  BY <1>1
<1> HIDE DEF t
<1>3. ToSet(t) = {t[i] : i \in 1 .. Len(s) + 1}
  BY <1>2 DEF ToSet
<1>4. ToSet(s) = {s[i] : i \in 1 .. Len(s)}
  BY <1>2 DEF ToSet
<1>5. 1 .. Len(s) + 1 = (1 .. Len(s)) \cup {Len(s) + 1}
  BY <1>2
<1>6. ToSet(t) = ToSet(s) \cup {d}
  BY <1>1, <1>3, <1>4, <1>5
<1>7. Last(t) = d /\ t # <<>>
  <2>1. t = <<>> => Len(t) = 0
    OBVIOUS
  <2>2. QED
    BY <1>1, <1>2, <2>1 DEF Last
<1>8. QED
  BY <1>1, <1>6, <1>7 DEF t

LEMMA LastIsFiled ==
  ASSUME NEW s \in Seq(Nat \ {0}), s # <<>> PROVE Last(s) \in ToSet(s)
<1>1. Len(s) \in DOMAIN s
  OBVIOUS
<1>2. QED
  BY <1>1 DEF Last, ToSet

(* Every action of the pages and of the server keeps the invariant.        *)
LEMMA SlotsInvKept == SlotsInv /\ [SlotsNext]_slots => SlotsInv'
<1> SUFFICES ASSUME SlotsInv, [SlotsNext]_slots PROVE SlotsInv'
  OBVIOUS
<1> USE DEF SlotsInv, Waiting, Going, AtEase, NoDocument
<1>1. ASSUME NEW c \in Clerks, LoadSlot(c) PROVE SlotsInv'
  BY <1>1 DEF LoadSlot, SlotsTypes, FilesOfInserts, RemovesTheOld,
              DocumentsKept, RowsEver, Removes, Inserts
<1>2. ASSUME NEW c \in Clerks, HandleUpload(c) PROVE SlotsInv'
  <2>1. SlotsTypes'
    <3> DEFINE r == [pc |-> "insert", new |-> made', old |-> existing[c]]
    <3>1. /\ made \in Nat /\ made' = made + 1
          /\ existing[c] \in RowsEver \cup {NoDocument}
      BY <1>2 DEF HandleUpload, SlotsTypes
    <3>2. made' \in Nat \ {0}
      BY <3>1
    <3>3. r \in Inserts
      BY <3>1, <3>2 DEF Inserts
    <3>4. clerk' = [clerk EXCEPT ![c] = r] /\ UNCHANGED <<filed, erased, existing>>
      BY <1>2 DEF HandleUpload, Now
    <3>5. RowsEver' = RowsEver /\ Inserts' = Inserts
      BY <3>4 DEF RowsEver, Inserts
    <3> HIDE DEF r
    <3>6. clerk' \in [Clerks -> {AtEase} \cup Removes(RowsEver) \cup Inserts]
      BY <3>3, <3>4 DEF SlotsTypes
    <3>7. \A d \in RowsEver : d <= made'
      <4>1. RowsEver \subseteq Nat
        BY DEF SlotsTypes, RowsEver, ToSet
      <4>2. QED
        BY <3>1, <4>1 DEF SlotsTypes
    <3>8. QED
      BY <3>2, <3>4, <3>5, <3>6, <3>7 DEF SlotsTypes
  <2>2. FilesOfInserts'
    <3>1. /\ made \in Nat /\ made' = made + 1 /\ disk' = disk \cup {made'}
          /\ RowsEver' = RowsEver /\ \A d \in RowsEver : d \in Nat /\ d <= made
      BY <1>2 DEF HandleUpload, SlotsTypes, RowsEver, ToSet
    <3>2. /\ clerk'[c].pc = "insert" /\ clerk'[c].new = made'
          /\ \A b \in Clerks : b # c => clerk'[b] = clerk[b]
      BY <1>2 DEF HandleUpload, Now, SlotsTypes
    <3>3. \A b \in Clerks : Waiting(b) => clerk[b].new \in Nat
      BY DEF SlotsTypes, Removes, Inserts
    <3>4. QED
      BY <3>1, <3>2, <3>3 DEF FilesOfInserts
  <2>3. RemovesTheOld'
    BY <1>2 DEF HandleUpload, Now, SlotsTypes, RowsEver, Removes, Inserts,
                RemovesTheOld
  <2>4. DocumentsKept'
    BY <1>2 DEF HandleUpload, DocumentsKept
  <2>5. QED
    BY <2>1, <2>2, <2>3, <2>4
<1>3. ASSUME NEW c \in Clerks, InsertDocument(c) PROVE SlotsInv'
  <2> DEFINE d == clerk[c].new
             old == clerk[c].old
  <2>1. Waiting(c) /\ filed' = Append(filed, d) /\ d \in disk \ RowsEver /\ d <= made
    BY <1>3 DEF InsertDocument, FilesOfInserts
  <2>2. clerk[c] \in Inserts
    BY <2>1 DEF SlotsTypes, Removes
  <2>3. d \in Nat \ {0} /\ old \in RowsEver \cup {NoDocument}
    BY <2>2 DEF Inserts
  <2>4. filed \in Seq(Nat \ {0})
    BY DEF SlotsTypes
  <2>5. /\ filed' \in Seq(Nat \ {0}) /\ filed' # <<>>
        /\ RowsEver' = RowsEver \cup {d} /\ Last(filed') = d
    BY <2>1, <2>3, <2>4, AppendFiled DEF RowsEver
  <2>6. UNCHANGED <<erased, disk, existing, made, unwanted>>
    BY <1>3 DEF InsertDocument
  <2>7. clerk \in [Clerks -> {AtEase} \cup Removes(RowsEver) \cup Inserts]
    BY DEF SlotsTypes
  <2>8. \A b \in Clerks : b # c => clerk'[b] = clerk[b]
    BY <1>3, <2>7 DEF InsertDocument, Now
  <2>9. \/ clerk'[c] = AtEase
        \/ old \in RowsEver /\ clerk'[c] = Removing(old)
    <3>1. CASE old = NoDocument
      BY <1>3, <2>7, <3>1 DEF InsertDocument, Now
    <3>2. CASE old # NoDocument
      BY <1>3, <2>3, <2>7, <3>2 DEF InsertDocument, Now
    <3>3. QED
      BY <3>1, <3>2
  <2>10. clerk' \in [Clerks -> {AtEase} \cup Removes(RowsEver') \cup Inserts']
    <3>1. DOMAIN clerk' = Clerks /\ clerk' = [b \in Clerks |-> clerk'[b]]
      BY <1>3, <2>7 DEF InsertDocument, Now
    <3>2. \A b \in Clerks : clerk[b] \in {AtEase} \cup Removes(RowsEver')
                                          \cup Inserts'
      BY <2>5, <2>7 DEF Removes, Inserts
    <3>3. clerk'[c] \in {AtEase} \cup Removes(RowsEver')
      BY <2>5, <2>9 DEF Removing, Removes
    <3>4. QED
      BY <2>8, <3>1, <3>2, <3>3
  <2>11. SlotsTypes'
    BY <2>1, <2>5, <2>6, <2>10 DEF SlotsTypes
  <2>12. FilesOfInserts'
    <3>1. ASSUME NEW b \in Clerks, Waiting(b)'
          PROVE  b # c /\ Waiting(b) /\ clerk'[b].new = clerk[b].new
      <4>1. b # c
        BY <2>9, <3>1 DEF Removing
      <4>2. QED
        BY <2>8, <3>1, <4>1
    <3>2. \A b \in Clerks : Waiting(b) /\ b # c => clerk[b].new # d
      BY <2>1 DEF FilesOfInserts
    <3>3. QED
      BY <2>5, <2>6, <3>1, <3>2 DEF FilesOfInserts
  <2>13. RemovesTheOld'
    <3>1. ASSUME NEW b \in Clerks, Going(b)'
          PROVE  clerk'[b].of \in RowsEver
      <4>1. CASE b = c
        BY <2>9, <3>1, <4>1 DEF Removing
      <4>2. CASE b # c
        BY <2>7, <2>8, <3>1, <4>2 DEF Removes, Inserts
      <4>3. QED
        BY <4>1, <4>2
    <3>2. QED
      BY <2>1, <2>5, <3>1 DEF RemovesTheOld
  <2>14. DocumentsKept'
    BY <2>1, <2>5, <2>6 DEF DocumentsKept, SlotsTypes
  <2>15. QED
    BY <2>11, <2>12, <2>13, <2>14
<1>4. ASSUME NEW c \in Clerks, InsertFails(c) PROVE SlotsInv'
  <2>1. filed # <<>> => Last(filed) \in RowsEver
    BY LastIsFiled DEF SlotsTypes, RowsEver
  <2>2. SlotsTypes'
    BY <1>4 DEF InsertFails, AfterFailure, Now, SlotsTypes, RowsEver, Removes,
                Inserts
  <2>3. FilesOfInserts' /\ RemovesTheOld'
    BY <1>4 DEF InsertFails, AfterFailure, Now, SlotsTypes, RowsEver,
                FilesOfInserts, RemovesTheOld
  <2>4. DocumentsKept'
    BY <1>4, <2>1 DEF InsertFails, FilesOfInserts, DocumentsKept
  <2>5. QED
    BY <2>2, <2>3, <2>4
<1>5. ASSUME NEW c \in Clerks, HandleDelete(c) PROVE SlotsInv'
  BY <1>5 DEF HandleDelete, Now, Removing, SlotsTypes, FilesOfInserts,
              RemovesTheOld, DocumentsKept, RowsEver, Removes, Inserts
<1>6. ASSUME NEW c \in Clerks, FindDocument(c) PROVE SlotsInv'
  BY <1>6 DEF FindDocument, Now, SlotsTypes, FilesOfInserts, RemovesTheOld,
              DocumentsKept, RowsEver, Removes, Inserts
<1>7. ASSUME NEW c \in Clerks, UnlinkDocument(c) PROVE SlotsInv'
  <2>1. Going(c) /\ clerk[c].of \in RowsEver
    BY <1>7 DEF UnlinkDocument, SlotsTypes, Removes, Inserts
  <2>2. SlotsTypes'
    BY <1>7, <2>1 DEF UnlinkDocument, Now, SlotsTypes, RowsEver, Removes, Inserts
  <2>3. FilesOfInserts'
    BY <1>7, <2>1 DEF UnlinkDocument, Now, SlotsTypes, FilesOfInserts, RowsEver,
                      Removes, Inserts
  <2>4. RemovesTheOld'
    BY <1>7, <2>1 DEF UnlinkDocument, Now, SlotsTypes, RemovesTheOld, RowsEver,
                      Removes, Inserts
  <2>5. DocumentsKept'
    BY <1>7, <2>1 DEF UnlinkDocument, RemovesTheOld, DocumentsKept
  <2>6. QED
    BY <2>2, <2>3, <2>4, <2>5
<1>8. ASSUME NEW c \in Clerks, EraseDocument(c) PROVE SlotsInv'
  <2>1. Going(c) /\ clerk[c].of \in RowsEver
    BY <1>8 DEF EraseDocument, SlotsTypes, Removes, Inserts
  <2>2. SlotsTypes' /\ FilesOfInserts' /\ RemovesTheOld'
    BY <1>8, <2>1 DEF EraseDocument, Now, SlotsTypes, FilesOfInserts,
                      RemovesTheOld, RowsEver, Removes, Inserts
  <2>3. DocumentsKept'
    BY <1>8, <2>1 DEF EraseDocument, RemovesTheOld, DocumentsKept
  <2>4. QED
    BY <2>2, <2>3
<1>9. CASE ServerDown
  BY <1>9 DEF ServerDown, SlotsTypes, FilesOfInserts, RemovesTheOld,
              DocumentsKept, RowsEver, Removes, Inserts
<1>10. CASE UNCHANGED slots
  BY <1>10 DEF slots, SlotsTypes, FilesOfInserts, RemovesTheOld,
               DocumentsKept, RowsEver, Removes, Inserts
<1>11. QED
  BY <1>1, <1>2, <1>3, <1>4, <1>5, <1>6, <1>7, <1>8, <1>9, <1>10 DEF SlotsNext

(***************************************************************************)
(* For any number of members of the office and documents, in any           *)
(* interleaving of their requests with failures and stops of the server,   *)
(* the last document is there until somebody asks to delete it.            *)
(***************************************************************************)
THEOREM DocumentsAreKept == ClientsSpec => []DocumentsKept
<1>1. SlotsInv => DocumentsKept
  BY DEF SlotsInv
<1>2. QED
  BY <1>1, SlotsAlone, SlotsInvInit, SlotsInvKept, PTL DEF SlotsSpec
Asks == Filters \cup {"nothing"}
Calls == [write : Mine \cup {"none"}, for : Asks, served : BOOLEAN,
          saw : SUBSET Mine, past : BOOLEAN]
Told == [for : Asks, saw : SUBSET Mine]

PagesTypes ==
  /\ page \in Pages /\ asked \in Asks
  /\ calls \in Seq(Calls) /\ shown \in Told
  /\ settled \in {"fresh", "past", "failed"}
  /\ taken \subseteq Mine /\ sent \subseteq Mine /\ acked \subseteq sent \cap taken

(* What a request has read is of its time, and a write has read itself.    *)
ServedRead ==
  \A i \in 1 .. Len(calls) :
    /\ calls[i].served => calls[i].saw \subseteq taken
    /\ ~IsLoad(i) => calls[i].write \in sent
    /\ ~IsLoad(i) /\ calls[i].served => calls[i].write \in calls[i].saw

(* A page without a filter asks for the same always; one that does not     *)
(* load after a write sends none while it loads.                           *)
PageOfItsKind ==
  /\ page.after = "nothing" => sent = {}
  /\ page.filter = "none" =>
       \A i \in 1 .. Len(calls) : calls[i].for = asked
  /\ page.after \in {"drop", "answer"} =>
       \A i \in 1 .. Len(calls) : IsLoad(i) =>
         Len(calls) = 1 /\ sent = {} /\ shown = Empty
  /\ shown.saw \subseteq taken

(* What the answer to i will show is what the user asked for, or a later   *)
(* load is under way.                                                      *)
LoadAfter(i) == \E j \in 1 .. Len(calls) : j > i /\ IsLoad(j)
UpToDate(i) ==
  calls[i].for = asked /\ (calls[i].served => acked \subseteq calls[i].saw)
NextInLine ==
  /\ \A i \in 1 .. Len(calls) :
       BringsList(i) /\ ~calls[i].past => UpToDate(i) \/ LoadAfter(i)
  /\ settled = "fresh" =>
       \/ shown.for = asked /\ acked \subseteq shown.saw
       \/ LoadAfter(0)

PagesInv == PagesTypes /\ ServedRead /\ PageOfItsKind /\ NextInLine

LEMMA PagesAlone == ClientsSpec => ListPagesInit /\ [][ListPagesNext]_listPages
<1>1. ClientsInit => ListPagesInit
  BY DEF ClientsInit
<1>2. [ClientsNext]_allVars => [ListPagesNext]_listPages
  BY DEF ClientsNext, allVars, App, OnPages, InReviews, InSlots
<1>3. QED
  BY <1>1, <1>2, PTL DEF ClientsSpec

(* What follows a write, and what else has the list loaded.                *)
LEMMA PageKinds ==
  ASSUME page \in Pages
  PROVE  /\ page.filter = "clear" => page.after = "nothing"
         /\ page.after \in {"drop", "answer"} =>
              page.filter = "none" /\ ~ page.polled
         /\ page.after \in {"load", "drop", "answer", "nothing"}
<1> DEFINE Fits(p) ==
             /\ p.filter = "clear" => p.after = "nothing"
             /\ p.after \in {"drop", "answer"} => p.filter = "none" /\ ~ p.polled
             /\ p.after \in {"load", "drop", "answer", "nothing"}
<1>1. Fits(Plain) /\ Fits([Plain EXCEPT !.onError = "empty"])
  BY DEF Plain
<1>2. /\ Fits([Plain EXCEPT !.filter = "change"])
      /\ Fits([Plain EXCEPT !.filter = "change", !.onError = "empty"])
  BY DEF Plain
<1>3. /\ Fits([Plain EXCEPT !.filter = "change", !.after = "nothing"])
      /\ Fits([Plain EXCEPT !.filter = "button", !.after = "nothing"])
  BY DEF Plain
<1>4. /\ Fits([Plain EXCEPT !.polled = TRUE])
      /\ Fits([Plain EXCEPT !.polled = TRUE, !.after = "nothing"])
  BY DEF Plain
<1>5. /\ Fits([Plain EXCEPT !.after = "drop"])
      /\ Fits([Plain EXCEPT !.after = "answer"])
      /\ Fits([Plain EXCEPT !.after = "answer", !.onError = "empty"])
  BY DEF Plain
<1>6. Fits([Plain EXCEPT !.filter = "clear", !.after = "nothing",
                         !.onError = "empty"])
  BY DEF Plain
<1> HIDE DEF Fits
<1>7. Fits(page)
  BY <1>1, <1>2, <1>3, <1>4, <1>5, <1>6, ZenonT(60)
  DEF Pages, ExpenseLedger, ExpenseFigures, PaymentLedger, PaymentsByMethod,
      ServicesDue, ServiceRecords, DriverScoreboard, Fleet, OperationsCenter,
      VehiclePositions, VehiclePath, PendingBadge, DayAssignments, JobBoard,
      PlanBoard, TrackingLinks, ApprovalQueue, Reports, DriverFile,
      GuarantorFile, VehicleFile, PlanRecord, PlanContracts, PlanCalendar,
      ProviderSettings, DriverSearch
<1>8. QED
  BY <1>7 DEF Fits

LEMMA PagesInvInit == ListPagesInit => PagesInv
<1> SUFFICES ASSUME ListPagesInit PROVE PagesInv
  OBVIOUS
<1>1. page \in Pages /\ asked \in Asks
  BY FiltersAssumption DEF ListPagesInit, Asks
<1>2. CASE page.filter = "clear"
  BY <1>1, <1>2, PageKinds DEF ListPagesInit, PagesInv, PagesTypes, ServedRead, PageOfItsKind,
    NextInLine, BringsList, IsLoad, UpToDate, LoadAfter, Told, Empty, Asks
<1>3. CASE page.filter # "clear"
  <2> DEFINE r == Request("none", asked, FALSE)
  <2>1. calls = <<r>> /\ r \in Calls
    BY <1>1, <1>3 DEF ListPagesInit, Request, Calls
  <2> HIDE DEF r
  <2>2. /\ calls \in Seq(Calls) /\ Len(calls) = 1
        /\ calls[1] = r
    BY <2>1
  <2>3. \A i \in 1 .. Len(calls) : i = 1
    BY <2>2
  <2>4. calls[1].write = "none" /\ calls[1].for = asked /\ ~ calls[1].served
    BY <2>2 DEF r, Request
  <2>5. PagesTypes
    BY <1>1, <2>2 DEF ListPagesInit, PagesTypes, Told, Empty, Asks
  <2>6. ServedRead
    BY <2>3, <2>4 DEF ServedRead, IsLoad
  <2>7. PageOfItsKind
    BY <2>2, <2>3, <2>4 DEF PageOfItsKind, ListPagesInit, Empty
  <2>8. NextInLine
    <3>1. 1 \in 1 .. Len(calls) /\ 1 > 0 /\ IsLoad(1)
      BY <2>2, <2>4 DEF IsLoad
    <3>2. LoadAfter(0)
      BY <3>1 DEF LoadAfter
    <3>3. \A i \in 1 .. Len(calls) : UpToDate(i)
      BY <2>3, <2>4 DEF UpToDate
    <3>4. QED
      BY <3>2, <3>3 DEF NextInLine
  <2>9. QED
    BY <2>5, <2>6, <2>7, <2>8 DEF PagesInv
<1>4. QED
  BY <1>2, <1>3

(* The requests that are left when i is answered: the others, in their     *)
(* order, some of them overtaken.                                          *)
From(i, k) == IF k < i THEN k ELSE k + 1
Passed(i, j) == calls[j].past \/ (BringsList(i) /\ Overtakes(i, j))

LEMMA Left ==
  ASSUME PagesTypes, NEW i \in 1 .. Len(calls)
  PROVE  /\ StillOut(i) \in Seq(Calls) /\ Len(StillOut(i)) = Len(calls) - 1
         /\ \A k \in 1 .. Len(calls) - 1 :
              LET r == StillOut(i)[k]
                  s == calls[From(i, k)]
              IN  /\ From(i, k) \in (1 .. Len(calls)) \ {i}
                  /\ r.write = s.write /\ r.for = s.for
                  /\ r.served = s.served /\ r.saw = s.saw
                  /\ r.past <=> Passed(i, From(i, k))
<1> DEFINE n == Len(calls)
           Marked(j) == IF BringsList(i) /\ Overtakes(i, j)
                          THEN [calls[j] EXCEPT !.past = TRUE] ELSE calls[j]
           m == [j \in 1 .. n |-> Marked(j)]
<1>1. n \in Nat /\ \A j \in 1 .. n : calls[j] \in Calls
  BY DEF PagesTypes
<1>2. ASSUME NEW j \in 1 .. n
      PROVE  /\ Marked(j) \in Calls
             /\ Marked(j).write = calls[j].write /\ Marked(j).for = calls[j].for
             /\ Marked(j).served = calls[j].served /\ Marked(j).saw = calls[j].saw
             /\ Marked(j).past <=> Passed(i, j)
  <2> DEFINE c == calls[j]
  <2>1. c \in Calls
    BY <1>1
  <2> HIDE DEF c
  <2>2. /\ [c EXCEPT !.past = TRUE] \in Calls
        /\ [c EXCEPT !.past = TRUE].write = c.write
        /\ [c EXCEPT !.past = TRUE].for = c.for
        /\ [c EXCEPT !.past = TRUE].served = c.served
        /\ [c EXCEPT !.past = TRUE].saw = c.saw
        /\ [c EXCEPT !.past = TRUE].past = TRUE
    BY <2>1 DEF Calls
  <2>3. c.past \in BOOLEAN
    BY <2>1 DEF Calls
  <2>4. CASE BringsList(i) /\ Overtakes(i, j)
    BY <2>2, <2>4 DEF c, Passed
  <2>5. CASE ~ (BringsList(i) /\ Overtakes(i, j))
    BY <2>1, <2>3, <2>5 DEF c, Passed
  <2>6. QED
    BY <2>4, <2>5
<1>3. StillOut(i) = RemoveAt(m, i)
  BY DEF StillOut
<1> HIDE DEF Marked
<1>4. m \in Seq(Calls) /\ Len(m) = n /\ \A j \in 1 .. n : m[j] = Marked(j)
  BY <1>1, <1>2
<1> HIDE DEF m
<1>5. /\ StillOut(i) \in Seq(Calls) /\ Len(StillOut(i)) = n - 1
      /\ \A k \in 1 .. n - 1 :
           StillOut(i)[k] = IF k < i THEN m[k] ELSE m[k + 1]
  BY <1>3, <1>4, ElementsOfRemoveAt
<1>6. \A k \in 1 .. n - 1 : From(i, k) \in (1 .. n) \ {i}
  BY <1>1 DEF From
<1>7. \A k \in 1 .. n - 1 : StillOut(i)[k] = Marked(From(i, k))
  BY <1>4, <1>5, <1>6 DEF From
<1>8. QED
  BY <1>2, <1>5, <1>6, <1>7

(* Each of the others is left, and a later load stays later.               *)
LEMMA LeftBehind ==
  ASSUME PagesTypes, NEW i \in 1 .. Len(calls), NEW j \in (1 .. Len(calls)) \ {i}
  PROVE  \E k \in 1 .. Len(calls) - 1 : From(i, k) = j
<1>1. Len(calls) \in Nat /\ i \in Int /\ j \in Int
  BY DEF PagesTypes
<1>2. CASE j < i
  BY <1>1, <1>2 DEF From
<1>3. CASE j > i
  <2>1. j - 1 \in 1 .. Len(calls) - 1 /\ From(i, j - 1) = j
    BY <1>1, <1>3 DEF From
  <2>2. QED
    BY <2>1
<1>4. QED
  BY <1>1, <1>2, <1>3

LEMMA StaysLater ==
  ASSUME PagesTypes, NEW i \in 1 .. Len(calls), NEW k \in 1 .. Len(calls) - 1,
         LoadAfter(From(i, k)), calls' = StillOut(i) \/ \E c \in Calls : calls' = Append(StillOut(i), c)
  PROVE  LoadAfter(k)' \/ (IsLoad(i) /\ i > From(i, k))
<1>1. PICK j \in 1 .. Len(calls) : j > From(i, k) /\ IsLoad(j)
  BY DEF LoadAfter
<1>2. CASE j = i
  BY <1>1, <1>2
<1>3. CASE j # i
  <2>1. PICK l \in 1 .. Len(calls) - 1 : From(i, l) = j
    BY <1>3, LeftBehind
  <2>2. l > k
    BY <1>1, <2>1 DEF From, PagesTypes
  <2>3. StillOut(i)[l].write = "none" /\ StillOut(i) \in Seq(Calls) /\ Len(StillOut(i)) = Len(calls) - 1
    BY <1>1, <2>1, Left DEF IsLoad
  <2>4. l \in 1 .. Len(calls') /\ calls'[l].write = "none"
    <3> DEFINE q == StillOut(i)
    <3>1. /\ q \in Seq(Calls) /\ l \in 1 .. Len(q) /\ q[l].write = "none"
          /\ calls' = q \/ \E c \in Calls : calls' = Append(q, c)
      BY <2>3
    <3> HIDE DEF q
    <3>2. CASE calls' = q
      BY <3>1, <3>2
    <3>3. ASSUME NEW c \in Calls, calls' = Append(q, c)
          PROVE  l \in 1 .. Len(calls') /\ calls'[l].write = "none"
      BY <3>1, <3>3
    <3>4. QED
      BY <3>1, <3>2, <3>3
  <2>5. QED
    BY <2>2, <2>4 DEF LoadAfter, IsLoad
<1>4. QED
  BY <1>2, <1>3

NextOfAll == \A i \in 1 .. Len(calls) :
  BringsList(i) /\ ~calls[i].past => UpToDate(i) \/ LoadAfter(i)

(* An answer, or a failure, leaves the others in line: also when it tells  *)
(* the user of a write, after which nothing is loaded.                     *)
LEMMA OthersInLine ==
  ASSUME PagesInv, NEW i \in 1 .. Len(calls), calls' = StillOut(i),
         UNCHANGED <<page, asked, taken, sent>>,
         \/ acked' = acked
         \/ /\ ~IsLoad(i) /\ calls[i].served /\ page.after \in {"drop", "answer"}
            /\ acked' = acked \cup {calls[i].write}
  PROVE  /\ calls' \in Seq(Calls) /\ ServedRead' /\ NextOfAll'
         /\ page.filter = "none" =>
              \A k \in 1 .. Len(calls') : calls'[k].for = asked'
         /\ \A k \in 1 .. Len(calls') : calls'[k].write = "none" =>
              page.after \notin {"drop", "answer"}
         /\ acked' \subseteq sent' \cap taken'
<1>1. PagesTypes /\ ServedRead /\ PageOfItsKind /\ NextInLine
  BY DEF PagesInv
<1>2. /\ calls' \in Seq(Calls) /\ Len(calls') = Len(calls) - 1
      /\ \A k \in 1 .. Len(calls') :
           /\ From(i, k) \in (1 .. Len(calls)) \ {i}
           /\ calls'[k].write = calls[From(i, k)].write
           /\ calls'[k].for = calls[From(i, k)].for
           /\ calls'[k].served = calls[From(i, k)].served
           /\ calls'[k].saw = calls[From(i, k)].saw
           /\ calls'[k].past <=> Passed(i, From(i, k))
  <2> DEFINE q == StillOut(i)
  <2>1. /\ q \in Seq(Calls) /\ Len(q) = Len(calls) - 1
        /\ \A k \in 1 .. Len(calls) - 1 :
             /\ From(i, k) \in (1 .. Len(calls)) \ {i}
             /\ q[k].write = calls[From(i, k)].write
             /\ q[k].for = calls[From(i, k)].for
             /\ q[k].served = calls[From(i, k)].served
             /\ q[k].saw = calls[From(i, k)].saw
             /\ q[k].past <=> Passed(i, From(i, k))
    BY <1>1, Left
  <2>2. calls' = q
    OBVIOUS
  <2> HIDE DEF q
  <2>3. QED
    BY <2>1, <2>2
<1>3. Len(calls) \in Nat /\ Len(calls') \in Nat
  BY <1>1, <1>2 DEF PagesTypes
<1>4. ServedRead'
  BY <1>1, <1>2 DEF ServedRead, IsLoad
<1>5. page.filter = "none" => \A k \in 1 .. Len(calls') : calls'[k].for = asked'
  BY <1>1, <1>2 DEF PageOfItsKind
<1>6. ASSUME NEW k \in 1 .. Len(calls'), calls'[k].write = "none",
             page.after \in {"drop", "answer"}
      PROVE  FALSE
  <2>1. IsLoad(From(i, k)) /\ From(i, k) \in 1 .. Len(calls) /\ From(i, k) # i
    BY <1>2, <1>6 DEF IsLoad
  <2>2. Len(calls) = 1
    BY <1>1, <1>6, <2>1 DEF PageOfItsKind
  <2>3. QED
    BY <2>1, <2>2
<1>7. acked' \subseteq sent' \cap taken'
  <2>1. CASE acked' = acked
    BY <1>1, <2>1 DEF PagesTypes
  <2>2. CASE ~IsLoad(i) /\ calls[i].served /\ acked' = acked \cup {calls[i].write}
    BY <1>1, <2>2 DEF PagesTypes, ServedRead
  <2>3. QED
    BY <2>1, <2>2
<1>8. ASSUME NEW k \in 1 .. Len(calls'), BringsList(k)', ~calls'[k].past
      PROVE  UpToDate(k)' \/ LoadAfter(k)'
  <2> DEFINE j == From(i, k)
  <2>1. /\ j \in (1 .. Len(calls)) \ {i} /\ ~ Passed(i, j)
        /\ calls'[k].write = calls[j].write /\ calls'[k].for = calls[j].for
        /\ calls'[k].served = calls[j].served /\ calls'[k].saw = calls[j].saw
    BY <1>2, <1>8
  <2> HIDE DEF j
  <2>2. BringsList(j) /\ ~calls[j].past
    BY <1>8, <2>1 DEF BringsList, IsLoad, Passed
  <2>3. CASE LoadAfter(j)
    <3>1. ~ (IsLoad(i) /\ i > j)
      BY <2>1 DEF Passed, BringsList, Overtakes
    <3>2. k \in 1 .. Len(calls) - 1 /\ LoadAfter(From(i, k))
      BY <1>2, <2>3 DEF j
    <3>3. QED
      BY <1>1, <3>1, <3>2, StaysLater DEF j
  <2>4. CASE UpToDate(j)
    <3>1. CASE acked' = acked
      BY <2>1, <2>4, <3>1 DEF UpToDate
    <3>2. CASE /\ ~IsLoad(i) /\ calls[i].served
               /\ page.after \in {"drop", "answer"}
               /\ acked' = acked \cup {calls[i].write}
      <4>1. sent # {}
        BY <1>1, <3>2 DEF ServedRead
      <4>2. ~IsLoad(j)
        BY <1>1, <2>1, <3>2, <4>1 DEF PageOfItsKind
      <4>3. page.after = "answer"
        BY <2>2, <4>2 DEF BringsList
      <4>4. calls[i].write \in calls[i].saw
        BY <1>1, <3>2 DEF ServedRead
      <4>5. calls[j].served => calls[i].write \in calls[j].saw
        BY <2>1, <3>2, <4>3, <4>4 DEF Passed, BringsList, Overtakes
      <4>6. QED
        BY <2>1, <2>4, <3>2, <4>5 DEF UpToDate
    <3>3. QED
      BY <3>1, <3>2
  <2>5. QED
    BY <1>1, <2>1, <2>2, <2>3, <2>4 DEF NextInLine
<1>9. NextOfAll'
  BY <1>8 DEF NextOfAll
<1>10. QED
  BY <1>2, <1>4, <1>5, <1>6, <1>7, <1>9

(* What comes behind an appended request stays behind it.                  *)
LEMMA Queued ==
  ASSUME PagesTypes, NEW c \in Calls, NEW q \in Seq(Calls), calls' = Append(q, c)
  PROVE  /\ calls' \in Seq(Calls) /\ Len(calls') = Len(q) + 1
         /\ \A k \in 1 .. Len(q) : calls'[k] = q[k]
         /\ calls'[Len(q) + 1] = c
OBVIOUS

(* An answer that brings no list, of a load or of a write.                 *)
LEMMA AnswersKeep ==
  ASSUME PagesInv, NEW i \in 1 .. Len(calls),
         AnswerLoad(i) \/ FailLoad(i) \/ FailWrite(i)
  PROVE  PagesInv'
<1>1. PagesTypes /\ ServedRead /\ PageOfItsKind /\ NextInLine
  BY DEF PagesInv
<1>2. /\ calls' = StillOut(i) /\ acked' = acked
      /\ UNCHANGED <<page, asked, taken, sent>>
  BY DEF AnswerLoad, FailLoad, FailWrite
<1>3. /\ calls' \in Seq(Calls) /\ ServedRead' /\ NextOfAll'
      /\ page.filter = "none" =>
           \A k \in 1 .. Len(calls') : calls'[k].for = asked'
      /\ \A k \in 1 .. Len(calls') : calls'[k].write = "none" =>
           page.after \notin {"drop", "answer"}
      /\ acked' \subseteq sent' \cap taken'
  BY <1>2, OthersInLine
<1>4. calls[i] \in Calls
  BY <1>1 DEF PagesTypes
<1>5. /\ shown' \in Told /\ shown'.saw \subseteq taken'
      /\ settled' \in {"fresh", "past", "failed"}
  <2>1. CASE AnswerLoad(i)
    BY <1>1, <1>4, <2>1 DEF AnswerLoad, Settles, Told, Calls, ServedRead
  <2>2. CASE FailLoad(i)
    BY <1>1, <1>4, <2>2 DEF FailLoad, Told, Calls, PagesTypes, PageOfItsKind
  <2>3. CASE FailWrite(i)
    BY <1>1, <2>3 DEF FailWrite, PagesTypes, PageOfItsKind
  <2>4. QED
    BY <2>1, <2>2, <2>3
<1>6. settled' = "fresh" =>
        \/ shown'.for = asked' /\ acked' \subseteq shown'.saw
        \/ LoadAfter(0)'
  <2> SUFFICES ASSUME settled' = "fresh"
               PROVE  \/ shown'.for = asked' /\ acked' \subseteq shown'.saw
                      \/ LoadAfter(0)'
    OBVIOUS
  <2>1. ASSUME NEW j \in (1 .. Len(calls)) \ {i}, IsLoad(j)
        PROVE  LoadAfter(0)'
    <3>1. PICK k \in 1 .. Len(calls) - 1 : From(i, k) = j
      BY <1>1, LeftBehind
    <3> DEFINE q == StillOut(i)
    <3>2. q[k].write = "none" /\ Len(q) = Len(calls) - 1
      BY <1>1, <2>1, <3>1, Left DEF IsLoad
    <3>3. calls' = q
      BY <1>2
    <3> HIDE DEF q
    <3>4. k \in 1 .. Len(calls') /\ k > 0 /\ calls'[k].write = "none"
      BY <3>2, <3>3
    <3>5. QED
      BY <3>4 DEF LoadAfter, IsLoad
  <2>2. CASE AnswerLoad(i)
    <3>1. ~calls[i].past /\ IsLoad(i) /\ calls[i].served
      BY <2>2 DEF AnswerLoad, Settles
    <3>2. UpToDate(i) \/ LoadAfter(i)
      BY <1>1, <3>1 DEF NextInLine, BringsList
    <3>3. CASE UpToDate(i)
      BY <1>2, <2>2, <3>1, <3>3 DEF UpToDate, AnswerLoad
    <3>4. CASE LoadAfter(i)
      BY <2>1, <3>4 DEF LoadAfter
    <3>5. QED
      BY <3>2, <3>3, <3>4
  <2>3. CASE FailLoad(i)
    BY <2>3 DEF FailLoad
  <2>4. CASE FailWrite(i)
    <3>1. settled = "fresh" /\ UNCHANGED shown /\ ~IsLoad(i)
      BY <2>4 DEF FailWrite
    <3>2. CASE shown.for = asked /\ acked \subseteq shown.saw
      BY <1>2, <3>1, <3>2
    <3>3. CASE LoadAfter(0)
      BY <2>1, <3>1, <3>3 DEF LoadAfter
    <3>4. QED
      BY <1>1, <3>1, <3>2, <3>3 DEF NextInLine
  <2>5. QED
    BY <2>2, <2>3, <2>4
<1>7. PagesTypes'
  BY <1>1, <1>2, <1>3, <1>5 DEF PagesTypes
<1>8. PageOfItsKind'
  BY <1>1, <1>2, <1>3, <1>5 DEF PageOfItsKind, IsLoad
<1>9. NextInLine'
  BY <1>3, <1>6 DEF NextInLine, NextOfAll
<1>10. QED
  BY <1>3, <1>7, <1>8, <1>9 DEF PagesInv

LEMMA AnswerWriteKeeps ==
  ASSUME PagesInv, NEW i \in 1 .. Len(calls), AnswerWrite(i)
  PROVE  PagesInv'
<1>1. PagesTypes /\ ServedRead /\ PageOfItsKind /\ NextInLine
  BY DEF PagesInv
<1>2. /\ acked' = acked \cup {calls[i].write} /\ ~IsLoad(i) /\ calls[i].served
      /\ UNCHANGED <<page, asked, taken, sent>>
  BY DEF AnswerWrite
<1>3. calls[i] \in Calls /\ Len(calls) \in Nat
  BY <1>1 DEF PagesTypes
<1>4. /\ calls[i].write \in sent \cap taken /\ sent # {}
      /\ calls[i].write \in calls[i].saw /\ calls[i].saw \subseteq taken
  BY <1>1, <1>2 DEF ServedRead
<1>5. acked' \subseteq sent' \cap taken'
  BY <1>1, <1>2, <1>4 DEF PagesTypes
<1>6. CASE page.after = "load"
  <2> DEFINE q == StillOut(i)
             c == Load(calls[i].for)
  <2>1. calls' = Append(q, c) /\ UNCHANGED <<shown, settled>>
    BY <1>6 DEF AnswerWrite
  <2>2. /\ c \in Calls /\ c.write = "none" /\ c.for = calls[i].for
        /\ ~c.served /\ (c.past <=> c.for # asked)
    BY <1>3 DEF Load, Request, Calls
  <2>3. /\ q \in Seq(Calls) /\ Len(q) = Len(calls) - 1
        /\ \A k \in 1 .. Len(calls) - 1 :
             /\ From(i, k) \in (1 .. Len(calls)) \ {i}
             /\ q[k].write = calls[From(i, k)].write
             /\ q[k].for = calls[From(i, k)].for
             /\ q[k].served = calls[From(i, k)].served
             /\ q[k].saw = calls[From(i, k)].saw
    BY <1>1, Left
  <2> HIDE DEF q, c
  <2>4. /\ calls' \in Seq(Calls) /\ Len(calls') = Len(q) + 1
        /\ \A k \in 1 .. Len(q) : calls'[k] = q[k]
        /\ calls'[Len(q) + 1] = c
    BY <1>1, <2>1, <2>2, <2>3, Queued
  <2> DEFINE n == Len(calls)
  <2>5. Len(calls') = n /\ calls'[n] = c /\ n \in 1 .. n
        /\ \A k \in 1 .. n - 1 : calls'[k] = q[k]
    BY <1>3, <2>3, <2>4
  <2>6. PagesTypes'
    BY <1>1, <1>2, <1>5, <2>1, <2>4 DEF PagesTypes
  <2>7. \A k \in 1 .. n : k = n \/ k \in 1 .. n - 1
    BY <1>3
  <2>8. ServedRead'
    <3>1. ASSUME NEW k \in 1 .. n
          PROVE  /\ calls'[k].served => calls'[k].saw \subseteq taken'
                 /\ calls'[k].write # "none" => calls'[k].write \in sent'
                 /\ calls'[k].write # "none" /\ calls'[k].served =>
                      calls'[k].write \in calls'[k].saw
      <4>1. CASE k = n
        BY <2>2, <2>5, <4>1
      <4>2. CASE k \in 1 .. n - 1
        <5> DEFINE j == From(i, k)
        <5>1. /\ j \in 1 .. n /\ calls'[k].write = calls[j].write
              /\ calls'[k].served = calls[j].served
              /\ calls'[k].saw = calls[j].saw
          BY <2>3, <2>5, <4>2
        <5> HIDE DEF j
        <5>2. QED
          BY <1>1, <1>2, <5>1 DEF ServedRead, IsLoad
      <4>3. QED
        BY <2>7, <4>1, <4>2
    <3>2. QED
      BY <2>5, <3>1 DEF ServedRead, IsLoad
  <2>9. PageOfItsKind'
    <3>1. ASSUME page.filter = "none", NEW k \in 1 .. n PROVE calls'[k].for = asked
      BY <1>1, <2>2, <2>3, <2>5, <2>7, <3>1 DEF PageOfItsKind
    <3>2. QED
      BY <1>1, <1>2, <1>6, <2>1, <2>5, <3>1 DEF PageOfItsKind
  <2>10. NextInLine'
    <3>1. \A k \in 0 .. n - 1 : LoadAfter(k)'
      BY <2>2, <2>5 DEF LoadAfter, IsLoad
    <3>2. ~calls'[n].past => UpToDate(n)'
      BY <1>2, <2>2, <2>5 DEF UpToDate
    <3>3. \A k \in 1 .. n : k = n \/ k \in 0 .. n - 1
      BY <1>3
    <3>4. 0 \in 0 .. n - 1
      BY <1>3
    <3>5. QED
      BY <2>5, <3>1, <3>2, <3>3, <3>4 DEF NextInLine
  <2>11. QED
    BY <2>6, <2>8, <2>9, <2>10 DEF PagesInv
<1>7. CASE page.after \in {"drop", "answer"}
  <2>1. calls' = StillOut(i)
    BY <1>7 DEF AnswerWrite
  <2>2. /\ calls' \in Seq(Calls) /\ ServedRead' /\ NextOfAll'
        /\ page.filter = "none" =>
             \A k \in 1 .. Len(calls') : calls'[k].for = asked'
        /\ \A k \in 1 .. Len(calls') : calls'[k].write = "none" =>
             page.after \notin {"drop", "answer"}
    BY <1>2, <1>7, <2>1, OthersInLine
  <2>3. ~ LoadAfter(0)
    BY <1>1, <1>4, <1>7 DEF LoadAfter, PageOfItsKind
  <2>4. page.filter = "none"
    BY <1>1, <1>7, PageKinds DEF PagesTypes
  <2>5. calls[i].for = asked
    BY <1>1, <2>4 DEF PageOfItsKind
  <2>6. /\ shown' \in Told /\ shown'.saw \subseteq taken'
        /\ settled' \in {"fresh", "past", "failed"}
        /\ settled' = "fresh" => shown'.for = asked' /\ acked' \subseteq shown'.saw
    <3>1. CASE page.after = "drop"
      <4>1. /\ shown' = [shown EXCEPT !.saw = @ \cup {calls[i].write}]
            /\ settled' = settled
        BY <3>1 DEF AnswerWrite
      <4>2. shown \in Told /\ shown.saw \subseteq taken /\ calls[i].write \in Mine
        BY <1>1, <1>4 DEF PagesTypes, PageOfItsKind
      <4>3. /\ shown' \in Told /\ shown'.for = shown.for
            /\ shown'.saw = shown.saw \cup {calls[i].write}
        BY <4>1, <4>2 DEF Told
      <4>4. QED
        BY <1>1, <1>2, <1>4, <2>3, <4>1, <4>2, <4>3 DEF NextInLine, PagesTypes
    <3>2. CASE page.after = "answer"
      <4>1. /\ shown' = [for |-> calls[i].for, saw |-> calls[i].saw]
            /\ settled' = IF calls[i].past THEN "past" ELSE "fresh"
        BY <3>2 DEF AnswerWrite, Settles
      <4>2. shown' \in Told /\ shown'.saw = calls[i].saw /\ shown'.for = asked
        BY <1>3, <2>5, <4>1 DEF Told, Calls
      <4>3. ~calls[i].past => UpToDate(i)
        <5>1. ~ LoadAfter(i)
          BY <2>3 DEF LoadAfter
        <5>2. QED
          BY <1>1, <3>2, <5>1 DEF NextInLine, BringsList
      <4>4. QED
        BY <1>2, <1>4, <4>1, <4>2, <4>3 DEF UpToDate
    <3>3. QED
      BY <1>7, <3>1, <3>2
  <2>7. PagesTypes'
    BY <1>1, <1>2, <1>5, <2>2, <2>6 DEF PagesTypes
  <2>8. PageOfItsKind'
    BY <1>1, <1>2, <1>7, <2>2, <2>6 DEF PageOfItsKind, IsLoad
  <2>9. NextInLine'
    BY <2>2, <2>6 DEF NextInLine, NextOfAll
  <2>10. QED
    BY <2>2, <2>7, <2>8, <2>9 DEF PagesInv
<1>8. QED
  BY <1>6, <1>7 DEF AnswerWrite

LEMMA ServeKeeps ==
  ASSUME PagesInv, NEW i \in 1 .. Len(calls), Serve(i)
  PROVE  PagesInv'
<1>1. PagesTypes /\ ServedRead /\ PageOfItsKind /\ NextInLine
  BY DEF PagesInv
<1>2. UNCHANGED <<page, asked, sent, acked, shown, settled>> /\ ~calls[i].served
  BY DEF Serve
<1> DEFINE n == Len(calls)
           c == calls[i]
           d == [c EXCEPT !.served = TRUE, !.saw = taken']
<1>3. n \in Nat /\ c \in Calls /\ calls \in Seq(Calls)
  BY <1>1 DEF PagesTypes
<1>4. /\ taken \subseteq taken' /\ taken' \subseteq Mine
      /\ ~IsLoad(i) => c.write \in taken'
  <2>1. CASE IsLoad(i)
    BY <1>1, <2>1 DEF Serve, PagesTypes
  <2>2. CASE ~IsLoad(i)
    BY <1>1, <1>3, <2>2 DEF Serve, PagesTypes, IsLoad, Calls
  <2>3. QED
    BY <2>1, <2>2
<1>5. calls' = [calls EXCEPT ![i] = d]
  BY DEF Serve
<1> HIDE DEF c
<1>6. /\ d \in Calls /\ d.write = c.write /\ d.for = c.for /\ d.served
      /\ d.saw = taken' /\ d.past = c.past
  BY <1>3, <1>4 DEF Calls
<1> HIDE DEF d
<1>7. /\ calls' \in Seq(Calls) /\ Len(calls') = n /\ calls'[i] = d
      /\ \A k \in 1 .. n : k # i => calls'[k] = calls[k]
  BY <1>3, <1>5, <1>6
<1>8. \A k \in 1 .. n : /\ calls'[k].write = calls[k].write
                        /\ calls'[k].for = calls[k].for
                        /\ calls'[k].past = calls[k].past
  BY <1>6, <1>7 DEF c
<1>9. PagesTypes'
  BY <1>1, <1>2, <1>4, <1>7 DEF PagesTypes
<1>10. ServedRead'
  <2>1. ASSUME NEW k \in 1 .. n
        PROVE  /\ calls'[k].served => calls'[k].saw \subseteq taken'
               /\ calls'[k].write # "none" => calls'[k].write \in sent'
               /\ calls'[k].write # "none" /\ calls'[k].served =>
                    calls'[k].write \in calls'[k].saw
    <3>1. CASE k = i
      BY <1>1, <1>2, <1>4, <1>6, <1>7, <3>1 DEF ServedRead, IsLoad, c
    <3>2. CASE k # i
      <4>1. calls'[k] = calls[k]
        BY <1>7, <3>2
      <4>2. QED
        BY <1>1, <1>2, <1>4, <4>1 DEF ServedRead, IsLoad
    <3>3. QED
      BY <3>1, <3>2
  <2>2. QED
    BY <1>7, <2>1 DEF ServedRead, IsLoad
<1>11. PageOfItsKind'
  BY <1>1, <1>2, <1>4, <1>7, <1>8 DEF PageOfItsKind, IsLoad
<1>12. \A k \in 0 .. n : LoadAfter(k)' = LoadAfter(k)
  BY <1>7, <1>8 DEF LoadAfter, IsLoad
<1>13. NextInLine'
  <2>1. ASSUME NEW k \in 1 .. n, BringsList(k)', ~calls'[k].past
        PROVE  UpToDate(k)' \/ LoadAfter(k)'
    <3>1. UpToDate(k) \/ LoadAfter(k)
      BY <1>1, <1>2, <1>8, <2>1 DEF NextInLine, BringsList, IsLoad
    <3>2. CASE LoadAfter(k)
      BY <1>3, <1>12, <3>2
    <3>3. CASE UpToDate(k) /\ k = i
      BY <1>1, <1>2, <1>4, <1>6, <1>7, <3>3 DEF UpToDate, PagesTypes, c
    <3>4. CASE UpToDate(k) /\ k # i
      BY <1>2, <1>7, <3>4 DEF UpToDate
    <3>5. QED
      BY <3>1, <3>2, <3>3, <3>4
  <2>2. LoadAfter(0)' = LoadAfter(0)
    BY <1>3, <1>12
  <2>3. QED
    BY <1>1, <1>2, <1>7, <2>1, <2>2 DEF NextInLine
<1>14. QED
  BY <1>9, <1>10, <1>11, <1>13 DEF PagesInv

(* A request that joins the others: they stay in line, and are behind a    *)
(* load if it is one.                                                      *)
LEMMA JoinKeeps ==
  ASSUME PagesInv, NEW w \in Mine \cup {"none"}, NEW f \in Asks,
         calls' = Append(calls, Request(w, f, FALSE)),
         UNCHANGED <<page, taken, acked, shown, settled>>,
         \/ /\ w = "none" /\ f = asked' /\ UNCHANGED sent /\ asked' \in Asks
            /\ asked' = asked \/ page.filter # "none"
            /\ page.after \notin {"drop", "answer"}
         \/ /\ w # "none" /\ f = asked /\ UNCHANGED asked /\ sent' = sent \cup {w}
            /\ page.after # "nothing" /\ shown # Empty
            /\ page.after \in {"drop", "answer"} => ~LoadAfter(0)
  PROVE  PagesInv'
<1>1. PagesTypes /\ ServedRead /\ PageOfItsKind /\ NextInLine
  BY DEF PagesInv
<1> DEFINE c == Request(w, f, FALSE)
           n == Len(calls)
<1>2. /\ c \in Calls /\ c.write = w /\ c.for = f /\ ~c.served /\ ~c.past
  BY DEF Request, Calls
<1> HIDE DEF c
<1>3. calls \in Seq(Calls) /\ n \in Nat /\ calls' = Append(calls, c)
  BY <1>1 DEF PagesTypes, c
<1>4. /\ calls' \in Seq(Calls) /\ Len(calls') = n + 1 /\ calls'[n + 1] = c
      /\ \A k \in 1 .. n : calls'[k] = calls[k]
  <2> DEFINE q == calls
  <2>1. q \in Seq(Calls) /\ calls' = Append(q, c) /\ Len(q) = n
    BY <1>3
  <2> HIDE DEF q, n
  <2>2. /\ calls' \in Seq(Calls) /\ Len(calls') = n + 1 /\ calls'[n + 1] = c
        /\ \A k \in 1 .. n : calls'[k] = q[k]
    BY <1>1, <1>2, <2>1, Queued
  <2>3. QED
    BY <2>2 DEF q
<1>5. \A k \in 1 .. n + 1 : k = n + 1 \/ k \in 1 .. n
  BY <1>3
<1>6. PagesTypes'
  BY <1>1, <1>4 DEF PagesTypes
<1>7. ServedRead'
  <2>1. ASSUME NEW k \in 1 .. n + 1
        PROVE  /\ calls'[k].served => calls'[k].saw \subseteq taken'
               /\ calls'[k].write # "none" => calls'[k].write \in sent'
               /\ calls'[k].write # "none" /\ calls'[k].served =>
                    calls'[k].write \in calls'[k].saw
    <3>1. CASE k = n + 1
      BY <1>2, <1>4, <3>1
    <3>2. CASE k \in 1 .. n
      <4>1. calls'[k] = calls[k]
        BY <1>4, <3>2
      <4>2. QED
        BY <1>1, <3>2, <4>1 DEF ServedRead, IsLoad
    <3>3. QED
      BY <1>5, <3>1, <3>2
  <2>2. QED
    BY <1>4, <2>1 DEF ServedRead, IsLoad
<1>8. \A k \in 0 .. n : LoadAfter(k) \/ w = "none" => LoadAfter(k)'
  <2> SUFFICES ASSUME NEW k \in 0 .. n, LoadAfter(k) \/ w = "none"
               PROVE  \E j \in 1 .. n + 1 : j > k /\ calls'[j].write = "none"
    BY <1>4 DEF LoadAfter, IsLoad
  <2>1. CASE w = "none"
    <3>0. calls'[n + 1].write = "none"
      BY <1>2, <1>4, <2>1
    <3> HIDE DEF n
    <3>1. n + 1 \in 1 .. n + 1 /\ n + 1 > k
      BY <1>3
    <3>2. QED
      BY <3>0, <3>1
  <2>2. CASE LoadAfter(k)
    <3>1. PICK j \in 1 .. n : j > k /\ calls[j].write = "none"
      BY <2>2 DEF LoadAfter, IsLoad
    <3>2. j \in 1 .. n + 1 /\ calls'[j].write = "none"
      BY <1>3, <1>4, <3>1
    <3>3. QED
      BY <3>1, <3>2
  <2>3. QED
    BY <2>1, <2>2
<1>9. PageOfItsKind'
  <2>1. page.filter = "none" => \A k \in 1 .. n + 1 : calls'[k].for = asked'
    BY <1>1, <1>2, <1>4, <1>5 DEF PageOfItsKind
  <2>2. ASSUME page.after \in {"drop", "answer"}, NEW k \in 1 .. n + 1
        PROVE  calls'[k].write # "none"
    <3>1. w # "none" /\ ~ LoadAfter(0)
      BY <2>2
    <3>2. \A j \in 1 .. n : calls[j].write # "none"
      BY <1>3, <3>1 DEF LoadAfter, IsLoad
    <3>3. QED
      BY <1>2, <1>4, <1>5, <3>1, <3>2
  <2>3. page.after = "nothing" => sent' = {}
    BY <1>1 DEF PageOfItsKind
  <2>4. QED
    BY <1>1, <1>4, <2>1, <2>2, <2>3 DEF PageOfItsKind, IsLoad
<1>10. NextInLine'
  <2>1. ASSUME NEW k \in 1 .. n + 1, BringsList(k)', ~calls'[k].past
        PROVE  UpToDate(k)' \/ LoadAfter(k)'
    <3>1. CASE k = n + 1
      <4>1. f = asked'
        OBVIOUS
      <4>2. QED
        BY <1>2, <1>4, <3>1, <4>1 DEF UpToDate
    <3>2. CASE k \in 1 .. n /\ w = "none"
      BY <1>3, <1>8, <3>2
    <3>3. CASE k \in 1 .. n /\ w # "none"
      <4>1. calls'[k] = calls[k] /\ asked' = asked
        BY <1>4, <3>3
      <4>2. UpToDate(k) \/ LoadAfter(k)
        BY <1>1, <2>1, <3>3, <4>1 DEF NextInLine, BringsList, IsLoad
      <4>3. LoadAfter(k) => LoadAfter(k)'
        BY <1>3, <1>8, <3>3
      <4>4. QED
        BY <4>1, <4>2, <4>3 DEF UpToDate
    <3>4. QED
      BY <1>5, <3>1, <3>2, <3>3
  <2>2. settled = "fresh" =>
          \/ shown.for = asked' /\ acked \subseteq shown.saw
          \/ LoadAfter(0)'
    <3>1. 0 \in 0 .. n
      BY <1>3
    <3>2. CASE w = "none"
      BY <1>8, <3>1, <3>2
    <3>3. CASE w # "none"
      BY <1>1, <1>8, <3>1, <3>3 DEF NextInLine
    <3>4. QED
      BY <3>2, <3>3
  <2>3. QED
    BY <1>4, <2>1, <2>2 DEF NextInLine
<1>11. QED
  BY <1>6, <1>7, <1>9, <1>10 DEF PagesInv

LEMMA ClearFilterKeeps ==
  ASSUME PagesInv, ClearFilter PROVE PagesInv'
<1>1. PagesTypes /\ ServedRead /\ PageOfItsKind
  BY DEF PagesInv
<1>2. /\ UNCHANGED <<page, taken, sent, acked>> /\ asked' = "nothing"
      /\ shown' = Empty /\ settled' = "fresh" /\ page.after = "nothing"
      /\ page.filter = "clear" /\ sent = {} /\ acked = {}
  BY <1>1, PageKinds DEF ClearFilter, PageOfItsKind, PagesTypes
<1> DEFINE n == Len(calls)
<1>3. n \in Nat /\ calls \in Seq(Calls) /\ \A k \in 1 .. n : calls[k] \in Calls
  BY <1>1 DEF PagesTypes
<1>4. \A k \in 1 .. n :
        /\ [calls[k] EXCEPT !.past = TRUE] \in Calls
        /\ [calls[k] EXCEPT !.past = TRUE].write = calls[k].write
        /\ [calls[k] EXCEPT !.past = TRUE].served = calls[k].served
        /\ [calls[k] EXCEPT !.past = TRUE].saw = calls[k].saw
        /\ [calls[k] EXCEPT !.past = TRUE].past
  BY <1>3 DEF Calls
<1> DEFINE Past(k) == [calls[k] EXCEPT !.past = TRUE]
<1>5. calls' = [k \in 1 .. n |-> Past(k)]
  BY DEF ClearFilter
<1>6. \A k \in 1 .. n :
        /\ Past(k) \in Calls /\ Past(k).write = calls[k].write
        /\ Past(k).served = calls[k].served
        /\ Past(k).saw = calls[k].saw /\ Past(k).past
  BY <1>4
<1> HIDE DEF Past
<1>7. /\ calls' \in Seq(Calls) /\ Len(calls') = n
      /\ \A k \in 1 .. n : calls'[k] = Past(k)
  BY <1>3, <1>5, <1>6
<1>8. PagesTypes'
  BY <1>1, <1>2, <1>7 DEF PagesTypes, Asks, Told, Empty
<1>9. ServedRead'
  BY <1>1, <1>2, <1>6, <1>7 DEF ServedRead, IsLoad
<1>10. PageOfItsKind'
  BY <1>2 DEF PageOfItsKind, Empty
<1>11. NextInLine'
  BY <1>2, <1>6, <1>7 DEF NextInLine, Empty
<1>12. QED
  BY <1>8, <1>9, <1>10, <1>11 DEF PagesInv

LEMMA PagesInvKept == PagesInv /\ [ListPagesNext]_listPages => PagesInv'
<1> SUFFICES ASSUME PagesInv, [ListPagesNext]_listPages PROVE PagesInv'
  OBVIOUS
<1>1. PagesTypes /\ ServedRead /\ PageOfItsKind /\ NextInLine
  BY DEF PagesInv
<1>2. ASSUME NEW f \in Filters, ChangeFilter(f) PROVE PagesInv'
  <2>1. page.after \notin {"drop", "answer"}
    BY <1>1, <1>2, PageKinds DEF ChangeFilter, PagesTypes
  <2>2. QED
    BY <1>1, <1>2, <2>1, JoinKeeps DEF ChangeFilter, Refetched, Asks
<1>3. CASE ClearFilter
  BY <1>3, ClearFilterKeeps
<1>4. CASE Poll
  <2>1. page.after \notin {"drop", "answer"} /\ asked \in Asks
    BY <1>1, <1>4, PageKinds DEF Poll, PagesTypes
  <2>2. Load(asked) = Request("none", asked, FALSE)
    BY DEF Load
  <2>3. QED
    BY <1>1, <1>4, <2>1, <2>2, JoinKeeps DEF Poll
<1>5. ASSUME NEW w \in Mine, SendWrite(w) PROVE PagesInv'
  <2>1. w # "none" /\ asked \in Asks
    BY <1>1, FiltersAssumption DEF PagesTypes
  <2>2. page.after \in {"drop", "answer"} => ~LoadAfter(0)
    BY <1>1, <1>5 DEF SendWrite, PageOfItsKind, LoadAfter
  <2>3. QED
    BY <1>1, <1>5, <2>1, <2>2, JoinKeeps DEF SendWrite
<1>6. ASSUME NEW i \in 1 .. Len(calls),
             Serve(i) \/ AnswerLoad(i) \/ FailLoad(i) \/ AnswerWrite(i) \/ FailWrite(i)
      PROVE  PagesInv'
  BY <1>6, ServeKeeps, AnswersKeep, AnswerWriteKeeps
<1>7. CASE UNCHANGED listPages
  BY <1>1, <1>7 DEF listPages, PagesInv, PagesTypes, ServedRead, PageOfItsKind,
    NextInLine, BringsList, IsLoad, UpToDate, LoadAfter
<1>8. QED
  BY <1>2, <1>3, <1>4, <1>5, <1>6, <1>7 DEF ListPagesNext

LEMMA PagesAlwaysInv == ClientsSpec => []PagesInv
BY PagesAlone, PagesInvInit, PagesInvKept, PTL

(***************************************************************************)
(* However loads, polls, writes and changes of the filter cross: a list    *)
(* that is at rest, and not known to be of before, is the one the user     *)
(* asked for, with everything he wrote and was told of.                    *)
(***************************************************************************)
THEOREM PagesSettle == ClientsSpec => []ListsSettle
<1>1. ASSUME PagesInv PROVE ListsSettle
  <2>1. calls = <<>> => ~ LoadAfter(0)
    BY DEF LoadAfter
  <2>2. QED
    BY <1>1, <2>1 DEF ListsSettle, PagesInv, NextInLine
<1>2. QED
  BY <1>1, PagesAlwaysInv, PTL

-----------------------------------------------------------------------------
LEMMA ReviewsWellTyped == ClientsSpec => []ReviewsOK
<1>1. ReviewsInv => ReviewsOK
  BY DEF ReviewsInv, ReviewsOK
<1>2. QED
  BY <1>1, ReviewsAlone, ReviewsInvInit, ReviewsInvKept, PTL DEF ReviewsSpec

(* What the slots store is of documents that were made.                    *)
DocumentsMade == disk \cup unwanted \subseteq 1 .. made

LEMMA DocumentsMadeKept ==
  SlotsInv /\ DocumentsMade /\ [SlotsNext]_slots => DocumentsMade'
<1> SUFFICES ASSUME SlotsInv, DocumentsMade, [SlotsNext]_slots
             PROVE  DocumentsMade'
  OBVIOUS
<1>1. made \in Nat
  BY DEF SlotsInv, SlotsTypes
<1>2. ASSUME NEW c \in Clerks,
             LoadSlot(c) \/ InsertDocument(c) \/ InsertFails(c) \/ FindDocument(c)
               \/ UnlinkDocument(c) \/ EraseDocument(c)
      PROVE  DocumentsMade'
  BY <1>2 DEF DocumentsMade, LoadSlot, InsertDocument, InsertFails, FindDocument,
    UnlinkDocument, EraseDocument
<1>3. ASSUME NEW c \in Clerks, HandleUpload(c) PROVE DocumentsMade'
  BY <1>1, <1>3 DEF DocumentsMade, HandleUpload
<1>4. ASSUME NEW c \in Clerks, HandleDelete(c) PROVE DocumentsMade'
  <2>1. existing[c] \in RowsEver /\ RowsEver \subseteq Nat \ {0}
    BY <1>4 DEF HandleDelete, SlotsInv, SlotsTypes, RowsEver, ToSet
  <2>2. \A d \in RowsEver : d <= made
    BY DEF SlotsInv, SlotsTypes
  <2>3. existing[c] \in 1 .. made
    <3>1. ASSUME NEW d \in RowsEver PROVE d \in 1 .. made
      BY <1>1, <2>1, <2>2
    <3>2. QED
      BY <2>1, <3>1
  <2>4. QED
    BY <1>4, <2>3 DEF DocumentsMade, HandleDelete
<1>5. CASE ServerDown \/ UNCHANGED slots
  BY <1>5 DEF DocumentsMade, ServerDown, slots
<1>6. QED
  BY <1>2, <1>3, <1>4, <1>5 DEF SlotsNext

LEMMA SlotsWellTyped == ClientsSpec => []SlotsOK
<1>1. SlotsInit => DocumentsMade
  BY DEF SlotsInit, DocumentsMade
<1>2. SlotsInv /\ DocumentsMade => SlotsOK
  <2> SUFFICES ASSUME SlotsInv, DocumentsMade PROVE SlotsOK
    OBVIOUS
  <2>1. /\ made \in Nat /\ erased \subseteq RowsEver
        /\ \A d \in RowsEver : d \in Nat \ {0} /\ d <= made
        /\ \A c \in Clerks : existing[c] \in RowsEver \cup {NoDocument}
    BY DEF SlotsInv, SlotsTypes, RowsEver, ToSet
  <2>2. RowsEver \subseteq 1 .. made
    BY <2>1
  <2>3. QED
    BY <2>1, <2>2 DEF DocumentsMade, SlotsOK, RowsEver
<1>3. QED
  BY <1>1, <1>2, SlotsAlone, SlotsInvInit, SlotsInvKept, DocumentsMadeKept, PTL
  DEF SlotsSpec

(***************************************************************************)
(* The app and the dashboard, for any number of items, requests, files and *)
(* documents: stored lists and tables, and what requests in flight hold,   *)
(* have their types, and neither list of the phone holds anything twice.   *)
(***************************************************************************)
THEOREM ClientsTypes == ClientsSpec => []ClientsTypeOK
<1>1. PagesInv => PagesOK
  <2> SUFFICES ASSUME PagesInv PROVE PagesOK
    OBVIOUS
  <2>1. shown.for \in Filters \cup {"nothing"}
    BY DEF PagesInv, PagesTypes, Told, Asks
  <2>2. QED
    BY <2>1 DEF PagesInv, PagesTypes, ServedRead, PageOfItsKind, PagesOK, Asks
<1>2. QED
  BY <1>1, PagesAlwaysInv, PhoneWellTyped, ReviewsWellTyped, SlotsWellTyped, PTL
  DEF ClientsTypeOK

=============================================================================
