------------------------------- MODULE Clients ------------------------------
(***************************************************************************)
(* The two programs that people use: the driver app, and of the dashboard  *)
(* the lists of its pages, its dialogs that send a file twice, and the     *)
(* documents of drivers and vehicles.  A behaviour follows one of them.    *)
(***************************************************************************)
EXTENDS DriverApp, ListPages, FileReview, DocumentSlots

CONSTANT Followed

VARIABLE client

allVars == <<client, vars, listPages, reviews, slots>>

ClientNames == {"app", "pages", "reviews", "slots"}
ASSUME FollowedAssumption == Followed \subseteq ClientNames

ClientsInit ==
  /\ client \in Followed
  /\ Init /\ ListPagesInit /\ ReviewsInit /\ SlotsInit
  \* what the others are about makes no difference; the phone is signed out
  /\ client = "app" \/ kind = "tokens"
  /\ client = "pages" \/ page = Plain
  /\ client = "reviews" \/ dialog = "import"

App == Next /\ UNCHANGED <<listPages, reviews, slots>>
OnPages == ListPagesNext /\ UNCHANGED <<vars, reviews, slots>>
InReviews == ReviewsNext /\ UNCHANGED <<vars, listPages, slots>>
InSlots == SlotsNext /\ UNCHANGED <<vars, listPages, reviews>>

ClientsNext ==
  /\ UNCHANGED client
  /\ \/ client = "app" /\ App
     \/ client = "pages" /\ OnPages
     \/ client = "reviews" /\ InReviews
     \/ client = "slots" /\ InSlots

(* The fairness is the app's; the dashboard's properties are about safety. *)
ClientsSpec == ClientsInit /\ [][ClientsNext]_allVars
FairClients == ClientsSpec /\ Fairness

(***************************************************************************)
(* The type of the four, and of what their requests hold.                  *)
(***************************************************************************)
PagesOK ==
  /\ page \in Pages /\ asked \in Filters \cup {"nothing"}
  /\ shown.for \in Filters \cup {"nothing"} /\ shown.saw \subseteq taken
  /\ acked \subseteq sent \cap taken
  /\ \A i \in 1 .. Len(calls) : calls[i].served => calls[i].saw \subseteq taken
ReviewsOK ==
  /\ {file, preview, reading, result} \subseteq Files \cup {NoFile}
  /\ recorded \subseteq [file : Files, by : Files]
SlotsOK ==
  /\ ToSet(filed) \cup disk \cup unwanted \subseteq 1 .. made
  /\ erased \subseteq ToSet(filed)
  \* a page shows a document that was filed
  /\ \A c \in Clerks : existing[c] \in ToSet(filed) \cup {NoDocument}

ClientsTypeOK == TypeOK /\ PagesOK /\ ReviewsOK /\ SlotsOK

(***************************************************************************)
(* When nothing is under way any more, a page shows what its user asked    *)
(* for, with everything he wrote and was told of; unless the answer that   *)
(* came last had been overtaken, belonged to a filter of before, or was a  *)
(* failure.                                                                *)
(***************************************************************************)
ListsSettle ==
  calls = <<>> /\ settled = "fresh" =>
    shown.for = asked /\ acked \subseteq shown.saw
=============================================================================
