---------------------------- MODULE FileReview ------------------------------
(***************************************************************************)
(* The two dialogs that send a file twice, to be checked and then to be    *)
(* recorded: BulkImportPage.tsx and TransportReconciliationModal.tsx.  The *)
(* server keeps nothing between the two; it reads the second file again.   *)
(***************************************************************************)
CONSTANTS
  Files,          \* a user may choose
  Committable,    \* those of them the server accepts as a workbook
  NoFile

ASSUME FilesAssumption == Committable \subseteq Files /\ NoFile \notin Files

VARIABLES
  dialog,         \* "import" or "statement"
  file,           \* chosen
  preview,        \* the file whose preview is on the screen
  reading,        \* the file whose preview is awaited
  sending,        \* the commit that is awaited
  result,         \* the file whose commit is reported on the screen
  recorded        \* what the server recorded: which file, by whose preview

reviews == <<dialog, file, preview, reading, sending, result, recorded>>

NotSending == [pc |-> "rest"]

(* handleFileChange: what was shown of the file before goes.               *)
ChooseFile(f) ==
  /\ f # file /\ file' = f /\ preview' = NoFile /\ result' = NoFile
  /\ UNCHANGED <<dialog, reading, sending, recorded>>

(* One preview at a time; the one on the screen stays until it is answered. *)
RunPreview ==
  /\ file # NoFile /\ reading = NoFile
  /\ reading' = file /\ result' = NoFile
  /\ UNCHANGED <<dialog, file, preview, sending, recorded>>

(* Whatever file is chosen by now.                                          *)
PreviewAnswered ==
  /\ reading # NoFile /\ preview' = reading /\ reading' = NoFile
  /\ UNCHANGED <<dialog, file, sending, result, recorded>>

PreviewFails ==
  /\ reading # NoFile /\ reading' = NoFile /\ preview' = NoFile
  /\ UNCHANGED <<dialog, file, sending, result, recorded>>

(***************************************************************************)
(* The file that is chosen now, and for a statement the jobs chosen for    *)
(* the rows of the preview.                                                *)
(***************************************************************************)
RunCommit ==
  /\ file # NoFile /\ preview # NoFile /\ sending = NotSending
  /\ dialog = "import" => preview \in Committable
  /\ dialog = "statement" => result = NoFile
  /\ sending' = [pc |-> "sent", file |-> file, by |-> preview]
  /\ UNCHANGED <<dialog, file, preview, reading, result, recorded>>

(* The server validates the workbook again, and takes the statement's rows *)
(* for the jobs it is told.                                                *)
CommitTaken ==
  /\ sending.pc = "sent"
  /\ dialog = "import" => sending.file \in Committable
  /\ recorded' = recorded \cup {[file |-> sending.file, by |-> sending.by]}
  /\ sending' = [sending EXCEPT !.pc = "taken"]
  /\ UNCHANGED <<dialog, file, preview, reading, result>>

(* The import's answer brings the preview of what was imported.            *)
CommitAnswered ==
  /\ sending.pc = "taken" /\ sending' = NotSending /\ result' = sending.file
  /\ preview' = IF dialog = "import" THEN sending.file ELSE preview
  /\ UNCHANGED <<dialog, file, reading, recorded>>

(* Refused, rolled back, or answered in vain: the button is live again.    *)
CommitFails ==
  /\ sending # NotSending /\ sending' = NotSending
  /\ UNCHANGED <<dialog, file, preview, reading, result, recorded>>

(* Closed, and opened again; not while it records (bound).                 *)
CloseDialog ==
  /\ sending = NotSending
  /\ file' = NoFile /\ preview' = NoFile /\ reading' = NoFile
  /\ result' = NoFile
  /\ UNCHANGED <<dialog, sending, recorded>>

ReviewsInit ==
  /\ dialog \in {"import", "statement"}
  /\ file = NoFile /\ preview = NoFile /\ reading = NoFile
  /\ sending = NotSending /\ result = NoFile
  /\ recorded = {}

ReviewsNext ==
  \/ \E f \in Files \cup {NoFile} : ChooseFile(f)
  \/ RunPreview
  \/ PreviewAnswered
  \/ PreviewFails
  \/ RunCommit
  \/ CommitTaken
  \/ CommitAnswered
  \/ CommitFails
  \/ CloseDialog

ReviewsSpec == ReviewsInit /\ [][ReviewsNext]_reviews
=============================================================================
