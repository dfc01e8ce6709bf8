------------------------------ MODULE Listings ------------------------------
(***************************************************************************)
(* The properties on offer (src/modules/properties): one listing, its      *)
(* publication, the visitors' inquiries, and its legal                     *)
(* documents.  A document is a file in the object store and a row that     *)
(* names it; the store and the database know nothing of one another, so    *)
(* the order of the two writes decides what a failure leaves behind.       *)
(***************************************************************************)
EXTENDS Naturals, FiniteSets

CONSTANTS
  Requests,  \* handler calls in progress
  Documents, \* documents; an upload gives each file a name of its own
  MaxCalls   \* bound: calls in all

VARIABLES
  listing,    \* the row of the property
  rows,       \* property_legal_documents: the documents that have a row
  files,      \* the documents that have a file
  req,        \* the requests
  torn,       \* ghost: documents whose deletion died after the file had gone
  calls       \* calls so far

vars == <<listing, rows, files, req, torn, calls>>

-----------------------------------------------------------------------------
(* published: whether publishedAt is set; asked: inquiries were made.      *)
Listing == [exists: BOOLEAN, status: {"DRAFT", "PUBLISHED"}, published: BOOLEAN,
            sale: {"AVAILABLE", "SOLD"}, sold: BOOLEAN, asked: BOOLEAN]
Kinds   == {"none", "update", "delete", "upload", "insert", "inquire", "remove", "unlink"}
Request == [kind: Kinds, docs: SUBSET Documents]
Idle    == [kind |-> "none", docs |-> {}]

Starts(r, kind, docs) ==
  /\ calls < MaxCalls /\ calls' = calls + 1
  /\ req[r] = Idle /\ req' = [req EXCEPT ![r] = [kind |-> kind, docs |-> docs]]
Goes(r, kind) == req' = [req EXCEPT ![r].kind = kind] /\ UNCHANGED calls
Ends(r)       == req' = [req EXCEPT ![r] = Idle] /\ UNCHANGED calls

-----------------------------------------------------------------------------
(* createProperty (buildCreateInput): a draft that is available and has no *)
(* dates, unless the administrator sends others, as an update may.         *)
Init ==
  /\ listing = [exists |-> TRUE, status |-> "DRAFT", published |-> FALSE,
                sale |-> "AVAILABLE", sold |-> FALSE, asked |-> FALSE]
  /\ rows = {} /\ files = {} /\ req = [r \in Requests |-> Idle]
  /\ torn = {} /\ calls = 0

(* Every handler reads the property first; NotFound if it is gone, or, for *)
(* a visitor, not published.                                               *)
Begin(r) ==
  /\ listing.exists
  /\ \/ \E k \in {"update", "delete"} : Starts(r, k, {})
     \/ listing.status = "PUBLISHED" /\ Starts(r, "inquire", {})
     \/ \E d \in (SUBSET Documents) \ {{}} :
          /\ d \cap (rows \cup files \cup UNION {req[s].docs : s \in Requests} \cup torn) = {}
          /\ Starts(r, "upload", d)
     \/ \E d \in rows : Starts(r, "remove", {d})
  /\ UNCHANGED <<listing, rows, files, torn>>

(* updateProperty writes by id what buildUpdateInput makes of the fields   *)
(* given: a status brings its date with it, or takes it away, unless a     *)
(* date, or none, was given too; a date may also come alone.               *)
UpdateCommit(r) ==
  /\ req[r].kind = "update" /\ listing.exists
  /\ \/ \E s \in {"DRAFT", "PUBLISHED"}, given \in BOOLEAN :
          \E date \in IF given THEN BOOLEAN ELSE {s = "PUBLISHED"} :
            listing' = [listing EXCEPT !.status = s, !.published = date]
     \/ \E t \in {"AVAILABLE", "SOLD"}, given \in BOOLEAN :
          \E date \in IF given THEN BOOLEAN ELSE {t = "SOLD"} :
            listing' = [listing EXCEPT !.sale = t, !.sold = date]
     \/ \E date \in BOOLEAN : listing' = [listing EXCEPT !.published = date]
     \/ \E date \in BOOLEAN : listing' = [listing EXCEPT !.sold = date]
  /\ Ends(r) /\ UNCHANGED <<rows, files, torn>>

(* deleteProperty: the rows of its documents and inquiries go with it, the *)
(* files stay.                                                             *)
DeleteCommit(r) ==
  /\ req[r].kind = "delete" /\ listing.exists
  /\ listing' = [listing EXCEPT !.exists = FALSE, !.asked = FALSE]
  /\ rows' = {} /\ torn' = {}
  /\ Ends(r) /\ UNCHANGED files

(* createContactInquiry: the property may have been withdrawn since, but   *)
(* not deleted.                                                            *)
InquiryCommit(r) ==
  /\ req[r].kind = "inquire" /\ listing.exists
  /\ listing' = [listing EXCEPT !.asked = TRUE]
  /\ Ends(r) /\ UNCHANGED <<rows, files, torn>>

(* uploadLegalDocuments stores all files at once; if one fails, the call   *)
(* fails, with the others stored.                                          *)
SomeStored(stored, docs) == stored # {}
AllStored(stored, docs)  == stored = docs

StoreFiles(r) ==
  /\ req[r].kind = "upload"
  /\ \E stored \in SUBSET req[r].docs :
       /\ files' = files \cup stored
       /\ IF AllStored(stored, req[r].docs) THEN Goes(r, "insert") ELSE Ends(r)
  /\ UNCHANGED <<listing, rows, torn>>

(* The rows are inserted in one transaction, which fails if the property   *)
(* has gone; nothing takes the files away then.                            *)
InsertRows(r) ==
  /\ req[r].kind = "insert" /\ listing.exists
  /\ rows' = rows \cup req[r].docs
  /\ Ends(r) /\ UNCHANGED <<listing, files, torn>>

(* deleteLegalDocument removes the file, which succeeds if it is not       *)
(* there ...                                                               *)
FileRemoved(r) == req[r].kind = "unlink"

RemoveFile(r) ==
  /\ req[r].kind = "remove"
  /\ files' = files \ req[r].docs
  /\ Goes(r, "unlink") /\ UNCHANGED <<listing, rows, torn>>

(* ... and then deletes the row, which fails if the row has gone.          *)
DeleteRow(r) ==
  /\ FileRemoved(r) /\ req[r].docs \subseteq rows
  /\ rows' = rows \ req[r].docs /\ torn' = torn \ req[r].docs
  /\ Ends(r) /\ UNCHANGED <<listing, files>>

(* A handler fails or dies between any two of its steps.                   *)
Fails(r) ==
  /\ req[r] # Idle
  /\ torn' = IF FileRemoved(r) THEN torn \cup (req[r].docs \cap rows) ELSE torn
  /\ Ends(r) /\ UNCHANGED <<listing, rows, files>>

Next ==
  \E r \in Requests :
    \/ Begin(r) \/ UpdateCommit(r) \/ DeleteCommit(r) \/ InquiryCommit(r)
    \/ StoreFiles(r) \/ InsertRows(r) \/ RemoveFile(r) \/ DeleteRow(r) \/ Fails(r)

Spec == Init /\ [][Next]_vars

-----------------------------------------------------------------------------
TypeOK ==
  /\ listing \in Listing /\ rows \cup files \cup torn \subseteq Documents
  /\ req \in [Requests -> Request] /\ calls \in 0..MaxCalls

(* A document that is listed can be opened: its file is there, whichever   *)
(* uploads failed half-way or lost their property; only a deletion that    *)
(* has removed the file, and is still on its way to the row or died on it, *)
(* leaves a row behind, and another deletion of it mends that.             *)
DocumentsOpen ==
  \A d \in rows \ (files \cup torn) : \E r \in Requests : FileRemoved(r) /\ d \in req[r].docs
=============================================================================
