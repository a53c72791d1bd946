------------------------------- MODULE Canvas -------------------------------
(***************************************************************************)
(* The shared canvas: CanvasStore (canvas.rs), the canvas methods of the   *)
(* gateway (methods.rs) and what its clients show (ui.rs). A document is   *)
(* changed under the store's lock; the notice to every client is sent      *)
(* after the lock is released, so writers overlap. Clients and tools       *)
(* write; a client that patches may name the revision it has seen.         *)
(*                                                                         *)
(* A document is its revision, the number of its blocks and the change     *)
(* that made it; titles, texts and block kinds are left out, and with them *)
(* the conversions between the gateway's and the core's records.           *)
(***************************************************************************)
EXTENDS Naturals, Sequences

CONSTANTS
  CvClients,     \* connected clients
  CvTools,       \* turns that use the canvas tools
  CvMaxBlocks,   \* MAX_BLOCKS_PER_DOCUMENT
  CvMaxChanges   \* bound: changes made

ASSUME CvConstants == CvMaxBlocks \in Nat /\ CvMaxChanges \in Nat

VARIABLES
  cvDoc,      \* the document under one key; NoDoc when there is none
  cvChanges,  \* changes made so far
  cvClears,   \* the change that cleared it last
  cvNotice,   \* per writer: the notice it still has to send
  cvBus,      \* per client: notices on their way to it, in the order sent
  cvViews     \* per client: the document it shows

cvVars == <<cvDoc, cvChanges, cvClears, cvNotice, cvBus, cvViews>>

CvWriters == CvClients \cup CvTools
NoDoc == [revision |-> 0, blocks |-> 0, change |-> 0]
NoNotice == <<>>

CvInit ==
  /\ cvDoc = NoDoc /\ cvChanges = 0 /\ cvClears = 0
  /\ cvNotice = [w \in CvWriters |-> NoNotice]
  /\ cvBus = [c \in CvClients |-> <<>>] /\ cvViews = [c \in CvClients |-> NoDoc]

----------------------------------------------------------------------------
(* The store                                                                *)

\* A document over the size limit is refused, whatever else it holds.
validate_document_size(size) == size = "fits"

\* Seeded bug: a replaced document keeps its revision.
set_same_revision(blocks) == [revision |-> IF cvDoc = NoDoc THEN 1 ELSE cvDoc.revision, blocks |-> blocks, change |-> cvChanges + 1]

\* CanvasStore::set: the next revision, or the first. The number of blocks is not looked at.
set(blocks) == [revision |-> cvDoc.revision + 1, blocks |-> blocks, change |-> cvChanges + 1]

\* CanvasStore::patch: refused when the revision is not the expected one or with too many blocks.
Unpatchable(expected, added) ==
  \/ expected # {} /\ expected # {cvDoc.revision}
  \/ cvDoc.blocks + added > CvMaxBlocks

patch(added) == [revision |-> cvDoc.revision + 1, blocks |-> cvDoc.blocks + added, change |-> cvChanges + 1]

\* The store changes and the writer goes on to its notice.
CvChange(w, doc) ==
  /\ cvNotice[w] = NoNotice /\ cvChanges < CvMaxChanges
  /\ cvDoc' = doc /\ cvChanges' = cvChanges + 1
  /\ cvNotice' = [cvNotice EXCEPT ![w] = <<doc>>]
  /\ UNCHANGED <<cvBus, cvViews>>

\* A refused request: nothing changes.
CvRefused(w) == cvNotice[w] = NoNotice /\ UNCHANGED <<cvDoc, cvChanges, cvNotice, cvBus, cvViews>>

\* canvas.set, and the canvas_set tool.
canvas_set(w) ==
  /\ \E blocks \in {1, CvMaxBlocks + 1}, size \in {"fits", "large"} :
       IF validate_document_size(size) THEN CvChange(w, set(blocks)) ELSE CvRefused(w)
  /\ UNCHANGED cvClears

\* canvas.patch of a client, with or without the revision it shows; tools never give one.
canvas_patch(w) ==
  /\ \E expected \in {{}} \cup (IF w \in CvClients THEN {{cvViews[w].revision}} ELSE {}) :
       IF Unpatchable(expected, 1) THEN CvRefused(w) ELSE CvChange(w, patch(1))
  /\ UNCHANGED cvClears

\* canvas.clear: the next document starts at revision 1 again.
canvas_clear(w) ==
  /\ CvChange(w, NoDoc)
  /\ cvClears' = cvChanges + 1

\* notify, broadcast_canvas_update.
cv_notify(w) ==
  /\ cvNotice[w] # NoNotice
  /\ cvBus' = [c \in CvClients |-> cvBus[c] \o cvNotice[w]]
  /\ cvNotice' = [cvNotice EXCEPT ![w] = NoNotice]
  /\ UNCHANGED <<cvDoc, cvChanges, cvClears, cvViews>>

----------------------------------------------------------------------------
(* Clients                                                                  *)

\* A notice is shown as it comes, whatever its revision (ui.rs, canvas_updated).
renderCanvas(c) ==
  /\ cvBus[c] # <<>>
  /\ cvViews' = [cvViews EXCEPT ![c] = Head(cvBus[c])]
  /\ cvBus' = [cvBus EXCEPT ![c] = Tail(@)]
  /\ UNCHANGED <<cvDoc, cvChanges, cvClears, cvNotice>>

\* canvas.get and canvas.export: the answer queues behind the notices already sent.
canvas_get(c) ==
  /\ Len(cvBus[c]) < CvMaxChanges
  /\ cvBus' = [cvBus EXCEPT ![c] = Append(@, cvDoc)]
  /\ UNCHANGED <<cvDoc, cvChanges, cvClears, cvNotice, cvViews>>

CvNext ==
  \/ \E w \in CvWriters :
       canvas_set(w) \/ canvas_patch(w) \/ canvas_clear(w) \/ cv_notify(w)
  \/ \E c \in CvClients : renderCanvas(c) \/ canvas_get(c)

CvSpec == CvInit /\ [][CvNext]_cvVars

----------------------------------------------------------------------------
(* Properties                                                               *)

\* The revision check does what it is for: while the canvas has not been cleared since, the
\* revision a client shows names the very document it shows, so a patch that gives it is
\* applied to what its author saw. (After a clear, revisions start again and this is lost.)
RevisionNamesDocument ==
  \A c \in CvClients :
    (cvViews[c].revision = cvDoc.revision /\ cvViews[c].change > cvClears) => cvViews[c] = cvDoc

=============================================================================
