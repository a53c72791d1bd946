--------------------------- MODULE Delivery_proofs ---------------------------
(***************************************************************************)
(* Proofs about what users get to see, for any number of replies, clients, *)
(* requests, messages, uploads and readers: the canvas, the web console,   *)
(* the media store, the adapters' sends, how a reply is split, for a text  *)
(* and files of any length, and that Delivery implements DeliveryPromise.  *)
(***************************************************************************)
EXTENDS Delivery, ChannelSend, Canvas, WebConsole, MediaFiles, FoldLemmas

----------------------------------------------------------------------------
(* The canvas.                                                              *)

CvDoc == [revision : Nat, blocks : Nat, change : Nat]

\* A document of a past change: since the canvas was cleared no other one has its revision.
CvKnown(d) ==
  /\ d.change <= cvChanges
  /\ d.change > cvClears => d.revision <= cvDoc.revision /\ (d.revision = cvDoc.revision => d = cvDoc)

CvDocs == {d \in CvDoc : CvKnown(d)}

\* The inductive invariant: only such documents are stored, noticed, on their way or shown.
CvInv ==
  /\ cvChanges \in Nat /\ cvClears \in Nat /\ cvClears <= cvChanges
  /\ cvDoc \in CvDocs /\ cvViews \in [CvClients -> CvDocs]
  /\ cvNotice \in [CvWriters -> Seq(CvDocs)] /\ cvBus \in [CvClients -> Seq(CvDocs)]

\* A change keeps what is known, and makes the new document known.
LEMMA ChangesStayKnown ==
  ASSUME CvInv, NEW w \in CvWriters, NEW doc \in CvDoc, CvChange(w, doc),
         \/ doc.revision = cvDoc.revision + 1 /\ doc.change = cvChanges + 1 /\ UNCHANGED cvClears
         \/ doc.change = 0 /\ cvClears' = cvChanges + 1
  PROVE  CvInv'
<1>1. /\ cvChanges' = cvChanges + 1 /\ cvDoc' = doc /\ cvNotice' = [cvNotice EXCEPT ![w] = <<doc>>]
      /\ UNCHANGED <<cvBus, cvViews>> /\ cvChanges \in Nat /\ cvClears \in Nat /\ cvClears <= cvChanges
  BY DEF CvChange, CvInv
<1>2. cvChanges' \in Nat /\ cvClears' \in Nat /\ cvClears' <= cvChanges' BY <1>1
<1>3. ASSUME NEW d \in CvDocs PROVE d \in CvDocs'
  <2>1. d \in CvDoc /\ d.change \in Nat /\ d.revision \in Nat /\ cvDoc.revision \in Nat /\ CvKnown(d)
    BY DEF CvDocs, CvDoc, CvInv
  <2>2. d.change <= cvChanges' BY <1>1, <2>1 DEF CvKnown
  <2>3. ASSUME d.change > cvClears' PROVE d.revision <= doc.revision /\ d.revision # doc.revision
    <3>1. UNCHANGED cvClears /\ doc.revision = cvDoc.revision + 1 BY <1>1, <2>1, <2>3 DEF CvKnown
    <3>2. d.revision <= cvDoc.revision BY <2>1, <2>3, <3>1 DEF CvKnown
    <3> QED BY <2>1, <3>1, <3>2
  <2> QED BY <1>1, <2>1, <2>2, <2>3 DEF CvDocs, CvKnown
<1>4. doc \in CvDocs'
  <2>1. doc.change <= cvChanges' /\ doc.revision \in Nat BY <1>1 DEF CvDoc
  <2>2. doc.revision <= doc.revision BY <2>1
  <2> QED BY <1>1, <2>1, <2>2 DEF CvDocs, CvKnown
<1>5. Seq(CvDocs) \subseteq Seq(CvDocs') BY <1>3
<1>6. cvViews' \in [CvClients -> CvDocs'] BY <1>1, <1>3 DEF CvInv
<1>7. cvBus' \in [CvClients -> Seq(CvDocs')] BY <1>1, <1>5 DEF CvInv
<1>8. <<doc>> \in Seq(CvDocs') BY <1>4
<1>9. cvNotice' \in [CvWriters -> Seq(CvDocs')] BY <1>1, <1>5, <1>8 DEF CvInv
<1> QED BY <1>1, <1>2, <1>4, <1>6, <1>7, <1>9 DEF CvInv

\* Every step of the canvas keeps the invariant.
LEMMA CanvasKept == CvInv /\ [CvNext]_cvVars => CvInv'
<1> SUFFICES ASSUME CvInv, [CvNext]_cvVars PROVE CvInv'
  OBVIOUS
<1>0. CvDocs' = CvDocs \/ cvDoc' # cvDoc \/ cvChanges' # cvChanges \/ cvClears' # cvClears
  BY DEF CvDocs, CvKnown
<1>1. ASSUME UNCHANGED <<cvDoc, cvChanges, cvClears>>, cvViews' \in [CvClients -> CvDocs],
             cvNotice' \in [CvWriters -> Seq(CvDocs)], cvBus' \in [CvClients -> Seq(CvDocs)]
      PROVE  CvInv'
  BY <1>0, <1>1 DEF CvInv
<1>2. ASSUME NEW w, CvRefused(w), UNCHANGED cvClears PROVE CvInv' BY <1>1, <1>2 DEF CvRefused, CvInv
<1>3. ASSUME NEW w \in CvWriters, canvas_set(w) PROVE CvInv'
  <2>1. CASE CvRefused(w) BY <1>2, <1>3, <2>1 DEF canvas_set
  <2>2. ASSUME NEW blocks \in {1, CvMaxBlocks + 1}, CvChange(w, set(blocks)) PROVE CvInv'
    <3>1. set(blocks) \in CvDoc /\ set(blocks).revision = cvDoc.revision + 1 /\ set(blocks).change = cvChanges + 1
      BY CvConstants DEF set, CvDoc, CvInv, CvDocs, CvConstants
    <3> QED BY <1>3, <2>2, <3>1, ChangesStayKnown DEF canvas_set
  <2> QED BY <1>3, <2>1, <2>2 DEF canvas_set
<1>4. ASSUME NEW w \in CvWriters, canvas_patch(w) PROVE CvInv'
  <2>1. CASE CvRefused(w) BY <1>2, <1>4, <2>1 DEF canvas_patch
  <2>2. CASE CvChange(w, patch(1))
    <3>1. patch(1) \in CvDoc /\ patch(1).revision = cvDoc.revision + 1 /\ patch(1).change = cvChanges + 1
      BY DEF patch, CvDoc, CvInv, CvDocs
    <3> QED BY <1>4, <2>2, <3>1, ChangesStayKnown DEF canvas_patch
  <2> QED BY <1>4, <2>1, <2>2 DEF canvas_patch
<1>5. ASSUME NEW w \in CvWriters, canvas_clear(w) PROVE CvInv'
  <2>1. NoDoc \in CvDoc /\ NoDoc.change = 0 BY DEF NoDoc, CvDoc
  <2> QED BY <1>5, <2>1, ChangesStayKnown DEF canvas_clear
<1>6. ASSUME NEW w \in CvWriters, cv_notify(w) PROVE CvInv'
  <2>1. \A c \in CvClients : cvBus[c] \o cvNotice[w] \in Seq(CvDocs) BY DEF CvInv
  <2>2. <<>> \in Seq(CvDocs) OBVIOUS
  <2>3. cvBus' \in [CvClients -> Seq(CvDocs)] BY <1>6, <2>1 DEF cv_notify
  <2>4. cvNotice' \in [CvWriters -> Seq(CvDocs)] BY <1>6, <2>2 DEF cv_notify, CvInv, NoNotice
  <2> QED BY <1>1, <1>6, <2>3, <2>4 DEF cv_notify, CvInv
<1>7. ASSUME NEW c \in CvClients, renderCanvas(c) PROVE CvInv'
  <2>1. cvBus[c] \in Seq(CvDocs) /\ cvBus[c] # <<>> BY <1>7 DEF renderCanvas, CvInv
  <2>2. Head(cvBus[c]) \in CvDocs /\ Tail(cvBus[c]) \in Seq(CvDocs) BY <2>1
  <2>3. cvViews' \in [CvClients -> CvDocs] /\ cvBus' \in [CvClients -> Seq(CvDocs)]
    BY <1>7, <2>2 DEF renderCanvas, CvInv
  <2> QED BY <1>1, <1>7, <2>3 DEF renderCanvas, CvInv
<1>8. ASSUME NEW c \in CvClients, canvas_get(c) PROVE CvInv'
  <2>1. Append(cvBus[c], cvDoc) \in Seq(CvDocs) BY DEF CvInv
  <2>2. cvBus' \in [CvClients -> Seq(CvDocs)] BY <1>8, <2>1 DEF canvas_get, CvInv
  <2> QED BY <1>1, <1>8, <2>2 DEF canvas_get, CvInv
<1>9. CASE UNCHANGED cvVars BY <1>1, <1>9 DEF cvVars, CvInv
<1> QED BY <1>3, <1>4, <1>5, <1>6, <1>7, <1>8, <1>9 DEF CvNext

\* For any clients, tools and limits: while the canvas has not been cleared since, the
\* revision a client shows names the document it shows, in whatever order writers overlap
\* and notices and answers reach it.
THEOREM RevisionsNameDocuments == CvSpec => []RevisionNamesDocument
<1>1. CvInit => CvInv
  <2> SUFFICES ASSUME CvInit PROVE CvInv OBVIOUS
  <2>1. cvChanges = 0 /\ cvClears = 0 /\ cvDoc = NoDoc BY DEF CvInit
  <2>2. NoDoc \in CvDocs BY <2>1 DEF NoDoc, CvDocs, CvDoc, CvKnown
  <2> QED BY <2>1, <2>2 DEF CvInit, CvInv, NoNotice
<1>2. CvInv => RevisionNamesDocument
  <2> SUFFICES ASSUME CvInv, NEW c \in CvClients, cvViews[c].revision = cvDoc.revision, cvViews[c].change > cvClears
               PROVE  cvViews[c] = cvDoc
    BY DEF RevisionNamesDocument
  <2> QED BY DEF CvInv, CvDocs, CvKnown
<1> QED BY <1>1, <1>2, CanvasKept, PTL DEF CvSpec

----------------------------------------------------------------------------
(* The web console.                                                         *)

WcArgs == WcSessions \cup {NoSession}
WcKinds == {"refresh", "send", "reset", "history", "again", "usage", "agents", "cron", "approve", "manage", "job", "canvas", "ping"}
WcFrame == [id : Nat, no : Nat, kind : WcKinds, arg : WcArgs]

\* The requests made so far: the id is the number of the request.
WcReqs == {q \in WcFrame : q.id = q.no /\ q.no <= wcCount}

\* What waits, ticks or is on the socket, before or in the middle of a step.
WcGood(left) == left.pending \subseteq WcReqs /\ left.alarms \subseteq WcReqs /\ left.asked \in Seq(WcReqs)

\* Settled by their own, and settled ones do not wait.
WcSettles(pending, settled) ==
  /\ \A s \in settled : s.no = s.by /\ s.no \in Nat /\ s.no <= wcCount
  /\ \A p \in pending, s \in settled : s.no # p.no

\* The inductive invariant.
WcInv ==
  /\ wcCount \in Nat /\ wcNextId = wcCount + 1 /\ wcSelected \in WcArgs
  /\ WcGood(AsIs) /\ WcSettles(wcPending, wcSettled)

\* What a step of the page does to its requests: at most one more is made.
WcStep(left) == quiet(left) \/ \E kind \in WcKinds, arg \in WcArgs : Ask(kind, arg, left)

\* The requests in progress.
LEMMA AsIsFields == AsIs.pending = wcPending /\ AsIs.alarms = wcAlarms /\ AsIs.asked = wcAsked
  BY DEF AsIs

\* A step that goes on from good leftovers keeps the invariant.
LEMMA AskingKeeps ==
  ASSUME WcInv, NEW left, WcGood(left), WcSettles(left.pending, wcSettled'), WcStep(left), wcSelected' \in WcArgs
  PROVE  WcInv'
<1>1. wcCount \in Nat /\ wcNextId = wcCount + 1 BY DEF WcInv
<1>2. CASE quiet(left)
  <2>1. UNCHANGED <<wcCount, wcNextId>> /\ wcPending' = left.pending /\ wcAlarms' = left.alarms /\ wcAsked' = left.asked
    BY <1>2 DEF quiet
  <2>2. WcReqs' = WcReqs BY <2>1 DEF WcReqs
  <2>3. WcGood(AsIs)' BY <2>1, <2>2, AsIsFields DEF WcGood, AsIs
  <2>4. WcSettles(wcPending, wcSettled)' BY <2>1 DEF WcSettles
  <2> QED BY <1>1, <2>1, <2>3, <2>4 DEF WcInv
<1>3. ASSUME NEW kind \in WcKinds, NEW arg \in WcArgs, Ask(kind, arg, left) PROVE WcInv'
  <2> DEFINE req == [id |-> wcNextId, no |-> wcCount + 1, kind |-> kind, arg |-> arg]
  <2>1. /\ wcNextId' = wcNextId + 1 /\ wcCount' = wcCount + 1 /\ wcAlarms' = left.alarms \cup {req}
        /\ wcPending' = {p \in left.pending : p.id # req.id} \cup {req} /\ wcAsked' = Append(left.asked, req)
    BY <1>3 DEF Ask
  <2>2. req \in WcFrame /\ req.id = wcCount + 1 /\ req.no = wcCount + 1 BY <1>1 DEF WcFrame
  <2> HIDE DEF req
  <2>3. req \in WcReqs' BY <1>1, <2>1, <2>2 DEF WcReqs
  <2>4. WcReqs \subseteq WcReqs'
    <3>1. \A q \in WcReqs : q \in WcFrame /\ q.no \in Nat /\ q.id = q.no /\ q.no <= wcCount BY DEF WcReqs, WcFrame
    <3>2. \A q \in WcReqs : q.no <= wcCount' BY <1>1, <2>1, <3>1
    <3> QED BY <3>1, <3>2 DEF WcReqs
  <2>5. left.asked \in Seq(WcReqs') BY <2>4 DEF WcGood
  <2>6. Append(left.asked, req) \in Seq(WcReqs') BY <2>3, <2>5
  <2>7. wcPending' \subseteq WcReqs' /\ wcAlarms' \subseteq WcReqs' BY <2>1, <2>3, <2>4 DEF WcGood
  <2>8. WcGood(AsIs)' BY <2>1, <2>6, <2>7, AsIsFields DEF WcGood, AsIs
  <2>9. \A s \in wcSettled' : s.no = s.by /\ s.no \in Nat /\ s.no <= wcCount' /\ s.no # wcCount + 1
    BY <1>1, <2>1 DEF WcSettles
  <2>10. \A p \in wcPending', s \in wcSettled' : s.no # p.no BY <2>1, <2>2, <2>9 DEF WcSettles
  <2>11. WcSettles(wcPending, wcSettled)' BY <2>9, <2>10 DEF WcSettles
  <2>12. wcCount' \in Nat /\ wcNextId' = wcCount' + 1 BY <1>1, <2>1
  <2> QED BY <2>8, <2>11, <2>12 DEF WcInv
<1> QED BY <1>2, <1>3 DEF WcStep

\* What is asked and selected when a request is settled.
LEMMA SettlingSteps ==
  ASSUME WcInv, NEW left, NEW q \in WcReqs, resolved(q, left) \/ rejected(q.kind, left)
  PROVE  WcStep(left) /\ wcSelected' \in WcArgs
<1>1. wcSelected \in WcArgs /\ NoSession \in WcArgs /\ q.arg \in WcArgs BY DEF WcInv, WcArgs, WcReqs, WcFrame
<1>2. ASSUME NEW kind \in WcKinds, rpc(kind, NoSession, left) PROVE WcStep(left) BY <1>1, <1>2 DEF rpc, WcStep
<1>3. ASSUME quiet(left) PROVE WcStep(left) BY <1>3 DEF WcStep
<1>4. refreshAll(left) => WcStep(left) BY <1>2 DEF refreshAll, WcKinds
<1>5. CASE resolved(q, left)
  BY <1>1, <1>2, <1>3, <1>4, <1>5 DEF resolved, clearFeed, wcPage, WcArgs, WcKinds
<1>6. CASE rejected(q.kind, left)
  BY <1>1, <1>3, <1>4, <1>6 DEF rejected, wcPage
<1> QED BY <1>5, <1>6

\* Settling what waits under the id of a request settles that request.
LEMMA SettlesOwn ==
  ASSUME WcInv, NEW q \in WcReqs, WcRecord(Waiting(q.id), q.no)
  PROVE  WcSettles(wcPending \ Waiting(q.id), wcSettled')
<1>1. wcSettled' = wcSettled \cup {[no |-> p.no, by |-> q.no] : p \in Waiting(q.id)} BY DEF WcRecord
<1>2. \A p \in wcPending : p.id = p.no /\ p.no \in Nat /\ p.no <= wcCount BY DEF WcInv, WcGood, AsIs, WcReqs, WcFrame
<1>3. q.id = q.no BY DEF WcReqs
<1>4. ASSUME NEW s \in wcSettled', s \notin wcSettled PROVE s.no = q.no /\ s.by = q.no /\ q.no \in Nat /\ q.no <= wcCount
  <2>1. PICK p \in Waiting(q.id) : s = [no |-> p.no, by |-> q.no] BY <1>1, <1>4
  <2> QED BY <1>2, <1>3, <2>1 DEF Waiting
<1>5. \A s \in wcSettled' : s.no = s.by /\ s.no \in Nat /\ s.no <= wcCount BY <1>4 DEF WcInv, WcSettles
<1>6. ASSUME NEW p \in wcPending \ Waiting(q.id), NEW s \in wcSettled' PROVE s.no # p.no
  <2>1. p.no # q.no BY <1>2, <1>3 DEF Waiting
  <2>2. s \in wcSettled => s.no # p.no BY DEF WcInv, WcSettles
  <2> QED BY <1>4, <2>1, <2>2
<1> QED BY <1>5, <1>6 DEF WcSettles

\* Every step of the page keeps the invariant.
LEMMA ConsoleKept == WcInv /\ [WcNext]_wcVars => WcInv'
<1> SUFFICES ASSUME WcInv, [WcNext]_wcVars PROVE WcInv'
  OBVIOUS
<1>0. wcSelected \in WcArgs /\ NoSession \in WcArgs /\ WcGood(AsIs) /\ WcSettles(wcPending, wcSettled) BY DEF WcInv, WcArgs
<1>1. ASSUME UNCHANGED <<wcNextId, wcCount, wcPending, wcAlarms, wcSettled>>, wcAsked' \in {wcAsked, <<>>},
             wcSelected' \in WcArgs
      PROVE  WcInv'
  <2> DEFINE left == [pending |-> wcPending, alarms |-> wcAlarms, asked |-> wcAsked']
  <2>1. left.pending = wcPending /\ left.alarms = wcAlarms /\ left.asked = wcAsked' OBVIOUS
  <2> HIDE DEF left
  <2>0. wcPending \subseteq WcReqs /\ wcAlarms \subseteq WcReqs /\ wcAsked \in Seq(WcReqs) BY <1>0, AsIsFields DEF WcGood
  <2>2. wcPending \subseteq WcReqs /\ wcAlarms \subseteq WcReqs /\ wcAsked' \in Seq(WcReqs)
    <3>1. CASE wcAsked' = wcAsked BY <2>0, <3>1
    <3>2. CASE wcAsked' = <<>> BY <2>0, <3>2
    <3> QED BY <1>1, <3>1, <3>2
  <2>3. WcGood(left) BY <2>1, <2>2 DEF WcGood
  <2>4. quiet(left) BY <1>1, <2>1 DEF quiet
  <2> QED BY <1>0, <1>1, <2>1, <2>3, <2>4, AskingKeeps DEF WcStep
<1>2. ASSUME UNCHANGED wcSettled, wcSelected' \in WcArgs, WcStep(AsIs) PROVE WcInv'
  BY <1>0, <1>2, AskingKeeps, AsIsFields
<1>3. ASSUME NEW kind \in WcKinds, NEW arg \in WcArgs, rpc(kind, arg, AsIs), UNCHANGED wcSettled, wcSelected' \in WcArgs
      PROVE  WcInv'
  BY <1>2, <1>3 DEF rpc, WcStep
<1>4. ASSUME NEW kind \in WcKinds, NEW arg \in WcArgs, Asks(kind, arg), wcSelected' \in WcArgs PROVE WcInv'
  BY <1>3, <1>4 DEF Asks
<1>5. CASE handleResponse
  <2> DEFINE left == [AsIs EXCEPT !.pending = wcPending \ Waiting(Head(wcAsked).id), !.asked = Tail(wcAsked)]
  <2>1. wcAsked \in Seq(WcReqs) /\ wcAsked # <<>> BY <1>0, <1>5, AsIsFields DEF handleResponse, WcGood
  <2>2. PICK q \in WcReqs : q = Head(wcAsked) BY <2>1
  <2>3. left.pending = wcPending \ Waiting(q.id) /\ left.alarms = wcAlarms /\ left.asked = Tail(wcAsked)
    BY <2>2 DEF AsIs
  <2>4. /\ WcRecord(Waiting(q.id), q.no)
        /\ \/ quiet(left) /\ UNCHANGED wcPage
           \/ \E p \in Waiting(q.id) : resolved(p, left) \/ rejected(p.kind, left)
    BY <1>5, <2>2, AsIsFields DEF handleResponse
  <2> HIDE DEF left
  <2>5. WcGood(left) BY <1>0, <2>1, <2>3, AsIsFields DEF WcGood
  <2>6. WcSettles(left.pending, wcSettled') BY <2>3, <2>4, SettlesOwn
  <2>7. Waiting(q.id) \subseteq WcReqs BY <1>0, AsIsFields DEF Waiting, WcGood
  <2>8. WcStep(left) /\ wcSelected' \in WcArgs
    <3>1. CASE quiet(left) /\ UNCHANGED wcPage BY <1>0, <3>1 DEF WcStep, wcPage
    <3>2. ASSUME NEW p \in Waiting(q.id), resolved(p, left) \/ rejected(p.kind, left) PROVE WcStep(left) /\ wcSelected' \in WcArgs
      BY <2>7, <3>2, SettlingSteps
    <3> QED BY <2>4, <3>1, <3>2
  <2> QED BY <2>5, <2>6, <2>8, AskingKeeps
<1>6. CASE rpcTimeout
  <2>1. PICK a \in wcAlarms :
          LET left == [AsIs EXCEPT !.pending = @ \ Waiting(a.id), !.alarms = @ \ {a}]
          IN /\ WcRecord(Waiting(a.id), a.no)
             /\ \/ Waiting(a.id) = {} /\ quiet(left) /\ UNCHANGED wcPage
                \/ \E p \in Waiting(a.id) : rejected(p.kind, left)
    BY <1>6 DEF rpcTimeout
  <2> DEFINE left == [AsIs EXCEPT !.pending = wcPending \ Waiting(a.id), !.alarms = wcAlarms \ {a}]
  <2>2. a \in WcReqs BY <1>0, AsIsFields DEF WcGood
  <2>3. left.pending = wcPending \ Waiting(a.id) /\ left.alarms = wcAlarms \ {a} /\ left.asked = wcAsked
    BY DEF AsIs
  <2>4. /\ WcRecord(Waiting(a.id), a.no)
        /\ \/ quiet(left) /\ UNCHANGED wcPage
           \/ \E p \in Waiting(a.id) : rejected(p.kind, left)
    BY <2>1, AsIsFields
  <2> HIDE DEF left
  <2>5. WcGood(left) BY <1>0, <2>3, AsIsFields DEF WcGood
  <2>6. WcSettles(left.pending, wcSettled') BY <2>2, <2>3, <2>4, SettlesOwn
  <2>7. Waiting(a.id) \subseteq WcReqs BY <1>0, AsIsFields DEF Waiting, WcGood
  <2>8. WcStep(left) /\ wcSelected' \in WcArgs
    <3>1. CASE quiet(left) /\ UNCHANGED wcPage BY <1>0, <3>1 DEF WcStep, wcPage
    <3>2. ASSUME NEW p \in Waiting(a.id), rejected(p.kind, left) PROVE WcStep(left) /\ wcSelected' \in WcArgs
      BY <2>7, <3>2, SettlingSteps
    <3> QED BY <2>4, <3>1, <3>2
  <2> QED BY <2>5, <2>6, <2>8, AskingKeeps
<1>7. CASE doConnect BY <1>0, <1>1, <1>7 DEF doConnect, WcLost, wcPage
<1>8. CASE onOpen
  <2>1. UNCHANGED <<wcSettled, wcSelected>> BY <1>8 DEF onOpen
  <2>2. WcStep(AsIs) BY <1>0, <1>8 DEF onOpen, WcStep, WcKinds
  <2> QED BY <1>0, <1>2, <2>1, <2>2
<1>9. CASE onClose BY <1>0, <1>1, <1>9 DEF onClose, WcLost, wcPage, wcRpc
<1>10. CASE keepalive BY <1>0, <1>3, <1>10 DEF keepalive, wcPage, WcKinds
<1>11. CASE refreshClicked \/ resetSession \/ sessionButtons \/ cronButtons \/ loadCron \/ resolveApproval \/ sessionUpdated
  BY <1>0, <1>4, <1>11
  DEF refreshClicked, resetSession, sessionButtons, cronButtons, loadCron, resolveApproval, sessionUpdated, wcPage, WcKinds
<1>12. CASE loadUsage \/ loadAgents BY <1>0, <1>4, <1>12 DEF loadUsage, loadAgents, switchTab, wcPage, WcKinds
<1>13. CASE loadSession
  <2>1. PICK s \in WcSessions : wcSelected' = s /\ Asks("history", s) BY <1>13 DEF loadSession
  <2> QED BY <1>4, <2>1 DEF WcArgs, WcKinds
<1>14. CASE sendMessage
  <2>1. wcSelected' \in WcArgs BY <1>0, <1>14 DEF sendMessage, wcPage, WcArgs
  <2>2. CASE Asks("send", wcSelected) BY <1>0, <1>4, <2>1, <2>2 DEF WcKinds
  <2>3. CASE refreshAll(AsIs) /\ UNCHANGED wcSettled BY <1>0, <1>3, <2>1, <2>3 DEF refreshAll, WcKinds
  <2> QED BY <1>14, <2>2, <2>3 DEF sendMessage
<1>15. CASE uploadAttachments \/ removeAttachment \/ chatDelta \/ chatEnds \/ approvalRequested \/ UNCHANGED wcVars
  <2>1. UNCHANGED <<wcRpc, wcSelected>>
    BY <1>15 DEF uploadAttachments, removeAttachment, chatDelta, chatEnds, approvalRequested, notStreams, wcVars, wcPage
  <2> QED BY <1>0, <1>1, <2>1 DEF wcRpc
<1> QED
  BY <1>5, <1>6, <1>7, <1>8, <1>9, <1>10, <1>11, <1>12, <1>13, <1>14, <1>15 DEF WcNext, ConnectClicked, ReconnectDue

\* For any number of requests, sockets and sessions: a request is settled at most once, by its
\* own answer or its own timer, however sockets close and timers outlive them.
THEOREM SettledOnce == WcSpec => []SettledByItsOwn
<1>1. WcInit => WcInv
  <2> SUFFICES ASSUME WcInit PROVE WcInv OBVIOUS
  <2>1. wcCount = 0 /\ wcNextId = 1 /\ wcSelected = NoSession /\ wcPending = {} /\ wcAlarms = {} /\ wcAsked = <<>> /\ wcSettled = {}
    BY DEF WcInit
  <2>2. WcGood(AsIs) BY <2>1, AsIsFields DEF WcGood
  <2>3. WcSettles(wcPending, wcSettled) BY <2>1 DEF WcSettles
  <2> QED BY <2>1, <2>2, <2>3 DEF WcInv, WcArgs
<1>2. WcInv => SettledByItsOwn BY DEF WcInv, WcSettles, SettledByItsOwn
<1> QED BY <1>1, <1>2, ConsoleKept, PTL DEF WcSpec

----------------------------------------------------------------------------
(* The media store.                                                         *)

MfSteps == {"new", "scan", "poll", "store", "writing", "meta", "describing", "given", "refused", "lost"}
MfParts == {"none", "part", "whole"}
MfTypes == MfMimes \cup {"none", "image/png", "text/plain; charset=utf-8", "application/octet-stream"}
MfWhats == [size : Nat, mime : MfTypes, flags : Nat]
MfReads == [pc : {"idle", "bytes", "meta", "parse", "served"}, of : MfUploads \cup {"none"}, file : MfParts, mime : MfTypes]

\* The types the proof needs, and what cleanup has in hand is old.
MfTypeOK ==
  /\ mfPc \in [MfUploads -> MfSteps] /\ mfWhat \in [MfUploads -> MfWhats]
  /\ mfFile \in [MfUploads -> MfParts] /\ mfMeta \in [MfUploads -> MfParts]
  /\ mfRead \in [MfReaders -> MfReads]
  /\ mfClean.meta \subseteq mfOld

\* An upload past the scan was cleared, one past its file is whole unless cleanup took it,
\* and one that was described is so unless it is old.
MfUploadOK(u) ==
  /\ mfPc[u] \in {"store", "writing", "meta", "describing", "given"} => MfCleared(u)
  /\ mfPc[u] \in {"meta", "describing", "given"} => mfFile[u] \in {"none", "whole"}
  /\ mfPc[u] = "describing" => mfMeta[u] # "none" \/ u \in mfOld
  /\ mfPc[u] = "given" => mfMeta[u] = "whole" \/ u \in mfOld
  /\ mfPc[u] \in {"scan", "poll"} => mfScanner

\* A read is of an upload that was given out, and has read all of it.
MfReadOK(r) ==
  LET read == mfRead[r]
      u == read.of
  IN /\ read.pc \in {"bytes", "meta", "parse", "served"} => u \in MfUploads /\ mfPc[u] = "given"
     /\ read.pc \in {"meta", "parse", "served"} => read.file = "whole"
     /\ read.pc = "served" =>
          \/ read.mime = mfWhat[u].mime
          \/ u \in mfOld /\ read.mime = mime_for_safe_extension(safe_extension_for_mime(mfWhat[u].mime))

\* The inductive invariant.
MfInv == MfTypeOK /\ (\A u \in MfUploads : MfUploadOK(u)) /\ \A r \in MfReaders : MfReadOK(r)

\* A step of one upload leaves the others and what is given out as they are.
LEMMA UploadSteps ==
  ASSUME MfInv, NEW u \in MfUploads, mfPc[u] # "given", NEW next \in MfSteps, mfPc' = [mfPc EXCEPT ![u] = next],
         mfWhat' \in [MfUploads -> MfWhats], \A v \in MfUploads \ {u} : mfWhat'[v] = mfWhat[v],
         mfFile' \in [MfUploads -> MfParts], \A v \in MfUploads \ {u} : mfFile'[v] = mfFile[v],
         mfMeta' \in [MfUploads -> MfParts], \A v \in MfUploads \ {u} : mfMeta'[v] = mfMeta[v],
         UNCHANGED notUpload, MfUploadOK(u)'
  PROVE  MfInv'
<1>1. UNCHANGED <<mfScanner, mfOld, mfRead, mfClean>> BY DEF notUpload
<1>2. mfPc'[u] = next /\ mfPc' \in [MfUploads -> MfSteps] /\ \A v \in MfUploads \ {u} : mfPc'[v] = mfPc[v] BY DEF MfInv, MfTypeOK
<1>3. MfTypeOK' BY <1>1, <1>2 DEF MfInv, MfTypeOK
<1>4. ASSUME NEW v \in MfUploads PROVE MfUploadOK(v)'
  <2>1. CASE v = u BY <2>1
  <2>2. CASE v # u
    <3>1. MfUploadOK(v) BY DEF MfInv
    <3> QED BY <1>1, <1>2, <2>2, <3>1 DEF MfUploadOK, MfCleared
  <2> QED BY <2>1, <2>2
<1>5. ASSUME NEW r \in MfReaders PROVE MfReadOK(r)'
  <2>1. MfReadOK(r) BY DEF MfInv
  <2>2. mfRead[r].pc \in {"bytes", "meta", "parse", "served"} => mfRead[r].of \in MfUploads \ {u} BY <2>1 DEF MfReadOK
  <2> QED BY <1>1, <1>2, <2>1, <2>2 DEF MfReadOK
<1> QED BY <1>3, <1>4, <1>5 DEF MfInv

\* A step of one reader.
LEMMA ReadSteps ==
  ASSUME MfInv, NEW r \in MfReaders, NEW read \in MfReads, MfSees(r, read), MfReadOK(r)'
  PROVE  MfInv'
<1>1. mfRead' = [mfRead EXCEPT ![r] = read] /\ UNCHANGED <<mfScanner, mfWhat, mfPc, mfFile, mfMeta, mfOld, mfClean>>
  BY DEF MfSees, mfDisk
<1>2. mfRead' \in [MfReaders -> MfReads] /\ \A q \in MfReaders \ {r} : mfRead'[q] = mfRead[q] BY <1>1 DEF MfInv, MfTypeOK
<1>3. MfTypeOK' BY <1>1, <1>2 DEF MfInv, MfTypeOK
<1>4. \A u \in MfUploads : MfUploadOK(u)' BY <1>1 DEF MfInv, MfUploadOK, MfCleared
<1>5. ASSUME NEW q \in MfReaders, q # r PROVE MfReadOK(q)'
  <2>1. MfReadOK(q) BY DEF MfInv
  <2> QED BY <1>1, <1>2, <1>5, <2>1 DEF MfReadOK
<1> QED BY <1>3, <1>4, <1>5 DEF MfInv

\* Every step of the store keeps the invariant.
LEMMA MediaKept == MfInv /\ [MfNext]_mfVars => MfInv'
<1> SUFFICES ASSUME MfInv, [MfNext]_mfVars PROVE MfInv'
  OBVIOUS
<1>t. MfTypeOK BY DEF MfInv
<1>u. ASSUME NEW u \in MfUploads PROVE MfUploadOK(u) /\ mfPc[u] \in MfSteps /\ mfFile[u] \in MfParts /\ mfMeta[u] \in MfParts
  BY DEF MfInv, MfTypeOK
<1>p. ASSUME NEW u \in MfUploads, NEW next, MfGoes(u, next) PROVE mfPc' = [mfPc EXCEPT ![u] = next] /\ mfPc'[u] = next
  BY <1>t, <1>p DEF MfGoes, MfTypeOK
\* Steps that write nothing to the disk.
<1>1. ASSUME NEW u \in MfUploads, NEW next \in MfSteps, MfGoes(u, next), mfPc[u] # "given", UNCHANGED <<mfWhat, mfDisk, notUpload>>, MfUploadOK(u)'
      PROVE  MfInv'
  <2>1. UNCHANGED <<mfWhat, mfFile, mfMeta>> BY <1>1 DEF mfDisk
  <2>2. mfPc' = [mfPc EXCEPT ![u] = next] BY <1>1, <1>p
  <2>3. mfWhat' \in [MfUploads -> MfWhats] /\ mfFile' \in [MfUploads -> MfParts] /\ mfMeta' \in [MfUploads -> MfParts]
    BY <1>t, <2>1 DEF MfTypeOK
  <2> QED BY <1>1, <2>1, <2>2, <2>3, UploadSteps
<1>2. ASSUME NEW u \in MfUploads, media_store(u) PROVE MfInv'
  <2>0. PICK size \in {1, MfScanMax + 1, MfMax + 1}, mime \in MfMimes, flags \in {MfThreshold - 1, MfThreshold} :
          mfWhat' = [mfWhat EXCEPT ![u] = [size |-> size, mime |-> mime, flags |-> flags]]
    BY <1>2 DEF media_store
  <2>c. MfThreshold - 1 \in Nat /\ MfThreshold \in Nat /\ MfScanMax + 1 \in Nat /\ MfMax + 1 \in Nat BY MfConstants DEF MfConstants
  <2>d. size \in Nat /\ flags \in Nat BY <2>c
  <2>a. size \in Nat /\ flags \in Nat /\ mime \in MfTypes BY <2>d DEF MfTypes
  <2>b. [size |-> size, mime |-> mime, flags |-> flags] \in MfWhats BY <2>a DEF MfWhats
  <2>1. PICK w \in MfWhats : mfWhat' = [mfWhat EXCEPT ![u] = w] BY <2>0, <2>b
  <2>2. mfWhat' \in [MfUploads -> MfWhats] /\ \A v \in MfUploads \ {u} : mfWhat'[v] = mfWhat[v] BY <1>t, <2>1 DEF MfTypeOK
  <2>3. PICK next \in {"scan", "store"} : MfGoes(u, next) /\ (next = "scan" <=> mfScanner) BY <1>2 DEF media_store
  <2>4. mfPc' = [mfPc EXCEPT ![u] = next] /\ mfPc'[u] = next BY <1>p, <2>3
  <2>5. UNCHANGED <<mfFile, mfMeta, mfScanner, mfOld>> /\ UNCHANGED notUpload /\ mfPc[u] # "given" BY <1>2 DEF media_store, mfDisk, notUpload
  <2>6. MfUploadOK(u)' BY <2>3, <2>4, <2>5 DEF MfUploadOK, MfCleared
  <2> QED BY <1>t, <2>2, <2>4, <2>5, <2>6, UploadSteps DEF MfTypeOK, MfSteps
<1>3. ASSUME NEW u \in MfUploads, scan(u) PROVE MfInv'
  <2>1. mfPc[u] = "scan" /\ UNCHANGED <<mfWhat, mfDisk, notUpload>> /\ UNCHANGED <<mfScanner, mfWhat>> BY <1>3 DEF scan, notUpload
  <2>2. CASE mfWhat[u].size > MfScanMax /\ MfGoes(u, "store")
    <3>1. mfPc'[u] = "store" BY <1>p, <2>2
    <3>0. mfWhat[u].size \in Nat BY <1>t DEF MfTypeOK, MfWhats
    <3>2. MfCleared(u)' BY <2>1, <2>2, <3>0, MfConstants DEF MfCleared, MfConstants
    <3>3. MfUploadOK(u)' BY <3>1, <3>2 DEF MfUploadOK
    <3> QED BY <1>1, <2>1, <2>2, <3>3 DEF MfSteps
  <2>3. ASSUME NEW next \in {"poll", "refused"}, MfGoes(u, next) PROVE MfInv'
    <3>1. mfPc'[u] = next BY <1>p, <2>3
    <3>2. MfUploadOK(u)' BY <1>u, <2>1, <3>1 DEF MfUploadOK
    <3> QED BY <1>1, <2>1, <2>3, <3>2 DEF MfSteps
  <2> QED BY <1>3, <2>2, <2>3 DEF scan, upload_file
<1>4. ASSUME NEW u \in MfUploads, poll_analysis(u) PROVE MfInv'
  <2>1. mfPc[u] = "poll" /\ UNCHANGED <<mfWhat, mfDisk, notUpload>> /\ UNCHANGED <<mfScanner, mfWhat, mfOld, mfFile, mfMeta>> BY <1>4 DEF poll_analysis, notUpload, mfDisk
  <2>2. ASSUME MfGoes(u, "refused") PROVE MfInv'
    <3>1. mfPc'[u] = "refused" BY <1>p, <2>2
    <3>2. MfUploadOK(u)' BY <3>1 DEF MfUploadOK
    <3> QED BY <1>1, <2>1, <2>2, <3>2 DEF MfSteps
  <2>3. ASSUME MfGoes(u, "store"), mfWhat[u].flags < MfThreshold PROVE MfInv'
    <3>1. mfPc'[u] = "store" BY <1>p, <2>3
    <3>2. MfUploadOK(u)' BY <2>1, <2>3, <3>1 DEF MfUploadOK, MfCleared
    <3> QED BY <1>1, <2>1, <2>3, <3>2 DEF MfSteps
  <2>4. CASE UNCHANGED mfPc
    <3>1. mfPc' = [mfPc EXCEPT ![u] = mfPc[u]] BY <1>t, <2>4 DEF MfTypeOK
    <3>2. MfUploadOK(u)' BY <1>u, <2>1, <2>4 DEF MfUploadOK, MfCleared
    <3> QED BY <1>1, <1>u, <2>1, <3>1, <3>2 DEF MfGoes
  <2> QED BY <1>4, <2>2, <2>3, <2>4 DEF poll_analysis, Verdict, Analyses
<1>5. ASSUME NEW u \in MfUploads, store_unscanned(u) PROVE MfInv'
  <2>1. UNCHANGED <<mfWhat, notUpload>> /\ UNCHANGED <<mfScanner, mfOld>> BY <1>5 DEF store_unscanned, notUpload
  <2>2. ASSUME MfGoes(u, "refused"), UNCHANGED mfDisk, mfPc[u] # "given" PROVE MfInv'
    <3>1. mfPc'[u] = "refused" BY <1>p, <2>2
    <3>2. MfUploadOK(u)' BY <3>1 DEF MfUploadOK
    <3> QED BY <1>1, <2>1, <2>2, <3>2 DEF MfSteps
  <2>3. ASSUME NEW next \in {"writing", "meta"}, MfGoes(u, next), NEW f \in MfParts, mfFile' = [mfFile EXCEPT ![u] = f],
               UNCHANGED mfMeta, mfPc[u] \in {"store", "writing"}, next = "meta" => f \in {"none", "whole"}
        PROVE  MfInv'
    <3>1. mfPc' = [mfPc EXCEPT ![u] = next] /\ mfPc'[u] = next BY <1>p, <2>3
    <3>2. mfFile'[u] = f /\ mfFile' \in [MfUploads -> MfParts] /\ \A v \in MfUploads \ {u} : mfFile'[v] = mfFile[v]
      BY <1>t, <2>3 DEF MfTypeOK
    <3>3. MfCleared(u)' BY <1>u, <2>1, <2>3 DEF MfUploadOK, MfCleared
    <3>4. MfUploadOK(u)' BY <2>3, <3>1, <3>2, <3>3 DEF MfUploadOK
    <3> QED BY <1>t, <2>1, <2>3, <3>1, <3>2, <3>4, UploadSteps DEF MfTypeOK, MfSteps
  <2>4. CASE mfPc[u] = "store" /\ MfGoes(u, "writing") /\ mfFile' = [mfFile EXCEPT ![u] = "part"] /\ UNCHANGED mfMeta
    BY <2>3, <2>4 DEF MfParts
  <2>5. CASE /\ mfPc[u] = "writing" /\ MfGoes(u, "meta") /\ UNCHANGED mfMeta
             /\ mfFile' = [mfFile EXCEPT ![u] = IF @ = "none" THEN "none" ELSE "whole"]
    <3>1. PICK f \in {"none", "whole"} : mfFile' = [mfFile EXCEPT ![u] = f] BY <2>5
    <3> QED BY <2>3, <2>5, <3>1 DEF MfParts
  <2> QED BY <1>5, <2>2, <2>4, <2>5 DEF store_unscanned
<1>6. ASSUME NEW u \in MfUploads, write_metadata(u) PROVE MfInv'
  <2>1. UNCHANGED <<mfWhat, mfFile, notUpload>> /\ UNCHANGED <<mfScanner, mfOld>> BY <1>6 DEF write_metadata, notUpload
  <2>2. PICK next \in {"describing", "given"}, k \in MfParts :
          /\ MfGoes(u, next) /\ mfMeta' = [mfMeta EXCEPT ![u] = k] /\ mfPc[u] \in {"meta", "describing"}
          /\ next = "describing" => k # "none"
          /\ next = "given" => mfPc[u] = "describing" /\ (k = "whole" \/ (k = "none" /\ mfMeta[u] = "none"))
    BY <1>6 DEF write_metadata, MfParts
  <2>3. mfPc' = [mfPc EXCEPT ![u] = next] /\ mfPc'[u] = next BY <1>p, <2>2
  <2>4. mfMeta'[u] = k /\ mfMeta' \in [MfUploads -> MfParts] /\ \A v \in MfUploads \ {u} : mfMeta'[v] = mfMeta[v]
    BY <1>t, <2>2 DEF MfTypeOK
  <2>5. MfCleared(u)' BY <1>u, <2>1, <2>2 DEF MfUploadOK, MfCleared
  <2>6. MfUploadOK(u)' BY <1>u, <2>1, <2>2, <2>3, <2>4, <2>5 DEF MfUploadOK
  <2> QED BY <1>t, <2>1, <2>2, <2>3, <2>4, <2>6, UploadSteps DEF MfTypeOK, MfSteps
<1>7. ASSUME NEW r \in MfReaders, NEW u \in MfUploads, resolve_path(r, u) PROVE MfInv'
  <2>a. PICK idle : idle = Reading OBVIOUS
  <2>b. idle \in MfReads /\ idle.pc = "idle" BY <2>a DEF Reading, MfReads, MfParts, MfTypes
  <2>1. PICK read : MfSees(r, read) /\ (read = idle \/ read = [idle EXCEPT !.pc = "bytes", !.of = u])
    BY <1>7, <2>a DEF resolve_path
  <2>c. read \in MfReads /\ read.pc \in {"idle", "bytes"} /\ (read.pc = "bytes" => read.of = u)
    <3>1. CASE read = idle BY <2>b, <3>1
    <3>2. CASE read = [idle EXCEPT !.pc = "bytes", !.of = u] BY <2>b, <3>2 DEF MfReads
    <3> QED BY <2>1, <3>1, <3>2
  <2>0. read \in MfReads BY <2>c
  <2>2. read.pc \in {"idle", "bytes"} /\ (read.pc = "bytes" => read.of = u) BY <2>c
  <2>3. mfRead'[r] = read /\ UNCHANGED <<mfWhat, mfPc>> /\ mfPc[u] = "given"
    BY <1>t, <1>7, <2>1 DEF MfSees, MfTypeOK, resolve_path
  <2>4. MfReadOK(r)' BY <2>2, <2>3 DEF MfReadOK
  <2> QED BY <2>0, <2>1, <2>4, ReadSteps
<1>8. ASSUME NEW r \in MfReaders, media_read(r) PROVE MfInv'
  <2>1. MfReadOK(r) /\ mfRead[r].pc = "bytes" BY <1>8 DEF MfInv, media_read
  <2>2. PICK u \in MfUploads : u = mfRead[r].of /\ mfPc[u] = "given" BY <2>1 DEF MfReadOK
  <2>3. mfFile[u] # "none" => mfFile[u] = "whole" BY <1>u, <2>2 DEF MfUploadOK
  <2>4. PICK read : MfSees(r, read) /\ read = IF mfFile[u] = "none" THEN Reading ELSE [mfRead[r] EXCEPT !.pc = "meta", !.file = mfFile[u]]
    BY <1>8, <2>2 DEF media_read
  <2>5. mfRead'[r] = read /\ UNCHANGED <<mfWhat, mfPc>> BY <1>t, <2>4 DEF MfSees, MfTypeOK
  <2>6. CASE mfFile[u] = "none"
    <3>1. read \in MfReads /\ read.pc = "idle" BY <2>4, <2>6 DEF Reading, MfReads, MfParts, MfTypes
    <3>2. MfReadOK(r)' BY <2>5, <3>1 DEF MfReadOK
    <3> QED BY <2>4, <3>1, <3>2, ReadSteps
  <2>7. CASE mfFile[u] # "none"
    <3>0. mfRead[r] \in MfReads BY <1>t DEF MfTypeOK
    <3>1. read = [mfRead[r] EXCEPT !.pc = "meta", !.file = "whole"] BY <2>3, <2>4, <2>7
    <3>2. read \in MfReads /\ read.pc = "meta" /\ read.file = "whole" /\ read.of = u BY <2>2, <3>0, <3>1 DEF MfReads, MfParts
    <3>3. MfReadOK(r)' BY <2>2, <2>5, <3>2 DEF MfReadOK
    <3> QED BY <2>4, <3>2, <3>3, ReadSteps
  <2> QED BY <2>6, <2>7
<1>9. ASSUME NEW r \in MfReaders, read_metadata(r) PROVE MfInv'
  <2>0. MfReadOK(r) /\ mfRead[r] \in MfReads BY <1>t DEF MfInv, MfTypeOK
  <2>1. mfRead[r].pc \in {"meta", "parse"} BY <1>9 DEF read_metadata
  <2>2. PICK u \in MfUploads : u = mfRead[r].of /\ mfPc[u] = "given" BY <2>0, <2>1 DEF MfReadOK
  <2>3. mfRead[r].file = "whole" BY <2>0, <2>1 DEF MfReadOK
  <2> DEFINE guess == mime_for_safe_extension(safe_extension_for_mime(mfWhat[u].mime))
  <2>4. guess \in MfTypes /\ mfWhat[u].mime \in MfTypes
    <3>1. guess \in {"image/png", "text/plain; charset=utf-8", "application/octet-stream"} BY DEF mime_for_safe_extension
    <3> QED BY <1>t, <3>1 DEF MfTypeOK, MfWhats, MfTypes
  <2> HIDE DEF guess
  <2>5. ASSUME NEW read \in MfReads, MfSees(r, read), read.pc \in {"idle", "parse", "served"},
               read.pc # "idle" => read.of = u /\ read.file = "whole",
               read.pc = "served" => read.mime = mfWhat[u].mime \/ (u \in mfOld /\ read.mime = guess)
        PROVE  MfInv'
    <3>1. mfRead'[r] = read /\ UNCHANGED <<mfWhat, mfPc, mfOld>> BY <1>t, <2>5 DEF MfSees, MfTypeOK
    <3>2. MfReadOK(r)' BY <2>2, <2>5, <3>1 DEF MfReadOK, guess
    <3> QED BY <2>5, <3>2, ReadSteps
  <2>6. ASSUME NEW mime \in MfTypes, MfSees(r, [mfRead[r] EXCEPT !.pc = "served", !.mime = mime]),
               mime = mfWhat[u].mime \/ (u \in mfOld /\ mime = guess)
        PROVE  MfInv'
    <3>1. PICK read : read = [mfRead[r] EXCEPT !.pc = "served", !.mime = mime] OBVIOUS
    <3>2. read \in MfReads /\ read.pc = "served" /\ read.mime = mime /\ read.of = u /\ read.file = "whole"
      BY <2>0, <2>2, <2>3, <3>1 DEF MfReads
    <3> QED BY <2>5, <2>6, <3>1, <3>2
  <2>7. CASE mfRead[r].pc = "meta" /\ mfMeta[u] # "none"
    <3>1. PICK read : read = [mfRead[r] EXCEPT !.pc = "parse"] /\ MfSees(r, read) BY <1>9, <2>2, <2>7 DEF read_metadata
    <3>2. read \in MfReads /\ read.pc = "parse" /\ read.of = u /\ read.file = "whole" BY <2>0, <2>2, <2>3, <3>1 DEF MfReads
    <3> QED BY <2>5, <3>1, <3>2
  <2>8. CASE mfRead[r].pc = "meta" /\ mfMeta[u] = "none"
    <3>1. MfSees(r, [mfRead[r] EXCEPT !.pc = "served", !.mime = guess]) BY <1>9, <2>2, <2>8 DEF read_metadata, guess
    <3>2. u \in mfOld BY <1>u, <2>2, <2>8 DEF MfUploadOK
    <3> QED BY <2>4, <2>6, <3>1, <3>2
  <2>9. CASE mfRead[r].pc = "parse" /\ mfMeta[u] = "whole"
    <3>1. MfSees(r, [mfRead[r] EXCEPT !.pc = "served", !.mime = mfWhat[u].mime]) BY <1>9, <2>2, <2>9 DEF read_metadata
    <3> QED BY <2>4, <2>6, <3>1
  <2>10. CASE mfRead[r].pc = "parse" /\ mfMeta[u] # "whole"
    <3>1. MfSees(r, Reading) BY <1>9, <2>2, <2>10 DEF read_metadata
    <3>2. Reading \in MfReads /\ Reading.pc = "idle" BY DEF Reading, MfReads, MfParts, MfTypes
    <3> QED BY <2>5, <3>1, <3>2
  <2> QED BY <2>1, <2>7, <2>8, <2>9, <2>10
\* Steps that only take files away, of old uploads.
<1>10. ASSUME UNCHANGED <<mfScanner, mfWhat, mfPc, mfRead>>, mfOld \subseteq mfOld', mfClean'.meta \subseteq mfOld',
              mfFile' \in [MfUploads -> MfParts], mfMeta' \in [MfUploads -> MfParts],
              \A u \in MfUploads : mfFile'[u] \in {mfFile[u], "none"},
              \A u \in MfUploads : mfMeta'[u] = mfMeta[u] \/ u \in mfOld
       PROVE  MfInv'
  <2>1. MfTypeOK' BY <1>t, <1>10 DEF MfTypeOK
  <2>2. ASSUME NEW u \in MfUploads PROVE MfUploadOK(u)'
    <3>1. MfUploadOK(u) BY <1>u
    <3> QED BY <1>10, <3>1 DEF MfUploadOK, MfCleared
  <2>3. ASSUME NEW r \in MfReaders PROVE MfReadOK(r)'
    <3>1. MfReadOK(r) BY DEF MfInv
    <3> QED BY <1>10, <3>1 DEF MfReadOK
  <2> QED BY <2>1, <2>2, <2>3 DEF MfInv
<1>11. ASSUME NEW u \in MfUploads, Ages(u) PROVE MfInv'
  BY <1>t, <1>10, <1>11 DEF Ages, mfDisk, MfTypeOK
<1>12. CASE cleanup_lists
  <2>1. mfClean'.meta = {} BY <1>12 DEF cleanup_lists
  <2> QED BY <1>t, <1>10, <1>12, <2>1 DEF cleanup_lists, mfDisk, notClean, MfTypeOK
<1>13. ASSUME NEW u \in MfUploads, cleanup(u) PROVE MfInv'
  <2>1. UNCHANGED <<mfScanner, mfWhat, mfPc, mfRead, mfOld>> BY <1>13 DEF cleanup, notClean
  <2>2. CASE u \in mfClean.todo /\ mfClean.meta = {} /\ UNCHANGED mfMeta /\ u \notin mfClean.meta
    <3>1. mfClean'.meta \subseteq mfOld BY <1>13, <2>2 DEF cleanup
    <3>2. mfFile' \in [MfUploads -> MfParts] /\ \A v \in MfUploads : mfFile'[v] \in {mfFile[v], "none"}
      BY <1>t, <1>13, <2>2 DEF cleanup, MfTypeOK, MfParts
    <3> QED BY <1>t, <1>10, <2>1, <2>2, <3>1, <3>2 DEF MfTypeOK
  <2>3. CASE u \in mfClean.meta
    <3>1. mfMeta' = [mfMeta EXCEPT ![u] = "none"] /\ UNCHANGED mfFile /\ mfClean' = [mfClean EXCEPT !.meta = {}] /\ u \in mfOld
      BY <1>t, <1>13, <2>3 DEF cleanup, MfTypeOK
    <3>2. mfClean'.meta = {} BY <1>t, <3>1 DEF MfTypeOK
    <3>3. mfMeta' \in [MfUploads -> MfParts] /\ \A v \in MfUploads \ {u} : mfMeta'[v] = mfMeta[v] BY <1>t, <3>1 DEF MfTypeOK, MfParts
    <3> QED BY <1>t, <1>10, <2>1, <3>1, <3>2, <3>3 DEF MfTypeOK
  <2> QED BY <1>13, <2>2, <2>3 DEF cleanup
<1>14. CASE MfCrash
  <2>1. /\ UNCHANGED <<mfScanner, mfWhat, mfFile, mfMeta, mfOld>> /\ mfClean' = CleanIdle /\ mfRead' = [r \in MfReaders |-> Reading]
        /\ mfPc' = [u \in MfUploads |-> IF mfPc[u] \in {"new", "given", "refused"} THEN mfPc[u] ELSE "lost"]
    BY <1>14 DEF MfCrash, mfDisk
  <2>2. mfClean'.meta = {} BY <2>1 DEF CleanIdle
  <2>3. Reading \in MfReads /\ Reading.pc = "idle" BY DEF Reading, MfReads, MfParts, MfTypes
  <2>4. mfPc' \in [MfUploads -> MfSteps] BY <1>t, <2>1 DEF MfTypeOK, MfSteps
  <2>5. MfTypeOK' BY <1>t, <2>1, <2>2, <2>3, <2>4 DEF MfTypeOK
  <2>6. ASSUME NEW u \in MfUploads PROVE MfUploadOK(u)'
    <3>1. mfPc'[u] \in {"new", "refused", "lost"} \/ (mfPc[u] = "given" /\ mfPc'[u] = "given") BY <2>1
    <3> QED BY <1>u, <2>1, <3>1 DEF MfUploadOK, MfCleared
  <2>7. ASSUME NEW r \in MfReaders PROVE MfReadOK(r)' BY <2>1, <2>3 DEF MfReadOK
  <2> QED BY <2>5, <2>6, <2>7 DEF MfInv
<1>15. CASE UNCHANGED mfVars BY <1>t, <1>10, <1>15 DEF mfVars, mfDisk, MfTypeOK
<1> QED
  BY <1>2, <1>3, <1>4, <1>5, <1>6, <1>7, <1>8, <1>9, <1>11, <1>12, <1>13, <1>14, <1>15 DEF MfNext

\* For any uploads, readers, types and limits: a read serves the whole file of its id with the type
\* it came with (or the extension's once it is old), and never one the scan found malicious,
\* however uploads, reads, cleanup and ends of the process interleave.
THEOREM ServesWhatWasStored == MfSpec => []ServedAsStored
<1>1. open_media_store => MfInv
  <2> SUFFICES ASSUME open_media_store PROVE MfInv OBVIOUS
  <2>1. NoFile \in MfWhats BY DEF NoFile, MfWhats, MfTypes
  <2>2. Reading \in MfReads /\ Reading.pc = "idle" BY DEF Reading, MfReads, MfParts, MfTypes
  <2>3. mfClean.meta = {} BY DEF open_media_store, CleanIdle
  <2>4. MfTypeOK BY <2>1, <2>2, <2>3 DEF open_media_store, MfTypeOK, MfSteps, MfParts
  <2>5. \A u \in MfUploads : MfUploadOK(u) BY DEF open_media_store, MfUploadOK
  <2>6. \A r \in MfReaders : MfReadOK(r) BY <2>2 DEF open_media_store, MfReadOK
  <2> QED BY <2>4, <2>5, <2>6 DEF MfInv
<1>2. MfInv => ServedAsStored
  <2> SUFFICES ASSUME MfInv, NEW r \in MfReaders, mfRead[r].pc = "served"
               PROVE  /\ mfRead[r].file = "whole" /\ MfCleared(mfRead[r].of)
                      /\ \/ mfRead[r].mime = mfWhat[mfRead[r].of].mime
                         \/ /\ mfRead[r].of \in mfOld
                            /\ mfRead[r].mime = mime_for_safe_extension(safe_extension_for_mime(mfWhat[mfRead[r].of].mime))
    BY DEF ServedAsStored
  <2>1. MfReadOK(r) BY DEF MfInv
  <2>2. mfRead[r].of \in MfUploads /\ mfPc[mfRead[r].of] = "given" BY <2>1 DEF MfReadOK
  <2>3. MfCleared(mfRead[r].of) BY <2>2 DEF MfInv, MfUploadOK
  <2> QED BY <2>1, <2>3 DEF MfReadOK
<1> QED BY <1>1, <1>2, MediaKept, PTL DEF MfSpec
----------------------------------------------------------------------------
(* Texts: what is trimmed stays as it is when it is trimmed again.          *)

\* A text that begins and ends in ink is not trimmed.
LEMMA InkedEnds ==
  ASSUME NEW s \in Seq(STRING), Len(s) \in Nat \ {0}, s[1] # WS, s[Len(s)] # WS
  PROVE  Trim(s) = s
<1>1. Inked(s) \in SUBSET (0..Len(s)) /\ 1 \in Inked(s) /\ Len(s) \in Inked(s) BY DEF Inked
<1>2. Min(Inked(s)) \in Inked(s) /\ Min(Inked(s)) <= 1 /\ Max(Inked(s)) \in Inked(s) /\ Max(Inked(s)) >= Len(s)
  BY <1>1, FirstAndLast
<1>3. Min(Inked(s)) = 1 /\ Max(Inked(s)) = Len(s) BY <1>2 DEF Inked
<1>4. SubSeq(s, 1, Len(s)) = s OBVIOUS
<1> QED BY <1>1, <1>3, <1>4 DEF Trim

LEMMA TrimTwice ==
  ASSUME NEW s \in Seq(STRING)
  PROVE  Trim(s) \in Seq(STRING) /\ Trim(Trim(s)) = Trim(s)
<1>1. CASE Inked(s) = {}
  <2>1. Trim(s) = <<>> BY <1>1 DEF Trim
  <2>2. Inked(<<>>) = {} BY DEF Inked
  <2>3. Trim(<<>>) = <<>> BY <2>2 DEF Trim
  <2> QED BY <2>1, <2>3
<1>2. CASE Inked(s) # {}
  <2>1. Inked(s) \in SUBSET (0..Len(s)) /\ Len(s) \in Nat BY DEF Inked
  <2>2. PICK m \in Inked(s), k \in Inked(s) : m = Min(Inked(s)) /\ k = Max(Inked(s)) /\ m <= k BY <1>2, <2>1, FirstAndLast
  <2>3. m \in 1..Len(s) /\ k \in 1..Len(s) /\ s[m] # WS /\ s[k] # WS /\ m <= k BY <2>2 DEF Inked
  <2>4. Trim(s) = SubSeq(s, m, k) BY <1>2, <2>2 DEF Trim
  <2>5. PICK t : t = SubSeq(s, m, k) OBVIOUS
  <2>6. t \in Seq(STRING) /\ Len(t) = k - m + 1 /\ \A i \in 1..Len(t) : t[i] = s[m + i - 1] BY <2>3, <2>5
  <2>7. Len(t) \in Nat \ {0} /\ t[1] = s[m] /\ t[Len(t)] = s[k]
    <3>1. Len(t) \in Nat \ {0} BY <2>3, <2>6
    <3>2. 1 \in 1..Len(t) /\ Len(t) \in 1..Len(t) /\ m + 1 - 1 = m /\ m + Len(t) - 1 = k BY <2>3, <2>6, <3>1
    <3> QED BY <2>6, <3>1, <3>2
  <2>8. Trim(t) = t BY <2>3, <2>6, <2>7, InkedEnds
  <2> QED BY <2>4, <2>5, <2>6, <2>8
<1> QED BY <1>1, <1>2

\* A draft that is still to be updated begins with less than its piece.
LEMMA PreviewIsLess ==
  ASSUME NEW text \in Seq(STRING), Len(StreamSteps(text)) = 3
  PROVE  StreamSteps(text)[1] # text
<1> DEFINE s == Trim(text)
           first == Preview(s, Len(s) \div 3)
           second == Preview(s, (2 * Len(s)) \div 3)
<1>0. s \in Seq(STRING) BY TrimTwice
<1>1. first # <<>> /\ StreamSteps(text)[1] = first
  <2> DEFINE one == IF first = <<>> THEN <<>> ELSE <<first>>
             two == IF second = <<>> \/ second = first THEN <<>> ELSE <<second>>
  <2> HIDE DEF s, first, second
  <2>1. StreamSteps(text) = IF Len(s) < StreamMin THEN <<s>> ELSE Append(one \o two, s)
    BY DEF StreamSteps, s, first, second
  <2>2. Len(<<s>>) = 1 OBVIOUS
  <2>3. StreamSteps(text) = Append(one \o two, s) BY <2>1, <2>2
  <2>4. first # <<>> BY <2>3
  <2> QED BY <2>3, <2>4
<1>2. ASSUME first = text PROVE FALSE
  <2>1. PICK e \in 0..Len(s) : first = IF Trim(SubSeq(s, 1, e)) = s THEN <<>> ELSE Trim(SubSeq(s, 1, e))
    <3> DEFINE breaks == {i \in 1..Len(s) : i >= Len(s) \div 3 /\ s[i] \in {WS, Punct}}
    <3>0. breaks \in SUBSET (0..Len(s)) /\ Len(s) \in Nat BY <1>0
    <3>1. breaks # {} => Min(breaks) \in breaks
      <4> HIDE DEF breaks, s
      <4> QED BY <3>0, FirstAndLast
    <3>2. (IF breaks = {} THEN Len(s) ELSE Min(breaks)) \in 0..Len(s) BY <3>0, <3>1
    <3> QED BY <3>2 DEF Preview
  <2>2. first = Trim(SubSeq(s, 1, e)) /\ first # s BY <1>1, <2>1
  <2>3. SubSeq(s, 1, e) \in Seq(STRING) BY <1>0, <2>1
  <2>4. Trim(first) = first BY <2>2, <2>3, TrimTwice
  <2> QED BY <1>2, <2>2, <2>4
<1> QED BY <1>1, <1>2

----------------------------------------------------------------------------
(* Splitting: what split_outbound_message makes of a text and its files.    *)

\* The places of a sequence that hold no white space.
LEMMA InkedIs ==
  ASSUME NEW C, NEW s \in Seq(C)
  PROVE  /\ Inked(s) \in SUBSET (0..Len(s)) /\ Len(s) \in Nat /\ DOMAIN s = 1..Len(s)
         /\ \A i \in 1..Len(s) : i \in Inked(s) <=> s[i] # WS
         /\ \A i \in Inked(s) : i \in 1..Len(s)
BY DEF Inked

\* A trimmed text reaches from its first place that is inked to the last.
LEMMA TrimIs ==
  ASSUME NEW C, NEW s \in Seq(C)
  PROVE  /\ Inked(s) = {} => Trim(s) = <<>>
         /\ Inked(s) # {} => \E a, b \in 1..Len(s) :
              /\ Trim(s) = SubSeq(s, a, b) /\ a <= b /\ s[a] # WS /\ s[b] # WS
              /\ \A i \in 1..Len(s) : s[i] # WS => i \in a..b
<1>1. CASE Inked(s) = {} BY <1>1 DEF Trim
<1>2. CASE Inked(s) # {}
  <2> DEFINE a == Min(Inked(s))
             b == Max(Inked(s))
  <2>1. Trim(s) = SubSeq(s, a, b) BY <1>2 DEF Trim
  <2>2. a \in Inked(s) /\ b \in Inked(s) /\ \A i \in Inked(s) : a <= i /\ b >= i BY <1>2, InkedIs, FirstAndLast
  <2> HIDE DEF a, b
  <2>3. a \in 1..Len(s) /\ b \in 1..Len(s) /\ s[a] # WS /\ s[b] # WS BY <2>2, InkedIs
  <2>4. a <= b BY <2>2
  <2>5. \A i \in 1..Len(s) : s[i] # WS => i \in a..b
    <3> SUFFICES ASSUME NEW i \in 1..Len(s), s[i] # WS PROVE i \in a..b OBVIOUS
    <3>1. i \in Inked(s) BY InkedIs
    <3>2. a <= i /\ b >= i BY <2>2, <3>1
    <3> QED BY <2>3, <3>2
  <2> QED BY <1>2, <2>1, <2>3, <2>4, <2>5
<1> QED BY <1>1, <1>2

\* A text that begins with ink is trimmed at its end only.
LEMMA TrimEnd ==
  ASSUME NEW C, NEW s \in Seq(C), Len(s) > 0, s[1] # WS
  PROVE  \E b \in 1..Len(s) : /\ Trim(s) = SubSeq(s, 1, b) /\ s[b] # WS
                              /\ \A i \in (b + 1)..Len(s) : s[i] = WS
<1>1. 1 \in 1..Len(s) OBVIOUS
<1>2. 1 \in Inked(s) BY <1>1, InkedIs
<1>3. PICK a, b \in 1..Len(s) : /\ Trim(s) = SubSeq(s, a, b) /\ a <= b /\ s[a] # WS /\ s[b] # WS
                                /\ \A i \in 1..Len(s) : s[i] # WS => i \in a..b
  BY <1>2, TrimIs
<1>4. a = 1
  <2>1. 1 \in a..b BY <1>1, <1>3
  <2> QED BY <2>1
<1>5. \A i \in (b + 1)..Len(s) : s[i] = WS
  <2> SUFFICES ASSUME NEW i \in (b + 1)..Len(s) PROVE s[i] = WS OBVIOUS
  <2>1. i \in 1..Len(s) /\ i \notin a..b OBVIOUS
  <2> QED BY <1>3, <2>1
<1> QED BY <1>3, <1>4, <1>5

\* Where a text that is too long is cut: before white space, or after as many characters as
\* are allowed, all of them inked.
LEMMA CutIs ==
  ASSUME NEW C, NEW s \in Seq(C), NEW max \in Nat \ {0}, max < Len(s), s[1] # WS
  PROVE  /\ Cut(s, max) \in 1..max
         /\ s[Cut(s, max) + 1] = WS \/ (Cut(s, max) = max /\ \A i \in 1..max : s[i] # WS)
<1> DEFINE ws == {i \in 1..max : s[i] = WS}
<1>1. ws \in SUBSET (0..max) /\ max \in Nat OBVIOUS
<1>2. CASE ws = {}
  <2>1. Cut(s, max) = max BY <1>2 DEF Cut
  <2>2. \A i \in 1..max : s[i] # WS BY <1>2
  <2>3. max \in 1..max OBVIOUS
  <2> QED BY <2>1, <2>2, <2>3
<1>3. CASE ws # {}
  <2>1. Max(ws) \in ws
    <3> HIDE DEF ws
    <3> QED BY <1>1, <1>3, FirstAndLast
  <2>2. Max(ws) \in 1..max /\ s[Max(ws)] = WS /\ Max(ws) # 1 BY <2>1
  <2>3. Cut(s, max) = Max(ws) - 1 BY <1>3, <2>2 DEF Cut
  <2> HIDE DEF ws
  <2>4. PICK m : m = Max(ws) OBVIOUS
  <2>5. m - 1 \in 1..max /\ m - 1 + 1 = m BY <2>2, <2>4
  <2> QED BY <2>2, <2>3, <2>4, <2>5
<1> QED BY <1>2, <1>3

\* The piece of s at i ends at e, and the next one begins at k.
CutsAt(s, max, i, e, k) ==
  /\ e \in i..Len(s) /\ k \in (i + 1)..(Len(s) + 1) /\ e < k /\ e - i < max
  /\ Chunk(s, max, i) = SubSeq(s, i, e) /\ NextAt(s, max, i) = k
  /\ s[e] # WS /\ \A x \in (e + 1)..(k - 1) : s[x] = WS
  /\ k <= Len(s) => s[k] # WS /\ (WordsFit(s, max) => e + 1 < k)

\* Each piece of a text is cut off at white space, if there is any in its reach.
LEMMA ChunkIs ==
  ASSUME NEW C, NEW s \in Seq(C), NEW max \in Nat \ {0}, NEW i \in 1..Len(s), s[i] # WS, s[Len(s)] # WS
  PROVE  \E e, k : CutsAt(s, max, i, e, k)
<1> DEFINE L == Len(s)
           r == SubSeq(s, i, L)
           c == Cut(r, max)
           h == SubSeq(r, 1, c)
<1>0. L \in Nat /\ i \in Nat /\ i <= L OBVIOUS
<1>1. r \in Seq(C) /\ Len(r) = L + 1 - i /\ \A x \in 1..(L + 1 - i) : r[x] = s[i + x - 1]
  <2>1. i \in Nat \ {0} /\ L \in Nat /\ L <= Len(s) /\ i <= L + 1 OBVIOUS
  <2> QED BY <2>1, SubSeqIs
<1>2. CASE Len(r) <= max
  <2>1. Chunk(s, max, i) = SubSeq(s, i, L) BY <1>2 DEF Chunk
  <2>2. NextAt(s, max, i) = L + 1 BY <1>2 DEF NextAt
  <2> HIDE DEF r, c, h
  <2>3. L \in i..L /\ L + 1 \in (i + 1)..(L + 1) /\ L < L + 1 /\ L - i < max /\ ~(L + 1 <= L) BY <1>0, <1>1, <1>2
  <2>4. \A x \in (L + 1)..(L + 1 - 1) : s[x] = WS BY <1>0
  <2>5. CutsAt(s, max, i, L, L + 1) BY <2>1, <2>2, <2>3, <2>4 DEF CutsAt
  <2> QED BY <2>5
<1>3. CASE ~(Len(r) <= max)
  <2>1. max < Len(r) /\ i + max <= L /\ max \in Nat
    <3> HIDE DEF r
    <3> QED BY <1>0, <1>1, <1>3
  <2>2. r[1] = s[i] /\ \A x \in 1..(max + 1) : r[x] = s[i + x - 1]
    <3> HIDE DEF r
    <3>1. \A x \in 1..(max + 1) : x \in 1..(L + 1 - i) BY <1>0, <2>1
    <3>2. 1 \in 1..(L + 1 - i) /\ i + 1 - 1 = i BY <1>0
    <3> QED BY <1>1, <3>1, <3>2
  <2>3. c \in 1..max /\ (r[c + 1] = WS \/ (c = max /\ \A x \in 1..max : r[x] # WS))
    <3> HIDE DEF r
    <3> QED BY <1>1, <2>1, <2>2, CutIs
  <2>4. h \in Seq(C) /\ Len(h) = c /\ \A x \in 1..c : h[x] = r[x]
    <3> HIDE DEF r, c
    <3>1. 1 \in Nat \ {0} /\ c \in Nat /\ c <= Len(r) /\ 1 <= c + 1 /\ c + 1 - 1 = c BY <2>1, <2>3
    <3>2. \A x \in 1..c : 1 + x - 1 = x OBVIOUS
    <3>3. Len(h) = c + 1 - 1 /\ h \in Seq(C) /\ \A x \in 1..(c + 1 - 1) : h[x] = r[1 + x - 1] BY <1>1, <3>1, SubSeqIs
    <3> QED BY <3>1, <3>2, <3>3
  <2>5. PICK b \in 1..c : Trim(h) = SubSeq(h, 1, b) /\ h[b] # WS /\ \A x \in (b + 1)..c : h[x] = WS
    <3> HIDE DEF r, c, h
    <3>1. Len(h) > 0 /\ h[1] # WS
      <4>1. 1 \in 1..c BY <2>3
      <4> QED BY <2>2, <2>3, <2>4, <4>1
    <3> QED BY <2>4, <3>1, TrimEnd
  <2> DEFINE e == i + b - 1
  <2>6. SubSeq(h, 1, b) = SubSeq(s, i, e)
    <3> HIDE DEF c
    <3>1. Len(r) \in Nat /\ 1 \in 1..Len(r) /\ c \in 1..Len(r) /\ 1 \in 1..(c - 1 + 1) /\ b \in 1..(c - 1 + 1) /\ 1 + 1 - 1 = 1 /\ 1 + b - 1 = b
      <4> HIDE DEF r
      <4> QED BY <2>1, <2>3
    <3>2. SubSeq(h, 1, b) = SubSeq(r, 1, b)
      <4> HIDE DEF r
      <4>1. SubSeq(SubSeq(r, 1, c), 1, b) = SubSeq(r, 1 + 1 - 1, 1 + b - 1) BY <1>1, <3>1, SubSeqOfSubSeq
      <4> QED BY <3>1, <4>1
    <3>3. L \in 1..Len(s) /\ 1 \in 1..(L - i + 1) /\ b \in 1..(L - i + 1) /\ i + 1 - 1 = i BY <1>0, <2>1, <2>3
    <3>4. SubSeq(SubSeq(s, i, L), 1, b) = SubSeq(s, i + 1 - 1, i + b - 1) BY <3>3, SubSeqOfSubSeq
    <3> QED BY <3>2, <3>3, <3>4
  <2>7. Chunk(s, max, i) = SubSeq(s, i, e)
    <3>1. SubSeq(h, 1, b) # <<>>
      <4> HIDE DEF h, c, r
      <4>1. 1 \in Nat \ {0} /\ b \in Nat /\ b <= Len(h) /\ 1 <= b + 1 /\ b + 1 - 1 # 0 BY <2>3, <2>4
      <4>2. Len(SubSeq(h, 1, b)) = b + 1 - 1 BY <2>4, <4>1, SubSeqIs
      <4>3. Len(<<>>) = 0 OBVIOUS
      <4> QED BY <4>1, <4>2, <4>3
    <3>2. Chunk(s, max, i) = Trim(h) BY <1>3, <2>5, <3>1 DEF Chunk
    <3> QED BY <2>5, <2>6, <3>2
  <2> DEFINE k == SkipBlank(s, i + c)
             J == {x \in Inked(s) : x >= i + c}
  <2>8. NextAt(s, max, i) = k BY <1>3 DEF NextAt
  <2>9. k \in J /\ \A x \in J : k <= x
    <3> HIDE DEF c
    <3>1. L \in J
      <4>1. L \in 1..L BY <1>0
      <4>2. L \in Inked(s) BY <4>1, InkedIs
      <4>3. L >= i + c BY <2>1, <2>3
      <4> QED BY <4>2, <4>3
    <3>2. J \cup {L + 1} \in SUBSET (0..(L + 1)) /\ L + 1 \in Nat
      <4>1. \A x \in Inked(s) : x \in 1..L BY InkedIs
      <4> QED BY <4>1
    <3>3. k = Min(J \cup {L + 1}) BY DEF SkipBlank
    <3> HIDE DEF J, k
    <3>4. J \cup {L + 1} # {} OBVIOUS
    <3>5. k \in J \cup {L + 1} /\ \A x \in J \cup {L + 1} : k <= x BY <3>2, <3>3, <3>4, FirstAndLast
    <3>6. k # L + 1
      <4>1. k <= L BY <3>1, <3>5
      <4> QED BY <1>0, <4>1
    <3> QED BY <3>5, <3>6
  <2>10. k \in 1..L /\ k >= i + c /\ s[k] # WS /\ \A x \in 1..L : x >= i + c /\ s[x] # WS => k <= x
    <3> HIDE DEF k, c
    <3>1. \A x \in 1..L : x >= i + c /\ s[x] # WS => x \in J BY InkedIs
    <3>2. \A x \in J : x \in 1..L /\ x >= i + c /\ s[x] # WS BY InkedIs
    <3> HIDE DEF J
    <3> QED BY <2>9, <3>1, <3>2
  <2> HIDE DEF k, J, h, r, c
  <2>11. e \in i..L /\ e < k /\ e - i < max /\ k \in (i + 1)..(L + 1) /\ e < i + c /\ i + b - 1 = e
    BY <1>0, <2>1, <2>3, <2>10
  <2>12. s[e] # WS
    <3>1. b \in 1..c /\ b \in 1..(max + 1) BY <2>3
    <3> QED BY <2>2, <2>4, <2>5, <3>1
  <2>13. ASSUME NEW x \in (e + 1)..(k - 1) PROVE s[x] = WS
    <3>1. CASE x >= i + c
      <4>1. x \in 1..L /\ ~(k <= x) BY <1>0, <2>10, <2>11
      <4> QED BY <2>10, <3>1, <4>1
    <3>2. CASE ~(x >= i + c)
      <4>1. PICK y : y = x - i + 1 OBVIOUS
      <4>2. y \in (b + 1)..c /\ y \in 1..c /\ y \in 1..(max + 1) /\ i + y - 1 = x BY <1>0, <2>3, <2>11, <3>2, <4>1
      <4>3. h[y] = WS /\ h[y] = r[y] /\ r[y] = s[i + y - 1] BY <2>2, <2>4, <2>5, <4>2
      <4> QED BY <4>2, <4>3
    <3> QED BY <3>1, <3>2
  <2>14. WordsFit(s, max) => e + 1 < k
    <3> SUFFICES ASSUME WordsFit(s, max) PROVE e + 1 < k OBVIOUS
    <3>1. s[i + c] = WS
      <4>1. PICK x : x = c + 1 OBVIOUS
      <4>2. x \in 1..(max + 1) /\ i + x - 1 = i + c BY <2>3, <4>1
      <4>3. r[c + 1] = s[i + c] BY <2>2, <4>1, <4>2
      <4>4. CASE c = max /\ \A y \in 1..max : r[y] # WS
        <5>1. i \in 1..(Len(s) - max) BY <1>0, <2>1
        <5>2. PICK z \in i..(i + max) : z \notin Inked(s) BY <5>1 DEF WordsFit
        <5>3. z \in 1..L /\ z \in Nat BY <1>0, <2>1, <5>2
        <5>4. s[z] = WS BY <5>2, <5>3, InkedIs
        <5>5. CASE z = i + max BY <4>4, <5>4, <5>5
        <5>6. CASE z # i + max
          <6>1. PICK y : y = z - i + 1 OBVIOUS
          <6>2. y \in 1..max /\ y \in 1..(max + 1) /\ i + y - 1 = z BY <1>0, <2>1, <5>2, <5>6, <6>1
          <6>3. r[y] = s[z] BY <2>2, <6>2
          <6> QED BY <4>4, <5>4, <6>2, <6>3
        <5> QED BY <5>5, <5>6
      <4> QED BY <2>3, <4>3, <4>4
    <3>2. k # i + c BY <2>10, <3>1
    <3> QED BY <1>0, <2>3, <2>10, <2>11, <3>2
  <2> HIDE DEF e
  <2>15. CutsAt(s, max, i, e, k) BY <2>7, <2>8, <2>10, <2>11, <2>12, <2>13, <2>14 DEF CutsAt
  <2> QED BY <2>15
<1> QED BY <1>2, <1>3

\* The pieces from each place on: the one that is cut off there, then those from the next place.
Strung(f, N, Stop, P, nxt) == f = [k \in 1..N |-> IF k \in Stop THEN <<>> ELSE <<P[k]>> \o f[nxt[k]]]

\* There is such a recursion.
LEMMA StrungExists ==
  ASSUME NEW N \in Nat, NEW Stop, NEW P, NEW nxt, Forward(N, Stop, nxt)
  PROVE  \E f : Strung(f, N, Stop, P, nxt)
<1> DEFINE Part(f, n) == f = [k \in (N + 1 - n)..N |-> IF k \in Stop THEN <<>> ELSE <<P[k]>> \o f[nxt[k]]]
           H == {n \in 0..N : \E f : Part(f, n)}
<1>1. \E f : Part(f, 0)
  <2> DEFINE f == [k \in (N + 1 - 0)..N |-> k]
  <2>1. (N + 1 - 0)..N = {} OBVIOUS
  <2>2. f = [k \in (N + 1 - 0)..N |-> IF k \in Stop THEN <<>> ELSE <<P[k]>> \o f[nxt[k]]] BY <2>1
  <2> QED BY <2>2
<1>2. ASSUME NEW n \in 0..(N - 1), NEW f, Part(f, n) PROVE \E g : Part(g, n + 1)
  <2> DEFINE k0 == N - n
             g == [k \in k0..N |-> IF k = k0 THEN (IF k0 \in Stop THEN <<>> ELSE <<P[k0]>> \o f[nxt[k0]]) ELSE f[k]]
  <2>1. k0 \in 1..N /\ N + 1 - n = k0 + 1 /\ N + 1 - (n + 1) = k0 OBVIOUS
  <2>2. \A k \in k0..N : k = k0 \/ k \in (k0 + 1)..N OBVIOUS
  <2>3. \A k \in (k0 + 1)..N : f[k] = IF k \in Stop THEN <<>> ELSE <<P[k]>> \o f[nxt[k]]
    <3> HIDE DEF k0
    <3>1. f = [k \in (k0 + 1)..N |-> IF k \in Stop THEN <<>> ELSE <<P[k]>> \o f[nxt[k]]] BY <1>2, <2>1
    <3> QED BY <3>1
  <2>4. \A k \in k0..N : k \notin Stop => nxt[k] \in k0..N /\ nxt[k] > k0
    <3> HIDE DEF k0
    <3>1. \A k \in k0..N : k \in 1..N /\ k \in Nat BY <2>1
    <3> QED BY <2>1, <3>1 DEF Forward
  <2>5. \A j \in k0..N : j > k0 => g[j] = f[j] BY <2>1
  <2>6. \A k \in k0..N : g[k] = IF k \in Stop THEN <<>> ELSE <<P[k]>> \o g[nxt[k]]
    <3> SUFFICES ASSUME NEW k \in k0..N PROVE g[k] = IF k \in Stop THEN <<>> ELSE <<P[k]>> \o g[nxt[k]] OBVIOUS
    <3>1. k \notin Stop => g[nxt[k]] = f[nxt[k]] BY <2>4, <2>5
    <3>2. CASE k = k0 BY <3>1, <3>2
    <3>3. CASE k # k0
      <4>1. k \in (k0 + 1)..N BY <2>2, <3>3
      <4>2. g[k] = f[k] BY <3>3
      <4> HIDE DEF g, k0
      <4> QED BY <2>3, <3>1, <4>1, <4>2
    <3> QED BY <3>2, <3>3
  <2>7. g = [k \in k0..N |-> IF k \in Stop THEN <<>> ELSE <<P[k]>> \o g[nxt[k]]]
    <3>1. g = [k \in k0..N |-> g[k]] OBVIOUS
    <3> HIDE DEF g, k0
    <3> QED BY <2>6, <3>1
  <2>8. Part(g, n + 1)
    <3> HIDE DEF g, k0
    <3> QED BY <2>1, <2>7
  <2> QED BY <2>8
<1>3. N \in H
  <2> HIDE DEF Part
  <2>1. 0 \in H BY <1>1
  <2>2. \A n \in 0..(N - 1) : n \in H => n + 1 \in H BY <1>2
  <2> HIDE DEF H
  <2> QED BY <2>1, <2>2, InductionUpTo
<1>4. PICK f : Part(f, N) BY <1>3
<1>5. N + 1 - N = 1 OBVIOUS
<1>6. f = [k \in 1..N |-> IF k \in Stop THEN <<>> ELSE <<P[k]>> \o f[nxt[k]]] BY <1>4, <1>5
<1> QED BY <1>6 DEF Strung

\* Wherever a piece is cut off, the next one begins further on.
LEMMA NextIsFurther ==
  ASSUME NEW C, NEW s \in Seq(C), NEW max \in Nat \ {0}, NEW i \in 1..(Len(s) + 1)
  PROVE  /\ i <= Len(s) => NextAt(s, max, i) \in (i + 1)..(Len(s) + 1)
         /\ i = Len(s) + 1 => Chunk(s, max, i) = <<>>
<1> DEFINE L == Len(s)
           r == SubSeq(s, i, L)
           c == Cut(r, max)
           J == {x \in Inked(s) : x >= i + c} \cup {L + 1}
<1>0. L \in Nat /\ i \in Nat OBVIOUS
<1>1. r \in Seq(C) /\ Len(r) = L + 1 - i
  <2>1. i \in Nat \ {0} /\ L \in Nat /\ L <= Len(s) /\ i <= L + 1 OBVIOUS
  <2> QED BY <2>1, SubSeqIs
<1>2. i = L + 1 => Chunk(s, max, i) = <<>>
  <2> SUFFICES ASSUME i = L + 1 PROVE Chunk(s, max, i) = <<>> OBVIOUS
  <2>1. Len(r) <= max
    <3> HIDE DEF r
    <3> QED BY <1>0, <1>1
  <2>2. Chunk(s, max, i) = r BY <2>1 DEF Chunk
  <2>3. r = <<>>
    <3> HIDE DEF r
    <3>1. Len(r) = 0 BY <1>0, <1>1
    <3> QED BY <1>1, <3>1, EmptySeq
  <2> QED BY <2>2, <2>3
<1>3. ASSUME i <= L PROVE NextAt(s, max, i) \in (i + 1)..(L + 1)
  <2>1. CASE Len(r) <= max
    <3>1. NextAt(s, max, i) = L + 1 BY <2>1 DEF NextAt
    <3> QED BY <1>0, <1>3, <3>1
  <2>2. CASE ~(Len(r) <= max)
    <3>1. c \in Nat /\ c >= 1
      <4> HIDE DEF r
      <4> DEFINE ws == {x \in 1..max : r[x] = WS}
      <4>1. CASE ws = {} \/ Max(ws) = 1
        <5>1. c = max BY <4>1 DEF Cut
        <5> QED BY <5>1
      <4>2. CASE ~(ws = {} \/ Max(ws) = 1)
        <5>1. c = Max(ws) - 1 BY <4>2 DEF Cut
        <5>2. ws \in SUBSET (0..max) /\ max \in Nat OBVIOUS
        <5>3. Max(ws) \in ws
          <6> HIDE DEF ws
          <6> QED BY <4>2, <5>2, FirstAndLast
        <5>4. Max(ws) \in 1..max /\ Max(ws) # 1 BY <4>2, <5>3
        <5> HIDE DEF c, ws
        <5> QED BY <5>1, <5>4
      <4> QED BY <4>1, <4>2
    <3>2. NextAt(s, max, i) = Min(J) BY <2>2 DEF NextAt, SkipBlank
    <3> HIDE DEF c
    <3>3. J \in SUBSET (0..(L + 1)) /\ L + 1 \in Nat
      <4>1. \A x \in Inked(s) : x \in 1..L BY InkedIs
      <4> QED BY <1>0, <4>1
    <3>4. Min(J) \in J
      <4>1. J # {} OBVIOUS
      <4> HIDE DEF J
      <4> QED BY <3>3, <4>1, FirstAndLast
    <3>5. \A x \in J : x > i
      <4>1. \A x \in Inked(s) : x \in 1..L BY InkedIs
      <4>2. \A x \in 1..L : x >= i + c => x > i BY <1>0, <3>1
      <4>3. L + 1 > i BY <1>0, <1>3
      <4> QED BY <4>1, <4>2, <4>3
    <3> HIDE DEF J
    <3>6. Min(J) \in 0..(L + 1) /\ Min(J) > i BY <3>3, <3>4, <3>5
    <3> QED BY <1>0, <3>2, <3>6
  <2> QED BY <2>1, <2>2
<1> QED BY <1>2, <1>3

\* Places in s from i on, one behind the other, that hold all its ink and no more than max each.
Laid(s, max, i, n, from, to) ==
  /\ n \in Nat /\ from \in [1..n -> i..Len(s)] /\ to \in [1..n -> i..Len(s)]
  /\ \A j \in 1..n : from[j] <= to[j] /\ to[j] - from[j] < max /\ s[to[j]] # WS
  /\ \A j, k \in 1..n : j < k => to[j] < from[k] /\ (WordsFit(s, max) => to[j] + 1 < from[k])
  /\ \A x \in i..Len(s) : s[x] # WS => \E j \in 1..n : x \in from[j]..to[j]

Parts(s, n, from, to) == [j \in 1..n |-> SubSeq(s, from[j], to[j])]

\* A piece before the others.
LEMMA LaidBefore ==
  ASSUME NEW C, NEW s \in Seq(C), NEW max \in Nat \ {0}, NEW i \in 1..Len(s), s[i] # WS,
         NEW e, NEW k, CutsAt(s, max, i, e, k),
         NEW n, NEW from, NEW to, Laid(s, max, k, n, from, to)
  PROVE  \E m, from2, to2 : /\ m # 0 /\ Laid(s, max, i, m, from2, to2)
                            /\ Parts(s, m, from2, to2) = <<SubSeq(s, i, e)>> \o Parts(s, n, from, to)
<1> DEFINE L == Len(s)
           m == n + 1
           from2 == [j \in 1..m |-> IF j = 1 THEN i ELSE from[j - 1]]
           to2 == [j \in 1..m |-> IF j = 1 THEN e ELSE to[j - 1]]
<1>0. L \in Nat /\ n \in Nat /\ i \in Nat /\ e \in Nat /\ k \in Nat /\ i <= e /\ e <= L /\ e < k /\ e - i < max /\ max \in Nat
      /\ k \in (i + 1)..(L + 1)
  BY DEF Laid, CutsAt
<1>1. /\ \A j \in 1..n : from[j] \in k..L /\ to[j] \in k..L /\ from[j] <= to[j] /\ to[j] - from[j] < max /\ s[to[j]] # WS
      /\ \A j, l \in 1..n : j < l => to[j] < from[l] /\ (WordsFit(s, max) => to[j] + 1 < from[l])
      /\ \A x \in k..L : s[x] # WS => \E j \in 1..n : x \in from[j]..to[j]
  BY DEF Laid
<1>2. from2[1] = i /\ to2[1] = e
  <2>1. 1 \in 1..m BY <1>0
  <2> QED BY <2>1
<1>3. ASSUME NEW j \in 2..m PROVE j - 1 \in 1..n /\ from2[j] = from[j - 1] /\ to2[j] = to[j - 1] /\ j \in 1..m
  <2>1. j \in 1..m /\ j # 1 /\ j - 1 \in 1..n BY <1>0
  <2> QED BY <2>1
<1>4. \A j \in 1..m : j = 1 \/ j \in 2..m BY <1>0
<1>5. from2 \in [1..m -> i..L] /\ to2 \in [1..m -> i..L]
  <2>1. \A j \in 1..n : from[j] \in i..L /\ to[j] \in i..L BY <1>0, <1>1
  <2>2. i \in i..L /\ e \in i..L BY <1>0
  <2>3. \A j \in 1..m : from2[j] \in i..L /\ to2[j] \in i..L BY <1>2, <1>3, <1>4, <2>1, <2>2
  <2>4. from2 = [j \in 1..m |-> from2[j]] /\ to2 = [j \in 1..m |-> to2[j]] OBVIOUS
  <2> HIDE DEF from2, to2
  <2> QED BY <2>3, <2>4
<1> HIDE DEF from2, to2
<1>6. \A j \in 1..m : from2[j] <= to2[j] /\ to2[j] - from2[j] < max /\ s[to2[j]] # WS
  <2>1. s[e] # WS BY DEF CutsAt
  <2>2. ASSUME NEW j \in 1..m PROVE from2[j] <= to2[j] /\ to2[j] - from2[j] < max /\ s[to2[j]] # WS
    <3>1. CASE j = 1 BY <1>0, <1>2, <2>1, <3>1
    <3>2. CASE j \in 2..m BY <1>1, <1>3, <3>2
    <3> QED BY <1>4, <3>1, <3>2
  <2> QED BY <2>2
<1>7. ASSUME NEW j \in 1..m, NEW l \in 1..m, j < l
      PROVE  to2[j] < from2[l] /\ (WordsFit(s, max) => to2[j] + 1 < from2[l])
  <2>1. l \in 2..m BY <1>0, <1>7
  <2>2. l - 1 \in 1..n /\ from2[l] = from[l - 1] BY <1>3, <2>1
  <2>3. CASE j = 1
    <3>1. from[l - 1] \in k..L BY <1>1, <2>2
    <3>2. k <= L BY <1>0, <3>1
    <3>3. WordsFit(s, max) => e + 1 < k BY <3>2 DEF CutsAt
    <3> QED BY <1>0, <1>2, <2>2, <2>3, <3>1, <3>3
  <2>4. CASE j # 1
    <3>1. j \in 2..m BY <1>0, <2>4
    <3>2. j - 1 \in 1..n /\ to2[j] = to[j - 1] BY <1>3, <3>1
    <3>3. j - 1 < l - 1 BY <1>0, <1>7
    <3> QED BY <1>1, <2>2, <3>2, <3>3
  <2> QED BY <2>3, <2>4
<1>8. ASSUME NEW x \in i..L, s[x] # WS PROVE \E j \in 1..m : x \in from2[j]..to2[j]
  <2>1. 1 \in 1..m BY <1>0
  <2>2. CASE x <= e BY <1>0, <1>2, <2>1, <2>2
  <2>3. CASE ~(x <= e)
    <3>1. x \notin (e + 1)..(k - 1) BY <1>8 DEF CutsAt
    <3>2. x \in k..L BY <1>0, <2>3, <3>1
    <3>3. PICK j \in 1..n : x \in from[j]..to[j] BY <1>1, <1>8, <3>2
    <3>4. PICK y : y = j + 1 OBVIOUS
    <3>5. y \in 2..m /\ y - 1 = j BY <1>0, <3>4
    <3>6. x \in from2[y]..to2[y] /\ y \in 1..m BY <1>3, <3>3, <3>5
    <3> QED BY <3>6
  <2> QED BY <2>2, <2>3
<1>9. m \in Nat /\ m # 0 BY <1>0
<1>10. Laid(s, max, i, m, from2, to2)
  <2> HIDE DEF m
  <2> QED BY <1>5, <1>6, <1>7, <1>8, <1>9 DEF Laid
<1>11. Parts(s, m, from2, to2) = <<SubSeq(s, i, e)>> \o Parts(s, n, from, to)
  <2> DEFINE p == SubSeq(s, i, e)
             ps == Parts(s, n, from, to)
             qs == Parts(s, m, from2, to2)
             T == {p} \cup {ps[j] : j \in 1..n}
  <2>1. ps = [j \in 1..n |-> SubSeq(s, from[j], to[j])] /\ qs = [j \in 1..m |-> SubSeq(s, from2[j], to2[j])] BY DEF Parts
  <2>2. qs[1] = p /\ \A j \in 2..m : qs[j] = ps[j - 1]
    <3>1. 1 \in 1..m BY <1>0
    <3>2. qs[1] = p BY <1>2, <2>1, <3>1
    <3>3. ASSUME NEW j \in 2..m PROVE qs[j] = ps[j - 1]
      <4>1. j \in 1..m /\ j - 1 \in 1..n /\ from2[j] = from[j - 1] /\ to2[j] = to[j - 1] BY <1>3
      <4> QED BY <2>1, <4>1
    <3> QED BY <3>2, <3>3
  <2>3. ps = [j \in 1..n |-> ps[j]] /\ qs = [j \in 1..m |-> qs[j]] BY <2>1
  <2> HIDE DEF ps, qs, p, from2, to2, m
  <2>4. p \in T /\ \A j \in 1..n : ps[j] \in T OBVIOUS
  <2> HIDE DEF T
  <2>5. ps \in Seq(T) /\ Len(ps) = n
    <3>1. ps \in [1..n -> T] BY <2>3, <2>4
    <3> QED BY <1>0, <3>1
  <2>6. <<p>> \in Seq(T) /\ Len(<<p>>) = 1 /\ <<p>>[1] = p BY <2>4
  <2> DEFINE us == <<p>> \o ps
  <2>7. us \in Seq(T) /\ Len(us) = n + 1 /\ us[1] = p /\ \A j \in 1..n : us[1 + j] = ps[j] BY <1>0, <2>5, <2>6
  <2> HIDE DEF us
  <2>8. m = n + 1 BY DEF m
  <2>9. ASSUME NEW j \in 1..m PROVE qs[j] = us[j]
    <3>1. CASE j = 1 BY <2>2, <2>7, <3>1
    <3>2. CASE j # 1
      <4>1. j \in 2..m /\ j - 1 \in 1..n /\ 1 + (j - 1) = j BY <1>0, <2>8, <3>2
      <4> QED BY <2>2, <2>7, <4>1
    <3> QED BY <3>1, <3>2
  <2>10. us = [j \in 1..m |-> us[j]]
    <3>1. us \in [1..Len(us) -> T] BY <2>7
    <3>2. us \in [1..m -> T] BY <2>7, <2>8, <3>1
    <3> QED BY <3>2
  <2> QED BY <2>3, <2>9, <2>10 DEF us, p, ps, qs
<1> QED BY <1>9, <1>10, <1>11

\* As SplitText recurs.
Pieced(f, s, max) ==
  Strung(f, Len(s) + 1, {i \in 1..(Len(s) + 1) : Chunk(s, max, i) = <<>>},
         [i \in 1..(Len(s) + 1) |-> Chunk(s, max, i)], [i \in 1..(Len(s) + 1) |-> NextAt(s, max, i)])

\* The pieces from a place on that is inked, or from the end on.
LEMMA PiecesLaid ==
  ASSUME NEW C, NEW s \in Seq(C), NEW max \in Nat \ {0}, s # <<>> => s[Len(s)] # WS,
         NEW f, Pieced(f, s, max), NEW b \in 1..(Len(s) + 1), b <= Len(s) => s[b] # WS
  PROVE  \E n, from, to : /\ Laid(s, max, b, n, from, to) /\ f[b] = Parts(s, n, from, to)
                          /\ b <= Len(s) => n # 0
<1> DEFINE L == Len(s)
           N == L + 1
           Stop == {i \in 1..N : Chunk(s, max, i) = <<>>}
           P == [i \in 1..N |-> Chunk(s, max, i)]
           nxt == [i \in 1..N |-> NextAt(s, max, i)]
           Fine(i) == \E n, from, to : /\ Laid(s, max, i, n, from, to) /\ f[i] = Parts(s, n, from, to)
                                       /\ i < N => n # 0
           H == {q \in 0..L : \A i \in (N - q)..N : (i < N => s[i] # WS) => Fine(i)}
<1>0. L \in Nat /\ N = L + 1 /\ N \in Nat OBVIOUS
<1>1. \A i \in 1..N : f[i] = IF i \in Stop THEN <<>> ELSE <<P[i]>> \o f[nxt[i]]
  <2>1. f = [i \in 1..N |-> IF i \in Stop THEN <<>> ELSE <<P[i]>> \o f[nxt[i]]] BY DEF Pieced, Strung
  <2> QED BY <2>1
<1>2. Fine(N)
  <2>1. N \in 1..N /\ N = Len(s) + 1 BY <1>0
  <2>2. Chunk(s, max, N) = <<>> BY <2>1, NextIsFurther
  <2>3. f[N] = <<>> BY <1>1, <2>1, <2>2
  <2> DEFINE g == [j \in 1..0 |-> 0]
  <2>4. 1..0 = {} /\ N..Len(s) = {} BY <1>0
  <2>5. g \in [1..0 -> N..Len(s)] BY <2>4
  <2>6. Laid(s, max, N, 0, g, g) BY <2>4, <2>5 DEF Laid
  <2>7. Parts(s, 0, g, g) = <<>>
    <3>1. Parts(s, 0, g, g) = [j \in 1..0 |-> SubSeq(s, g[j], g[j])] BY DEF Parts
    <3> QED BY <2>4, <3>1
  <2> QED BY <1>0, <2>3, <2>6, <2>7
<1>3. ASSUME NEW i \in 1..L, s[i] # WS, \A k \in (i + 1)..N : (k < N => s[k] # WS) => Fine(k)
      PROVE  Fine(i)
  <2>1. s[L] # WS
    <3>1. s # <<>> BY EmptySeq
    <3> QED BY <3>1
  <2>2. PICK e, k : CutsAt(s, max, i, e, k) BY <1>3, <2>1, ChunkIs
  <2>3. k \in (i + 1)..N /\ (k < N => s[k] # WS) /\ e \in i..L BY <1>0, <2>2 DEF CutsAt
  <2>4. PICK n, from, to : Laid(s, max, k, n, from, to) /\ f[k] = Parts(s, n, from, to) BY <1>3, <2>3
  <2>5. PICK m, from2, to2 : /\ m # 0 /\ Laid(s, max, i, m, from2, to2)
                             /\ Parts(s, m, from2, to2) = <<SubSeq(s, i, e)>> \o Parts(s, n, from, to)
    <3>1. i \in 1..Len(s) /\ s[i] # WS /\ s \in Seq(C) /\ max \in Nat \ {0} BY <1>3
    <3>2. Laid(s, max, k, n, from, to) BY <2>4
    <3> QED BY ONLY <2>2, <3>1, <3>2, LaidBefore
  <2>6. i \in 1..N /\ P[i] = SubSeq(s, i, e) /\ nxt[i] = k BY <1>0, <2>2 DEF CutsAt
  <2>7. i \notin Stop
    <3>1. i \in Nat \ {0} /\ e \in Nat /\ e <= Len(s) /\ i <= e + 1 /\ e + 1 - i # 0 BY <2>3
    <3>2. Len(SubSeq(s, i, e)) = e + 1 - i BY <3>1, SubSeqIs
    <3>3. SubSeq(s, i, e) # <<>> BY <3>1, <3>2, EmptySeq
    <3> QED BY <2>6, <3>3
  <2>8. f[i] = <<P[i]>> \o f[nxt[i]] BY <1>1, <2>6, <2>7
  <2> QED BY <2>4, <2>5, <2>6, <2>8
<1> HIDE DEF Fine
<1>4. 0 \in H
  <2>1. \A i \in (N - 0)..N : i = N BY <1>0
  <2>2. 0 \in 0..L BY <1>0
  <2> QED BY <1>2, <2>1, <2>2
<1>5. ASSUME NEW q \in 0..(L - 1), q \in H PROVE q + 1 \in H
  <2>1. \A i \in (N - (q + 1))..N : i = N - (q + 1) \/ i \in (N - q)..N
    <3>1. PICK w : w = N - q OBVIOUS
    <3>2. w \in Nat /\ N - (q + 1) = w - 1 BY <1>0, <3>1
    <3>3. \A i \in (w - 1)..N : i = w - 1 \/ i \in w..N BY <1>0, <3>2
    <3> QED BY <3>1, <3>2, <3>3
  <2>2. N - (q + 1) \in 1..L /\ N - (q + 1) + 1 = N - q /\ q + 1 \in 0..L BY <1>0
  <2>3. PICK i : i = N - (q + 1) OBVIOUS
  <2>4. \A k \in (i + 1)..N : (k < N => s[k] # WS) => Fine(k) BY <1>5, <2>2, <2>3
  <2>5. (i < N => s[i] # WS) => Fine(i)
    <3>1. i \in 1..L /\ i < N BY <1>0, <2>2, <2>3
    <3> QED BY <1>3, <2>4, <3>1
  <2> QED BY <1>5, <2>1, <2>2, <2>3, <2>5
<1>6. L \in H
  <2> HIDE DEF H
  <2>1. L \in 0..L BY <1>0
  <2> QED BY <1>0, <1>4, <1>5, <2>1, InductionUpTo
<1>7. b \in (N - L)..N BY <1>0
<1>8. Fine(b) BY <1>6, <1>7
<1> QED BY <1>8 DEF Fine

\* A stretch of a stretch is one.
LEMMA StretchOf ==
  ASSUME NEW C, NEW t \in Seq(C), NEW a \in 1..Len(t), NEW b \in a..Len(t),
         NEW c \in 1..(b + 1 - a), NEW d \in c..(b + 1 - a)
  PROVE  SubSeq(SubSeq(t, a, b), c, d) = SubSeq(t, a + c - 1, a + d - 1)
<1>0. a \in Nat /\ b \in Nat /\ c \in Nat /\ d \in Nat /\ Len(t) \in Nat OBVIOUS
<1> DEFINE s == SubSeq(t, a, b)
           u == SubSeq(s, c, d)
           v == SubSeq(t, a + c - 1, a + d - 1)
<1>1. s \in Seq(C) /\ Len(s) = b + 1 - a /\ \A i \in 1..(b + 1 - a) : s[i] = t[a + i - 1]
  <2>1. a \in Nat \ {0} /\ b \in Nat /\ b <= Len(t) /\ a <= b + 1 BY <1>0
  <2> QED BY <2>1, SubSeqIs
<1>2. u \in Seq(C) /\ Len(u) = d + 1 - c /\ \A i \in 1..(d + 1 - c) : u[i] = s[c + i - 1]
  <2>1. c \in Nat \ {0} /\ d \in Nat /\ d <= Len(s) /\ c <= d + 1 BY <1>0, <1>1
  <2> HIDE DEF s
  <2> QED BY <1>1, <2>1, SubSeqIs
<1>3. v \in Seq(C) /\ Len(v) = d + 1 - c /\ \A i \in 1..(d + 1 - c) : v[i] = t[a + c - 1 + i - 1]
  <2>1. PICK p, q : p = a + c - 1 /\ q = a + d - 1 OBVIOUS
  <2>2. p \in Nat \ {0} /\ q \in Nat /\ q <= Len(t) /\ p <= q + 1 /\ q + 1 - p = d + 1 - c BY <1>0, <2>1
  <2>3. /\ SubSeq(t, p, q) \in Seq(C) /\ Len(SubSeq(t, p, q)) = q + 1 - p
        /\ \A i \in 1..(q + 1 - p) : SubSeq(t, p, q)[i] = t[p + i - 1]
    BY <2>2, SubSeqIs
  <2> QED BY <2>1, <2>2, <2>3
<1>4. ASSUME NEW i \in 1..(d + 1 - c) PROVE u[i] = v[i]
  <2>1. PICK j : j = c + i - 1 OBVIOUS
  <2>2. j \in 1..(b + 1 - a) /\ a + j - 1 = a + c - 1 + i - 1 BY <1>0, <2>1
  <2> QED BY <1>1, <1>2, <1>3, <2>1, <2>2
<1> HIDE DEF u, v
<1>5. Len(u) = Len(v) /\ \A i \in 1..Len(u) : u[i] = v[i] BY <1>2, <1>3, <1>4
<1>6. u = v BY <1>2, <1>3, <1>5, SeqEqual
<1> QED BY <1>6 DEF u, v

\* What of t is kept when it is trimmed.
Trims(t, a, b) ==
  /\ a \in 1..Len(t) /\ b \in a..Len(t) /\ t[a] # WS /\ t[b] # WS
  /\ \A i \in 1..Len(t) : t[i] # WS => i \in a..b

\* Where the trimmed text is, the places in it are places in the text.
LEMMA LaidIn ==
  ASSUME NEW C, NEW t \in Seq(C), NEW a, NEW b, Trims(t, a, b),
         NEW max \in Nat \ {0}, NEW n, NEW from, NEW to, Laid(SubSeq(t, a, b), max, 1, n, from, to)
  PROVE  \E from2, to2 : /\ Laid(t, max, 1, n, from2, to2)
                         /\ Parts(SubSeq(t, a, b), n, from, to) = Parts(t, n, from2, to2)
<1> DEFINE l == b + 1 - a
           s == SubSeq(t, a, b)
           from2 == [j \in 1..n |-> a + from[j] - 1]
           to2 == [j \in 1..n |-> a + to[j] - 1]
<1>0. a \in Nat /\ b \in Nat /\ Len(t) \in Nat /\ l \in Nat /\ max \in Nat /\ a >= 1 /\ b <= Len(t) /\ a <= b
      /\ a \in 1..Len(t) /\ b \in a..Len(t)
  BY DEF Trims
<1>02. \A i \in 1..Len(t) : t[i] # WS => i \in a..b BY DEF Trims
<1>1. s \in Seq(C) /\ Len(s) = l /\ \A i \in 1..l : s[i] = t[a + i - 1]
  <2>1. a \in Nat \ {0} /\ b \in Nat /\ b <= Len(t) /\ a <= b + 1 BY <1>0
  <2> QED BY <2>1, SubSeqIs
<1> HIDE DEF s
<1>01. Laid(s, max, 1, n, from, to) BY DEF s
<1>2. /\ n \in Nat /\ \A j \in 1..n : from[j] \in 1..l /\ to[j] \in 1..l /\ from[j] <= to[j] /\ to[j] - from[j] < max
      /\ \A j \in 1..n : s[to[j]] # WS
      /\ \A j, k \in 1..n : j < k => to[j] < from[k] /\ (WordsFit(s, max) => to[j] + 1 < from[k])
      /\ \A x \in 1..l : s[x] # WS => \E j \in 1..n : x \in from[j]..to[j]
  BY <1>1, <1>01 DEF Laid
<1>3. WordsFit(t, max) => WordsFit(s, max)
  <2> SUFFICES ASSUME NEW i \in 1..(Len(s) - max), i..(i + max) \subseteq Inked(s)
      PROVE \E k \in 1..(Len(t) - max) : k..(k + max) \subseteq Inked(t)
    BY DEF WordsFit
  <2>1. PICK k : k = a + i - 1 OBVIOUS
  <2>2. k \in 1..(Len(t) - max) /\ i \in Nat BY <1>0, <1>1, <2>1
  <2>3. ASSUME NEW x \in k..(k + max) PROVE x \in Inked(t)
    <3>1. PICK y : y = x - a + 1 OBVIOUS
    <3>0. x \in k..(k + max) /\ x \in Nat BY <2>2
    <3>2. y \in i..(i + max) /\ x = a + y - 1 /\ x \in 1..Len(t) BY ONLY <1>0, <2>1, <2>2, <3>0, <3>1
    <3>3. y \in 1..l /\ s[y] # WS BY <1>1, <3>2, InkedIs
    <3>4. t[x] # WS BY <1>1, <3>2, <3>3
    <3> QED BY <3>2, <3>4 DEF Inked
  <2> QED BY <2>2, <2>3
<1>4. \A j \in 1..n : from2[j] = a + from[j] - 1 /\ to2[j] = a + to[j] - 1 OBVIOUS
<1>5. ASSUME NEW j \in 1..n PROVE from2[j] \in 1..Len(t) /\ to2[j] \in 1..Len(t)
  <2>1. PICK c, d : c = from[j] /\ d = to[j] OBVIOUS
  <2>2. c \in 1..l /\ d \in 1..l /\ from2[j] = a + c - 1 /\ to2[j] = a + d - 1 BY <1>2, <1>4, <2>1
  <2> HIDE DEF from2, to2
  <2>3. a + c - 1 \in 1..Len(t) /\ a + d - 1 \in 1..Len(t) BY <1>0, <2>2
  <2> QED BY <2>2, <2>3
<1>6. from2 \in [1..n -> 1..Len(t)] /\ to2 \in [1..n -> 1..Len(t)]
  <2>1. from2 = [j \in 1..n |-> from2[j]] /\ to2 = [j \in 1..n |-> to2[j]] OBVIOUS
  <2> HIDE DEF from2, to2
  <2> QED BY <1>5, <2>1
<1>7. Parts(s, n, from, to) = Parts(t, n, from2, to2)
  <2>1. ASSUME NEW j \in 1..n PROVE SubSeq(s, from[j], to[j]) = SubSeq(t, from2[j], to2[j])
    <3>1. PICK c, d : c = from[j] /\ d = to[j] OBVIOUS
    <3>2. c \in 1..(b + 1 - a) /\ d \in c..(b + 1 - a) BY <1>0, <1>2, <3>1
    <3>3. SubSeq(SubSeq(t, a, b), c, d) = SubSeq(t, a + c - 1, a + d - 1) BY <1>0, <3>2, StretchOf
    <3> QED BY <1>4, <3>1, <3>3 DEF s
  <2> HIDE DEF from2, to2
  <2> QED BY <2>1 DEF Parts
<1> HIDE DEF from2, to2
<1>8. \A j \in 1..n : from2[j] <= to2[j] /\ to2[j] - from2[j] < max /\ t[to2[j]] # WS
  <2>1. ASSUME NEW j \in 1..n PROVE from2[j] <= to2[j] /\ to2[j] - from2[j] < max /\ t[to2[j]] # WS
    <3>0. PICK c, d : c = from[j] /\ d = to[j] OBVIOUS
    <3>3. c \in 1..l /\ d \in 1..l /\ c <= d /\ d - c < max /\ from2[j] = a + c - 1 /\ to2[j] = a + d - 1
      BY <1>2, <1>4, <3>0
    <3>4. a + c - 1 <= a + d - 1 /\ (a + d - 1) - (a + c - 1) < max BY <1>0, <3>3
    <3>1. from2[j] <= to2[j] /\ to2[j] - from2[j] < max BY <3>3, <3>4
    <3>2. t[to2[j]] # WS BY <1>1, <1>2, <1>4
    <3> QED BY <3>1, <3>2
  <2> QED BY <2>1
<1>9. \A j, k \in 1..n : j < k => to2[j] < from2[k] /\ (WordsFit(t, max) => to2[j] + 1 < from2[k])
  <2>1. ASSUME NEW j \in 1..n, NEW k \in 1..n, j < k
        PROVE to2[j] < from2[k] /\ (WordsFit(t, max) => to2[j] + 1 < from2[k])
    <3>1. to[j] < from[k] /\ (WordsFit(s, max) => to[j] + 1 < from[k]) /\ to[j] \in 1..l /\ from[k] \in 1..l BY <1>2, <2>1
    <3>2. PICK d, c : d = to[j] /\ c = from[k] OBVIOUS
    <3>3. d \in 1..l /\ c \in 1..l /\ d < c /\ (WordsFit(s, max) => d + 1 < c) /\ to2[j] = a + d - 1 /\ from2[k] = a + c - 1
      BY <1>4, <3>1, <3>2
    <3>4. a + d - 1 < a + c - 1 /\ (WordsFit(t, max) => a + d - 1 + 1 < a + c - 1) BY <1>0, <1>3, <3>3
    <3> QED BY <3>3, <3>4
  <2> QED BY <2>1
<1>10. ASSUME NEW x \in 1..Len(t), t[x] # WS PROVE \E j \in 1..n : x \in from2[j]..to2[j]
  <2>1. PICK y : y = x - a + 1 OBVIOUS
  <2>2. y \in 1..l /\ x = a + y - 1
    <3>1. x \in a..b BY <1>02, <1>10
    <3> QED BY <1>0, <2>1, <3>1
  <2>3. s[y] # WS BY <1>1, <1>10, <2>2
  <2>4. PICK j \in 1..n : y \in from[j]..to[j] BY <1>2, <2>2, <2>3
  <2>5. from[j] \in 1..l /\ to[j] \in 1..l BY <1>2
  <2>6. x \in from2[j]..to2[j]
    <3>1. PICK c, d : c = from[j] /\ d = to[j] OBVIOUS
    <3>2. c \in 1..l /\ d \in 1..l /\ y \in c..d /\ from2[j] = a + c - 1 /\ to2[j] = a + d - 1 BY <1>4, <2>4, <2>5, <3>1
    <3>3. x \in (a + c - 1)..(a + d - 1) BY <1>0, <2>2, <3>2
    <3> QED BY <3>2, <3>3
  <2> QED BY <2>6
<1>11. Laid(t, max, 1, n, from2, to2) BY <1>2, <1>6, <1>8, <1>9, <1>10 DEF Laid
<1> QED BY <1>7, <1>11 DEF s

\* The pieces of a text are parts of it, one behind the other; a blank one is left as it is.
LEMMA SplitTextIs ==
  ASSUME NEW C, NEW t \in Seq(C), NEW max \in Nat \ {0}
  PROVE  /\ Inked(t) = {} => SplitText(t, max) = <<t>>
         /\ Inked(t) # {} => \E n, from, to : /\ n # 0 /\ Laid(t, max, 1, n, from, to)
                                             /\ SplitText(t, max) = Parts(t, n, from, to)
<1> DEFINE s == Trim(t)
           N == Len(s) + 1
           Is(f) == f = [i \in 1..(Len(s) + 1) |->
                          LET chunk == Chunk(s, max, i) IN IF chunk = <<>> THEN <<>> ELSE <<chunk>> \o f[NextAt(s, max, i)]]
           start == CHOOSE f : Is(f)
           Stop == {i \in 1..N : Chunk(s, max, i) = <<>>}
           P == [i \in 1..N |-> Chunk(s, max, i)]
           nxt == [i \in 1..N |-> NextAt(s, max, i)]
<1>1. SplitText(t, max) = IF start[1] = <<>> THEN <<t>> ELSE start[1] BY DEF SplitText
<1>2. /\ s \in Seq(C) /\ (s # <<>> => s[Len(s)] # WS)
      /\ Inked(t) = {} => s = <<>>
      /\ Inked(t) # {} => \E a, b : Trims(t, a, b) /\ s = SubSeq(t, a, b) /\ s # <<>> /\ s[1] # WS
  <2>1. CASE Inked(t) = {}
    <3>1. s = <<>> BY <2>1, TrimIs
    <3> QED BY <2>1, <3>1
  <2>2. CASE Inked(t) # {}
    <3>1. PICK a, b \in 1..Len(t) :
              /\ Trim(t) = SubSeq(t, a, b) /\ a <= b /\ t[a] # WS /\ t[b] # WS
              /\ \A i \in 1..Len(t) : t[i] # WS => i \in a..b
      BY <2>2, TrimIs
    <3>2. a \in Nat \ {0} /\ b \in Nat /\ b <= Len(t) /\ a <= b + 1 /\ b \in a..Len(t) BY <3>1
    <3>3. /\ SubSeq(t, a, b) \in Seq(C) /\ Len(SubSeq(t, a, b)) = b + 1 - a
          /\ \A i \in 1..(b + 1 - a) : SubSeq(t, a, b)[i] = t[a + i - 1]
      BY <3>2, SubSeqIs
    <3>4. PICK l : l = b + 1 - a OBVIOUS
    <3>5. l \in Nat /\ 1 \in 1..l /\ l \in 1..l /\ a + 1 - 1 = a /\ a + l - 1 = b BY <3>1, <3>2, <3>4
    <3>6. s \in Seq(C) /\ Len(s) = l /\ s[1] = t[a] /\ s[l] = t[b] BY <3>1, <3>3, <3>4, <3>5
    <3>7. s # <<>> BY <3>5, <3>6
    <3>8. Trims(t, a, b) BY <3>1, <3>2 DEF Trims
    <3> QED BY <2>2, <3>1, <3>5, <3>6, <3>7, <3>8
  <2> QED BY <2>1, <2>2
<1> HIDE DEF s
<1>3. Len(s) \in Nat /\ N \in Nat /\ 1 \in 1..N BY <1>2
<1>4. Forward(N, Stop, nxt)
  <2> SUFFICES ASSUME NEW k \in 1..N, k \notin Stop PROVE nxt[k] \in 1..N /\ nxt[k] > k BY DEF Forward
  <2>1. k \in 1..(Len(s) + 1) OBVIOUS
  <2>2. Chunk(s, max, k) # <<>> OBVIOUS
  <2>3. k <= Len(s) BY <1>2, <1>3, <2>1, <2>2, NextIsFurther
  <2>4. NextAt(s, max, k) \in (k + 1)..(Len(s) + 1) BY <1>2, <2>1, <2>3, NextIsFurther
  <2>5. nxt[k] = NextAt(s, max, k) OBVIOUS
  <2> HIDE DEF nxt
  <2> QED BY <1>3, <2>4, <2>5
<1>5. \A f : Is(f) <=> Strung(f, N, Stop, P, nxt)
  <2> SUFFICES ASSUME NEW f PROVE Is(f) <=> Strung(f, N, Stop, P, nxt) OBVIOUS
  <2>1. \A i \in 1..N : (IF Chunk(s, max, i) = <<>> THEN <<>> ELSE <<Chunk(s, max, i)>> \o f[NextAt(s, max, i)])
                        = (IF i \in Stop THEN <<>> ELSE <<P[i]>> \o f[nxt[i]])
    OBVIOUS
  <2>2. [i \in 1..N |-> IF Chunk(s, max, i) = <<>> THEN <<>> ELSE <<Chunk(s, max, i)>> \o f[NextAt(s, max, i)]]
         = [i \in 1..N |-> IF i \in Stop THEN <<>> ELSE <<P[i]>> \o f[nxt[i]]]
    <3> HIDE DEF Stop, P, nxt, N
    <3> QED BY <2>1
  <2> QED BY <2>2 DEF Strung
<1>6. Strung(start, N, Stop, P, nxt)
  <2>1. \E f : Strung(f, N, Stop, P, nxt)
    <3> HIDE DEF N, Stop, P, nxt
    <3> QED BY <1>3, <1>4, StrungExists
  <2> HIDE DEF N, Stop, P, nxt, Is
  <2>2. \E f : Is(f) BY <1>5, <2>1
  <2>3. Is(start) BY <2>2
  <2> QED BY <1>5, <2>3
<1>7. CASE Inked(t) = {}
  <2>1. s = <<>> /\ Len(s) = 0 BY <1>2, <1>7
  <2>2. 1 \in 1..(Len(s) + 1) /\ 1 = Len(s) + 1 BY <2>1
  <2>3. Chunk(s, max, 1) = <<>> BY <1>2, <2>2, NextIsFurther
  <2>4. start[1] = <<>>
    <3>1. start = [i \in 1..N |-> IF i \in Stop THEN <<>> ELSE <<P[i]>> \o start[nxt[i]]] BY <1>6 DEF Strung
    <3>2. 1 \in Stop BY <1>3, <2>3
    <3> HIDE DEF start, Stop
    <3> QED BY <1>3, <3>1, <3>2
  <2> HIDE DEF start
  <2> QED BY <1>1, <1>7, <2>4
<1>8. CASE Inked(t) # {}
  <2>0. PICK a, b : Trims(t, a, b) /\ s = SubSeq(t, a, b) /\ s # <<>> /\ s[1] # WS BY <1>2, <1>8
  <2>2. 1 < N BY <1>2, <1>3, <2>0, EmptySeq
  <2> HIDE DEF start, Stop, P, nxt
  <2>3. PICK n, from, to : Laid(s, max, 1, n, from, to) /\ start[1] = Parts(s, n, from, to) /\ n # 0
    <3>1. Pieced(start, s, max) BY <1>6 DEF Pieced, N, Stop, P, nxt
    <3>2. \E n, from, to : Laid(s, max, 1, n, from, to) /\ start[1] = Parts(s, n, from, to) /\ (1 <= Len(s) => n # 0)
      BY <1>2, <1>3, <2>0, <3>1, PiecesLaid
    <3> QED BY <1>3, <2>2, <3>2
  <2>4. PICK from2, to2 : Laid(t, max, 1, n, from2, to2) /\ Parts(s, n, from, to) = Parts(t, n, from2, to2)
    <3>1. Trims(t, a, b) /\ s = SubSeq(t, a, b) BY <2>0
    <3>2. Laid(SubSeq(t, a, b), max, 1, n, from, to) BY <2>3, <3>1
    <3> HIDE DEF N, Is
    <3>3. \E from2, to2 : /\ Laid(t, max, 1, n, from2, to2)
                          /\ Parts(SubSeq(t, a, b), n, from, to) = Parts(t, n, from2, to2)
      BY ONLY <3>1, <3>2, t \in Seq(C), max \in Nat \ {0}, LaidIn
    <3> QED BY <3>1, <3>3
  <2>5. start[1] # <<>>
    <3>1. start[1] = [j \in 1..n |-> SubSeq(s, from[j], to[j])] BY <2>3 DEF Parts
    <3>2. n \in Nat BY <2>3 DEF Laid
    <3>3. 1 \in DOMAIN start[1] BY <2>3, <3>1, <3>2
    <3>4. PICK z : z = start[1] OBVIOUS
    <3>5. z # <<>>
      <4>1. 1 \in DOMAIN z BY <3>3, <3>4
      <4>2. 1 \notin DOMAIN <<>> OBVIOUS
      <4> QED BY ONLY <4>1, <4>2
    <3> QED BY <3>4, <3>5
  <2> QED BY <1>1, <1>8, <2>3, <2>4, <2>5
<1> QED BY <1>7, <1>8

\* Stretches of s, one behind the other.
Cuts(s, n, from, to) ==
  /\ n \in Nat /\ from \in [1..n -> 1..Len(s)] /\ to \in [1..n -> 1..Len(s)]
  /\ \A j \in 1..n : from[j] <= to[j]
  /\ \A i, j \in 1..n : i < j => to[i] < from[j]

\* Such stretches are where their places say.
LEMMA CutsInPlace ==
  ASSUME NEW C, NEW s \in Seq(C), NEW n, NEW from, NEW to, Cuts(s, n, from, to),
         NEW parts, parts = Parts(s, n, from, to)
  PROVE  /\ parts \in Seq(Seq(C)) /\ Len(parts) = n /\ DOMAIN parts = 1..n
         /\ \A i \in 1..n : /\ parts[i] \in Seq(C) /\ Len(parts[i]) = to[i] + 1 - from[i]
                            /\ Stretch(parts, from, i) = from[i]..to[i]
                            /\ \A x \in 1..(to[i] + 1 - from[i]) : parts[i][x] = s[from[i] + x - 1]
         /\ from \in Places(s, parts) /\ Stretches(s, parts, from)
<1>0. n \in Nat /\ Len(s) \in Nat BY DEF Cuts
<1>1. \A j \in 1..n : from[j] \in 1..Len(s) /\ to[j] \in 1..Len(s) /\ from[j] <= to[j] BY DEF Cuts
<1>2. parts = [j \in 1..n |-> SubSeq(s, from[j], to[j])] BY DEF Parts
<1>3. ASSUME NEW i \in 1..n
      PROVE  /\ parts[i] = SubSeq(s, from[i], to[i]) /\ parts[i] \in Seq(C) /\ Len(parts[i]) = to[i] + 1 - from[i]
             /\ \A x \in 1..(to[i] + 1 - from[i]) : parts[i][x] = s[from[i] + x - 1]
             /\ from[i] + Len(parts[i]) - 1 = to[i] /\ from[i] + Len(parts[i]) = to[i] + 1
  <2>1. PICK a, b : a = from[i] /\ b = to[i] OBVIOUS
  <2>2. a \in Nat \ {0} /\ b \in Nat /\ b <= Len(s) /\ a <= b + 1 BY <1>0, <1>1, <2>1
  <2>3. /\ SubSeq(s, a, b) \in Seq(C) /\ Len(SubSeq(s, a, b)) = b + 1 - a
        /\ \A x \in 1..(b + 1 - a) : SubSeq(s, a, b)[x] = s[a + x - 1]
    BY <2>2, SubSeqIs
  <2>4. parts[i] = SubSeq(s, a, b) BY <1>2, <2>1
  <2>5. a + (b + 1 - a) - 1 = b /\ a + (b + 1 - a) = b + 1 BY <2>2
  <2> QED BY <2>1, <2>3, <2>4, <2>5
<1>4. DOMAIN parts = 1..n BY <1>2
<1>5. parts \in Seq(Seq(C)) /\ Len(parts) = n
  <2>1. parts \in [1..n -> Seq(C)] BY <1>2, <1>3
  <2> QED BY <1>0, <2>1
<1>6. \A i \in 1..n : Stretch(parts, from, i) = from[i]..to[i] BY <1>3 DEF Stretch
<1>7. from \in Places(s, parts)
  <2>1. from \in [1..n -> 1..Len(s)] BY DEF Cuts
  <2>2. 1..Len(s) \subseteq 1..(Len(s) + 1) BY <1>0
  <2> QED BY <1>4, <2>1, <2>2 DEF Places
<1>8. Stretches(s, parts, from)
  <2>1. ASSUME NEW i \in 1..n
        PROVE  Stretch(parts, from, i) \subseteq DOMAIN s /\ parts[i] = SubSeq(s, from[i], from[i] + Len(parts[i]) - 1)
    <3>1. from[i]..to[i] \subseteq 1..Len(s) BY <1>0, <1>1
    <3>2. DOMAIN s = 1..Len(s) OBVIOUS
    <3>3. Stretch(parts, from, i) \subseteq DOMAIN s BY <1>6, <3>1, <3>2
    <3>4. parts[i] = SubSeq(s, from[i], from[i] + Len(parts[i]) - 1) BY <1>3
    <3> QED BY <3>3, <3>4
  <2>2. ASSUME NEW i \in 1..n, NEW j \in 1..n, i < j PROVE from[i] + Len(parts[i]) <= from[j]
    <3>1. PICK a, b : a = to[i] /\ b = from[j] OBVIOUS
    <3>2. a < b /\ a \in Nat /\ b \in Nat BY <1>1, <2>2, <3>1 DEF Cuts
    <3>3. a + 1 <= b BY <3>2
    <3> QED BY <1>3, <3>1, <3>3
  <2> QED BY <1>4, <2>1, <2>2 DEF Stretches
<1> QED BY <1>3, <1>4, <1>5, <1>6, <1>7, <1>8

\* One stretch is a part.
LEMMA OnePart ==
  ASSUME NEW C, NEW s \in Seq(C), s # <<>>
  PROVE  \E from, to : /\ Cuts(s, 1, from, to) /\ Parts(s, 1, from, to) = <<s>>
                       /\ from[1] = 1 /\ to[1] = Len(s)
<1> DEFINE from == [j \in 1..1 |-> 1]
           to == [j \in 1..1 |-> Len(s)]
<1>0. Len(s) \in Nat \ {0} /\ 1 \in 1..1 BY EmptySeq
<1>1. from[1] = 1 /\ to[1] = Len(s) BY <1>0
<1>2. from \in [1..1 -> 1..Len(s)] /\ to \in [1..1 -> 1..Len(s)] BY <1>0
<1>3. Parts(s, 1, from, to) = [j \in 1..1 |-> SubSeq(s, 1, Len(s))] BY DEF Parts
<1>4. SubSeq(s, 1, Len(s)) = s OBVIOUS
<1>5. [j \in 1..1 |-> s] = <<s>> OBVIOUS
<1>6. Cuts(s, 1, from, to)
  <2>1. \A i, j \in 1..1 : i = 1 /\ j = 1 /\ ~(i < j) OBVIOUS
  <2> HIDE DEF from, to
  <2>2. \A j \in 1..1 : from[j] <= to[j] BY <1>0, <1>1, <2>1
  <2>3. 1 \in Nat OBVIOUS
  <2> QED BY <1>2, <2>1, <2>2, <2>3 DEF Cuts
<1>7. Parts(s, 1, from, to) = <<s>>
  <2> HIDE DEF from, to
  <2> QED BY <1>3, <1>4, <1>5
<1> HIDE DEF from, to
<1> QED BY <1>1, <1>6, <1>7

\* The parts of a text, as SplitSound says it.
Placed(C, t, max, n, from, parts) ==
  /\ parts \in Seq(Seq(C)) /\ Len(parts) = n /\ DOMAIN parts = 1..n
  /\ from \in Places(t, parts) /\ Stretches(t, parts, from) /\ Inked(t) \subseteq Held(parts, from)
  /\ WordsFit(t, max) => \A i \in 1..(n - 1) : from[i] + Len(parts[i]) < from[i + 1]
  /\ \A i \in 1..n : Len(parts[i]) \in 1..max /\ Inked(parts[i]) # {}

\* They are where their places say.
LEMMA LaidInPlace ==
  ASSUME NEW C, NEW t \in Seq(C), NEW max \in Nat \ {0}, NEW n, NEW from, NEW to, Laid(t, max, 1, n, from, to),
         NEW parts, parts = Parts(t, n, from, to)
  PROVE  Placed(C, t, max, n, from, parts)
<1>0. n \in Nat /\ Len(t) \in Nat /\ max \in Nat BY DEF Laid
<1>1. Cuts(t, n, from, to) BY DEF Laid, Cuts
<1>2. /\ parts \in Seq(Seq(C)) /\ Len(parts) = n /\ DOMAIN parts = 1..n
      /\ \A i \in 1..n : /\ parts[i] \in Seq(C) /\ Len(parts[i]) = to[i] + 1 - from[i]
                         /\ Stretch(parts, from, i) = from[i]..to[i]
                         /\ \A x \in 1..(to[i] + 1 - from[i]) : parts[i][x] = t[from[i] + x - 1]
      /\ from \in Places(t, parts) /\ Stretches(t, parts, from)
  BY <1>1, CutsInPlace
<1>3. \A j \in 1..n : from[j] \in 1..Len(t) /\ to[j] \in 1..Len(t) /\ from[j] <= to[j] /\ to[j] - from[j] < max /\ t[to[j]] # WS
  BY DEF Laid
<1>4. Inked(t) \subseteq Held(parts, from)
  <2> SUFFICES ASSUME NEW x \in Inked(t) PROVE x \in Held(parts, from) OBVIOUS
  <2>1. x \in 1..Len(t) /\ t[x] # WS BY InkedIs
  <2>2. PICK j \in 1..n : x \in from[j]..to[j] BY <2>1 DEF Laid
  <2>3. x \in Stretch(parts, from, j) BY <1>2, <2>2
  <2> QED BY <1>2, <2>3 DEF Held
<1>5. ASSUME WordsFit(t, max), NEW i \in 1..(n - 1) PROVE from[i] + Len(parts[i]) < from[i + 1]
  <2>1. PICK j : j = i + 1 OBVIOUS
  <2>2. i \in 1..n /\ j \in 1..n /\ i < j BY <1>0, <2>1
  <2>3. PICK a, b, c : a = from[i] /\ b = to[i] /\ c = from[j] OBVIOUS
  <2>4. b + 1 < c /\ a \in Nat /\ b \in Nat /\ c \in Nat BY <1>3, <1>5, <2>2, <2>3 DEF Laid
  <2>5. a + (b + 1 - a) < c BY <2>4
  <2>6. Len(parts[i]) = b + 1 - a BY <1>2, <2>2, <2>3
  <2> QED BY <2>1, <2>3, <2>5, <2>6
<1>6. ASSUME NEW i \in 1..n PROVE Len(parts[i]) \in 1..max /\ Inked(parts[i]) # {}
  <2>1. PICK a, b : a = from[i] /\ b = to[i] OBVIOUS
  <2>2. a \in Nat /\ b \in Nat /\ a <= b /\ b - a < max /\ t[b] # WS BY <1>3, <2>1
  <2>3. parts[i] \in Seq(C) /\ Len(parts[i]) = b + 1 - a /\ \A x \in 1..(b + 1 - a) : parts[i][x] = t[a + x - 1] BY <1>2, <2>1
  <2>4. PICK l : l = b + 1 - a OBVIOUS
  <2>5. l \in 1..max /\ a + l - 1 = b /\ l \in 1..l BY <1>0, <2>2, <2>4
  <2>6. parts[i][l] = t[b] BY <2>3, <2>4, <2>5
  <2>7. l \in Inked(parts[i]) BY <2>2, <2>3, <2>4, <2>5, <2>6, InkedIs
  <2> QED BY <2>3, <2>4, <2>5, <2>7
<1> QED BY <1>2, <1>4, <1>5, <1>6 DEF Placed

\* A stretch of one place.
LEMMA OneOf ==
  ASSUME NEW C, NEW s \in Seq(C), NEW k \in 1..Len(s)
  PROVE  SubSeq(s, k, k) = <<s[k]>>
<1>1. k \in Nat \ {0} /\ k <= Len(s) /\ k <= k + 1 /\ k + 1 - k = 1 /\ k \in Nat OBVIOUS
<1>2. /\ SubSeq(s, k, k) \in Seq(C) /\ Len(SubSeq(s, k, k)) = k + 1 - k
      /\ \A i \in 1..(k + 1 - k) : SubSeq(s, k, k)[i] = s[k + i - 1]
  <2>1. PICK a : a = k OBVIOUS
  <2>2. a \in Nat \ {0} /\ a \in Nat /\ a <= Len(s) /\ a <= a + 1 BY <1>1, <2>1
  <2>3. /\ SubSeq(s, a, a) \in Seq(C) /\ Len(SubSeq(s, a, a)) = a + 1 - a
        /\ \A i \in 1..(a + 1 - a) : SubSeq(s, a, a)[i] = s[a + i - 1]
    BY ONLY <2>2, s \in Seq(C), SubSeqIs
  <2> QED BY <2>1, <2>3
<1>3. SubSeq(s, k, k)[1] = s[k]
  <2>1. 1 \in 1..(k + 1 - k) /\ k + 1 - 1 = k BY <1>1
  <2> QED BY <1>2, <2>1
<1>4. PICK u : u = SubSeq(s, k, k) OBVIOUS
<1>5. u \in Seq(C) /\ Len(u) = 1 /\ u[1] = s[k] BY <1>1, <1>2, <1>3, <1>4
<1>6. u = <<s[k]>> BY ONLY <1>5
<1> QED BY <1>4, <1>6

\* Joining a file to the batches, one file after the other.
LEMMA JoinSteps ==
  ASSUME NEW s \in Seq(Kinds)
  PROVE  \E f : /\ f[0] = <<>> /\ f[Len(s)] = FoldLeft(Join, <<>>, s)
                /\ \A k \in 1..Len(s) : f[k] = Join(f[k - 1], s[k])
<1> DEFINE N == Len(s)
           T == Seq(Seq(Kinds))
           b == <<>>
           G == [p \in T \X (1..N) |-> Join(p[1], s[p[2]])]
           Eq(h) == h = [x \in SUBSET (DOMAIN s) |-> IF x = {} THEN b ELSE Join(h[x \ {Max(x)}], s[Max(x)])]
           h == CHOOSE h : Eq(h)
           v == FoldLeft(Join, b, s)
<1>1. N \in Nat /\ DOMAIN s = 1..N OBVIOUS
<1>2. b \in T /\ G \in [T \X (1..N) -> T]
  <2>1. ASSUME NEW bs \in T, NEW k \in Kinds PROVE Join(bs, k) \in T
    <3>1. <<k>> \in Seq(Kinds) /\ Append(bs, <<k>>) \in T OBVIOUS
    <3>2. CASE bs = <<>> BY <3>1, <3>2 DEF Join
    <3>3. CASE bs # <<>>
      <4>1. Last(bs) \in Seq(Kinds) BY <3>3, EmptySeq DEF Last
      <4>2. Front(bs) \in T BY <3>3, EmptySeq DEF Front
      <4>3. Append(Last(bs), k) \in Seq(Kinds) BY <4>1
      <4>4. Append(Front(bs), Append(Last(bs), k)) \in T BY <4>2, <4>3
      <4> QED BY <3>1, <4>4 DEF Join
    <3> QED BY <3>2, <3>3
  <2>2. ASSUME NEW p \in T \X (1..N) PROVE Join(p[1], s[p[2]]) \in T
    <3>1. p[1] \in T /\ p[2] \in 1..N /\ s[p[2]] \in Kinds BY <1>1
    <3> QED BY <2>1, <3>1
  <2> QED BY <2>2
<1>3. \A x \in SUBSET (1..N) : x # {} => Max(x) \in 1..N
  <2> HIDE DEF N
  <2>1. \A x \in SUBSET (1..N) : x \in SUBSET (0..N) BY <1>1
  <2> QED BY <1>1, <2>1, FirstAndLast
<1>4. \E g : Eq(g)
  <2>1. PICK g : Iterates(g, N, T, b, G)
    <3> HIDE DEF G, T, N, b
    <3> QED BY <1>1, <1>2, FoldIterates
  <2>2. \A x \in SUBSET (1..N) : x # {} => g[x] = Join(g[x \ {Max(x)}], s[Max(x)]) BY <1>3, <2>1 DEF Iterates
  <2> QED BY <1>1, <2>1, <2>2 DEF Iterates
<1>5. Eq(h) BY <1>4
<1>6. v = h[1..N] BY <1>1 DEF FoldLeft, MapThenFoldSet
<1> HIDE DEF h, v
<1>7. Recurs(h, N, T, b, G, v)
  BY <1>1, <1>3, <1>5, <1>6 DEF Recurs
<1>8. PICK f : Stepwise(f, N, T, b, G, v)
  <2> HIDE DEF G, T, N, b, Eq
  <2>1. N \in Nat /\ b \in T /\ G \in [T \X (1..N) -> T] /\ Recurs(h, N, T, b, G, v) BY <1>1, <1>2, <1>7
  <2>2. \E f : Stepwise(f, N, T, b, G, v) BY <2>1, FoldSteps
  <2> QED BY <2>2
<1>9. ASSUME NEW n \in 1..N PROVE f[n] = Join(f[n - 1], s[n])
  <2>1. n - 1 \in 0..N BY <1>1
  <2>2. f[n - 1] \in T BY <1>8, <2>1 DEF Stepwise
  <2> QED BY <1>8, <2>2 DEF Stepwise
<1> QED BY <1>8, <1>9 DEF Stepwise, v

\* Stretches that are batches: the first k files, each batch of one kind and full before
\* another one of its kind.
Albums(s, k, n, from, to) ==
  /\ Cuts(s, n, from, to)
  /\ \A x \in 1..k : \E j \in 1..n : x \in from[j]..to[j]
  /\ \A j \in 1..n : /\ to[j] <= k /\ to[j] - from[j] < Album
                     /\ \A x \in from[j]..to[j] : s[x] = s[from[j]]
  /\ \A j \in 1..(n - 1) : to[j] + 1 - from[j] = Album \/ s[from[j]] # s[from[j + 1]]
  /\ k > 0 => n > 0 /\ to[n] = k

\* A batch of one file more.
LEMMA NewBatch ==
  ASSUME NEW s \in Seq(Kinds), NEW k \in 1..Len(s), NEW n, NEW from, NEW to, Albums(s, k - 1, n, from, to),
         n > 0 => to[n] + 1 - from[n] = Album \/ s[to[n]] # s[k]
  PROVE  \E from2, to2 : /\ Albums(s, k, n + 1, from2, to2)
                         /\ Parts(s, n + 1, from2, to2) = Append(Parts(s, n, from, to), <<s[k]>>)
<1> DEFINE L == Len(s)
           m == n + 1
           from2 == [j \in 1..m |-> IF j = m THEN k ELSE from[j]]
           to2 == [j \in 1..m |-> IF j = m THEN k ELSE to[j]]
<1>0. L \in Nat /\ n \in Nat /\ k \in Nat /\ k <= L /\ k >= 1 /\ m = n + 1 /\ m \in Nat /\ Album \in Nat \ {0}
  BY DeliveryConstants DEF Albums, Cuts, DeliveryConstants
<1>1. /\ \A j \in 1..n : /\ from[j] \in 1..L /\ to[j] \in 1..L /\ from[j] <= to[j] /\ to[j] <= k - 1 /\ to[j] - from[j] < Album
                         /\ \A x \in from[j]..to[j] : s[x] = s[from[j]]
      /\ \A i, j \in 1..n : i < j => to[i] < from[j]
      /\ \A x \in 1..(k - 1) : \E j \in 1..n : x \in from[j]..to[j]
      /\ \A j \in 1..(n - 1) : to[j] + 1 - from[j] = Album \/ s[from[j]] # s[from[j + 1]]
  BY DEF Albums, Cuts
<1>2. from2[m] = k /\ to2[m] = k
  <2>1. m \in 1..m BY <1>0
  <2> QED BY <2>1
<1>3. ASSUME NEW j \in 1..n PROVE from2[j] = from[j] /\ to2[j] = to[j] /\ j \in 1..m /\ j # m
  <2>1. j \in 1..m /\ j # m BY <1>0
  <2> QED BY <2>1
<1>4. \A j \in 1..m : j = m \/ j \in 1..n BY <1>0
<1>5. from2 \in [1..m -> 1..L] /\ to2 \in [1..m -> 1..L]
  <2>1. k \in 1..L BY <1>0
  <2>2. \A j \in 1..m : from2[j] \in 1..L /\ to2[j] \in 1..L BY <1>1, <1>2, <1>3, <1>4, <2>1
  <2>3. from2 = [j \in 1..m |-> from2[j]] /\ to2 = [j \in 1..m |-> to2[j]] OBVIOUS
  <2> HIDE DEF from2, to2
  <2> QED BY <2>2, <2>3
<1> HIDE DEF from2, to2
<1>6. ASSUME NEW j \in 1..m
      PROVE  /\ from2[j] <= to2[j] /\ to2[j] <= k /\ to2[j] - from2[j] < Album
             /\ \A x \in from2[j]..to2[j] : s[x] = s[from2[j]]
  <2>1. CASE j = m
    <3>1. from2[j] = k /\ to2[j] = k BY <1>2, <2>1
    <3>2. k <= k /\ k - k < Album /\ \A x \in k..k : x = k BY <1>0
    <3> QED BY <3>1, <3>2
  <2>2. CASE j \in 1..n
    <3>1. from2[j] = from[j] /\ to2[j] = to[j] BY <1>3, <2>2
    <3>2. to[j] \in 1..L /\ to[j] <= k - 1 BY <1>1, <2>2
    <3>3. to[j] <= k BY <1>0, <3>2
    <3> QED BY <1>1, <2>2, <3>1, <3>3
  <2> QED BY <1>4, <2>1, <2>2
<1>7. ASSUME NEW i \in 1..m, NEW j \in 1..m, i < j PROVE to2[i] < from2[j]
  <2>1. i \in 1..n BY <1>0, <1>7
  <2>2. to2[i] = to[i] /\ to[i] \in 1..L /\ to[i] <= k - 1 BY <1>1, <1>3, <2>1
  <2>3. CASE j = m BY <1>0, <1>2, <2>2, <2>3
  <2>4. CASE j \in 1..n BY <1>1, <1>3, <1>7, <2>1, <2>2, <2>4
  <2> QED BY <1>4, <2>3, <2>4
<1>8. ASSUME NEW x \in 1..k PROVE \E j \in 1..m : x \in from2[j]..to2[j]
  <2>1. CASE x = k
    <3>1. m \in 1..m /\ x \in k..k BY <1>0, <2>1
    <3> QED BY <1>2, <3>1
  <2>2. CASE x # k
    <3>1. x \in 1..(k - 1) BY <1>0, <2>2
    <3>2. PICK j \in 1..n : x \in from[j]..to[j] BY <1>1, <3>1
    <3> QED BY <1>3, <3>2
  <2> QED BY <2>1, <2>2
<1>9. ASSUME NEW j \in 1..(m - 1) PROVE to2[j] + 1 - from2[j] = Album \/ s[from2[j]] # s[from2[j + 1]]
  <2>1. j \in 1..n /\ from2[j] = from[j] /\ to2[j] = to[j]
    <3>1. j \in 1..n BY <1>0
    <3> QED BY <1>3, <3>1
  <2>2. CASE j = n
    <3>1. n > 0 /\ from2[j + 1] = k BY <1>0, <1>2, <2>1, <2>2
    <3>2. to[n] \in from[n]..to[n]
      <4>1. from[n] \in 1..L /\ to[n] \in 1..L /\ from[n] <= to[n] BY <1>1, <2>1, <2>2
      <4> QED BY <1>0, <4>1
    <3>3. s[to[n]] = s[from[n]] BY <1>1, <2>1, <2>2, <3>2
    <3> QED BY <2>1, <2>2, <3>1, <3>3
  <2>3. CASE j # n
    <3>1. PICK i : i = j + 1 OBVIOUS
    <3>2. j \in 1..(n - 1) /\ i \in 1..n BY <1>0, <2>1, <2>3, <3>1
    <3>3. from2[i] = from[i] BY <1>3, <3>2
    <3> QED BY <1>1, <2>1, <3>1, <3>2, <3>3
  <2> QED BY <2>2, <2>3
<1>10. Albums(s, k, m, from2, to2)
  <2> HIDE DEF m
  <2>1. Cuts(s, m, from2, to2) BY <1>0, <1>5, <1>6, <1>7 DEF Cuts
  <2>2. m > 0 BY <1>0
  <2> QED BY <1>2, <1>6, <1>8, <1>9, <2>1, <2>2 DEF Albums
<1>11. Parts(s, m, from2, to2) = Append(Parts(s, n, from, to), <<s[k]>>)
  <2> DEFINE ps == Parts(s, n, from, to)
             qs == Parts(s, m, from2, to2)
             us == Append(ps, <<s[k]>>)
             T == Seq(Kinds)
  <2>1. ps \in Seq(T) /\ Len(ps) = n
    <3>1. Cuts(s, n, from, to) BY DEF Albums
    <3> QED BY <3>1, CutsInPlace
  <2>2. qs \in Seq(T) /\ Len(qs) = m
    <3>1. Cuts(s, m, from2, to2) BY <1>10 DEF Albums
    <3> HIDE DEF m
    <3> QED BY <3>1, CutsInPlace
  <2>3. SubSeq(s, k, k) = <<s[k]>> /\ <<s[k]>> \in T
    <3>1. s[k] \in Kinds BY <1>0
    <3> QED BY <3>1, OneOf
  <2>4. us \in Seq(T) /\ Len(us) = m /\ us[m] = <<s[k]>> /\ \A j \in 1..n : us[j] = ps[j]
    <3> HIDE DEF ps
    <3> QED BY <1>0, <2>1, <2>3
  <2>5. \A j \in 1..n : ps[j] = SubSeq(s, from[j], to[j]) BY DEF Parts
  <2>6. \A j \in 1..m : qs[j] = SubSeq(s, from2[j], to2[j]) BY DEF Parts
  <2> HIDE DEF ps, qs, us, m
  <2>7. ASSUME NEW j \in 1..m PROVE qs[j] = us[j]
    <3>1. CASE j = m BY <1>2, <2>3, <2>4, <2>6, <3>1
    <3>2. CASE j \in 1..n
      <4>1. from2[j] = from[j] /\ to2[j] = to[j] BY <1>3, <3>2
      <4>2. qs[j] = SubSeq(s, from[j], to[j]) BY <2>6, <4>1
      <4> QED BY <2>4, <2>5, <3>2, <4>2
    <3> QED BY <1>4, <3>1, <3>2
  <2>8. Len(qs) = Len(us) /\ \A j \in 1..Len(qs) : qs[j] = us[j] BY <2>2, <2>4, <2>7
  <2>9. qs = us BY <2>2, <2>4, <2>8, SeqEqual
  <2> QED BY <2>9 DEF qs, us, ps
<1> QED BY <1>10, <1>11

\* A file more in the last batch.
LEMMA LargerBatch ==
  ASSUME NEW s \in Seq(Kinds), NEW k \in 1..Len(s), NEW n, NEW from, NEW to, Albums(s, k - 1, n, from, to),
         n > 0, to[n] + 1 - from[n] < Album, s[to[n]] = s[k]
  PROVE  \E to2 : /\ Albums(s, k, n, from, to2)
                  /\ Parts(s, n, from, to2)
                     = Append(Front(Parts(s, n, from, to)), Append(Last(Parts(s, n, from, to)), s[k]))
<1> DEFINE L == Len(s)
           to2 == [j \in 1..n |-> IF j = n THEN k ELSE to[j]]
<1>0. /\ L \in Nat /\ n \in Nat /\ n \in 1..n /\ k \in Nat /\ k <= L /\ k >= 1 /\ Album \in Nat \ {0}
      /\ from[n] \in Nat /\ to[n] \in Nat /\ to[n] <= k - 1 /\ from[n] >= 1 /\ from[n] <= to[n]
  <2>1. n \in Nat /\ L \in Nat BY DEF Albums, Cuts
  <2>2. n \in 1..n BY <2>1
  <2>3. from[n] \in 1..L /\ to[n] \in 1..L /\ to[n] <= k - 1 /\ from[n] <= to[n] BY <2>2 DEF Albums, Cuts
  <2> QED BY <2>1, <2>2, <2>3, DeliveryConstants DEF DeliveryConstants
<1>1. /\ \A j \in 1..n : /\ from[j] \in 1..L /\ to[j] \in 1..L /\ from[j] <= to[j] /\ to[j] <= k - 1 /\ to[j] - from[j] < Album
                         /\ \A x \in from[j]..to[j] : s[x] = s[from[j]]
      /\ \A i, j \in 1..n : i < j => to[i] < from[j]
      /\ \A x \in 1..(k - 1) : \E j \in 1..n : x \in from[j]..to[j]
      /\ \A j \in 1..(n - 1) : to[j] + 1 - from[j] = Album \/ s[from[j]] # s[from[j + 1]]
      /\ from \in [1..n -> 1..L]
  BY DEF Albums, Cuts
<1>2. to2[n] = k /\ to[n] = k - 1
  <2>1. to2[n] = k BY <1>0
  <2>2. CASE k - 1 > 0 BY <2>1, <2>2 DEF Albums
  <2>3. CASE ~(k - 1 > 0) BY <1>0, <2>3
  <2> QED BY <2>1, <2>2, <2>3
<1>3. \A j \in 1..n : j # n => to2[j] = to[j] OBVIOUS
<1>5. to2 \in [1..n -> 1..L]
  <2>1. k \in 1..L BY <1>0
  <2>2. \A j \in 1..n : to2[j] \in 1..L BY <1>1, <1>2, <1>3, <2>1
  <2>3. to2 = [j \in 1..n |-> to2[j]] OBVIOUS
  <2> HIDE DEF to2
  <2> QED BY <2>2, <2>3
<1> HIDE DEF to2
<1>6. ASSUME NEW j \in 1..n
      PROVE  /\ from[j] <= to2[j] /\ to2[j] <= k /\ to2[j] - from[j] < Album
             /\ \A x \in from[j]..to2[j] : s[x] = s[from[j]]
  <2>1. CASE j = n
    <3>1. from[n] <= k /\ k - from[n] < Album BY <1>0, <1>2
    <3>2. ASSUME NEW x \in from[n]..k PROVE s[x] = s[from[n]]
      <4>1. CASE x = k
        <5>1. to[n] \in from[n]..to[n] BY <1>0
        <5>2. s[to[n]] = s[from[n]] BY <1>0, <1>1, <5>1
        <5> QED BY <4>1, <5>2
      <4>2. CASE x # k
        <5>1. x \in from[n]..to[n] BY <1>0, <1>2, <4>2
        <5> QED BY <1>0, <1>1, <5>1
      <4> QED BY <4>1, <4>2
    <3>3. k <= k BY <1>0
    <3> QED BY <1>2, <2>1, <3>1, <3>2, <3>3
  <2>2. CASE j # n
    <3>1. to2[j] = to[j] /\ to[j] \in 1..L /\ to[j] <= k - 1 BY <1>1, <1>3, <2>2
    <3>2. to[j] <= k BY <1>0, <3>1
    <3> QED BY <1>1, <3>1, <3>2
  <2> QED BY <2>1, <2>2
<1>7. ASSUME NEW i \in 1..n, NEW j \in 1..n, i < j PROVE to2[i] < from[j]
  <2>1. i # n BY <1>0, <1>7
  <2> QED BY <1>1, <1>3, <1>7, <2>1
<1>8. ASSUME NEW x \in 1..k PROVE \E j \in 1..n : x \in from[j]..to2[j]
  <2>1. CASE x = k
    <3>1. x \in from[n]..k BY <1>0, <2>1
    <3> QED BY <1>0, <1>2, <3>1
  <2>2. CASE x # k
    <3>1. x \in 1..(k - 1) BY <1>0, <2>2
    <3>2. PICK j \in 1..n : x \in from[j]..to[j] BY <1>1, <3>1
    <3>3. CASE j = n
      <4>1. x \in from[n]..k BY <1>0, <3>2, <3>3
      <4> QED BY <1>0, <1>2, <4>1
    <3> QED BY <1>3, <3>2, <3>3
  <2> QED BY <2>1, <2>2
<1>9. ASSUME NEW j \in 1..(n - 1) PROVE to2[j] + 1 - from[j] = Album \/ s[from[j]] # s[from[j + 1]]
  <2>1. j \in 1..n /\ j # n BY <1>0
  <2>2. to2[j] = to[j] BY <1>3, <2>1
  <2> QED BY <1>1, <2>2
<1>10. Albums(s, k, n, from, to2)
  <2>1. Cuts(s, n, from, to2) BY <1>0, <1>1, <1>5, <1>6, <1>7 DEF Cuts
  <2> QED BY <1>2, <1>6, <1>8, <1>9, <2>1 DEF Albums
<1>11. Parts(s, n, from, to2) = Append(Front(Parts(s, n, from, to)), Append(Last(Parts(s, n, from, to)), s[k]))
  <2> DEFINE ps == Parts(s, n, from, to)
             qs == Parts(s, n, from, to2)
             p == SubSeq(s, from[n], k - 1)
             us == Append(Front(ps), Append(Last(ps), s[k]))
             T == Seq(Kinds)
  <2>1. ps \in Seq(T) /\ Len(ps) = n
    <3>1. Cuts(s, n, from, to) BY DEF Albums
    <3> QED BY <3>1, CutsInPlace
  <2>2. qs \in Seq(T) /\ Len(qs) = n
    <3>1. Cuts(s, n, from, to2) BY <1>10 DEF Albums
    <3> QED BY <3>1, CutsInPlace
  <2>5. \A j \in 1..n : ps[j] = SubSeq(s, from[j], to[j]) BY DEF Parts
  <2>6. \A j \in 1..n : qs[j] = SubSeq(s, from[j], to2[j]) BY DEF Parts
  <2>7. Last(ps) = p
    <3>1. Last(ps) = ps[n]
      <4> HIDE DEF ps
      <4> QED BY <2>1 DEF Last
    <3> QED BY <1>0, <1>2, <2>5, <3>1
  <2>8. Append(p, s[k]) = SubSeq(s, from[n], k) /\ Append(p, s[k]) \in T
    <3> DEFINE q == SubSeq(s, from[n], k)
               a == Append(p, s[k])
    <3>1. PICK f, g, l : f = from[n] /\ g = k - 1 /\ l = k - f OBVIOUS
    <3>0. f \in Nat /\ f >= 1 /\ f <= g /\ k \in Nat /\ k >= 1 /\ k <= Len(s) /\ Len(s) \in Nat BY <1>0, <1>2, <3>1
    <3>2. /\ f \in Nat \ {0} /\ g \in Nat /\ g <= Len(s) /\ f <= g + 1 /\ g + 1 - f = l /\ f <= k + 1 /\ k + 1 - f = l + 1
          /\ l \in Nat
      <4>1. g = k - 1 /\ l = k - f BY <3>1
      <4> QED BY ONLY <3>0, <4>1
    <3>3. p \in T /\ Len(p) = l /\ \A i \in 1..l : p[i] = s[f + i - 1]
      <4>1. SubSeq(s, f, g) \in T /\ Len(SubSeq(s, f, g)) = g + 1 - f /\ \A i \in 1..(g + 1 - f) : SubSeq(s, f, g)[i] = s[f + i - 1]
        BY <3>2, SubSeqIs
      <4> QED BY <3>1, <3>2, <4>1
    <3>4. q \in T /\ Len(q) = l + 1 /\ \A i \in 1..(l + 1) : q[i] = s[f + i - 1]
      <4>1. SubSeq(s, f, k) \in T /\ Len(SubSeq(s, f, k)) = k + 1 - f /\ \A i \in 1..(k + 1 - f) : SubSeq(s, f, k)[i] = s[f + i - 1]
        BY <3>0, <3>2, SubSeqIs
      <4> QED BY <3>1, <3>2, <4>1
    <3> HIDE DEF p, q
    <3>5. s[k] \in Kinds BY <1>0
    <3>6. a \in T /\ Len(a) = l + 1 /\ a[l + 1] = s[k] /\ \A i \in 1..l : a[i] = p[i] BY <3>3, <3>5
    <3> HIDE DEF a
    <3>7. ASSUME NEW i \in 1..(l + 1) PROVE a[i] = q[i]
      <4>1. CASE i \in 1..l BY <3>3, <3>4, <3>6, <4>1
      <4>2. CASE i = l + 1
        <5>1. f + i - 1 = k BY <3>0, <3>2, <4>2
        <5> QED BY <3>4, <3>6, <4>2, <5>1
      <4>3. l \in Nat BY <3>2
      <4>4. i = l + 1 \/ i \in 1..l BY ONLY <4>3, i \in 1..(l + 1)
      <4> QED BY <4>1, <4>2, <4>4
    <3>8. Len(a) = Len(q) /\ \A i \in 1..Len(a) : a[i] = q[i] BY <3>4, <3>6, <3>7
    <3>9. a = q BY <3>4, <3>6, <3>8, SeqEqual
    <3> QED BY <3>6, <3>9 DEF a, q
  <2> HIDE DEF p
  <2>9. us \in Seq(T) /\ Len(us) = n /\ us[n] = Append(p, s[k]) /\ \A j \in 1..(n - 1) : us[j] = ps[j]
    <3> HIDE DEF ps
    <3>1. Front(ps) = SubSeq(ps, 1, n - 1) BY <2>1 DEF Front
    <3>2. PICK g : g = n - 1 OBVIOUS
    <3>3. g \in Nat /\ g <= Len(ps) /\ 1 <= g + 1 /\ g + 1 - 1 = g /\ n = g + 1 /\ \A i \in 1..g : 1 + i - 1 = i BY <1>0, <2>1, <3>2
    <3>4. /\ SubSeq(ps, 1, g) \in Seq(T) /\ Len(SubSeq(ps, 1, g)) = g + 1 - 1
          /\ \A i \in 1..(g + 1 - 1) : SubSeq(ps, 1, g)[i] = ps[1 + i - 1]
      BY <2>1, <3>3, SubSeqIs
    <3> DEFINE fr == Front(ps)
    <3>5. fr \in Seq(T) /\ Len(fr) = g /\ \A i \in 1..g : fr[i] = ps[i] BY <3>1, <3>2, <3>3, <3>4
    <3> HIDE DEF fr
    <3> DEFINE a == Append(p, s[k])
    <3>6. us = Append(fr, a) /\ a \in T BY <2>7, <2>8 DEF fr
    <3> HIDE DEF us, a
    <3>7. us \in Seq(T) /\ Len(us) = g + 1 /\ us[g + 1] = a /\ \A j \in 1..g : us[j] = fr[j] BY <3>3, <3>5, <3>6
    <3> QED BY <3>2, <3>3, <3>5, <3>7 DEF a
  <2> HIDE DEF ps, qs, us
  <2>10. ASSUME NEW j \in 1..n PROVE qs[j] = us[j]
    <3>1. CASE j = n BY <1>2, <2>6, <2>8, <2>9, <3>1
    <3>2. CASE j # n
      <4>1. to2[j] = to[j] /\ j \in 1..(n - 1) BY <1>0, <1>3, <3>2
      <4>2. qs[j] = SubSeq(s, from[j], to[j]) BY <2>6, <4>1
      <4> QED BY <2>5, <2>9, <4>1, <4>2
    <3> QED BY <3>1, <3>2
  <2>11. Len(qs) = Len(us) /\ \A j \in 1..Len(qs) : qs[j] = us[j] BY <2>2, <2>9, <2>10
  <2>12. qs = us BY <2>2, <2>9, <2>11, SeqEqual
  <2> QED BY <2>12 DEF qs, us, ps
<1> QED BY <1>10, <1>11

\* Parts that are none.
LEMMA NoParts ==
  ASSUME NEW s, NEW n \in Nat, NEW from, NEW to
  PROVE  Parts(s, n, from, to) = <<>> <=> n = 0
<1>1. DOMAIN Parts(s, n, from, to) = 1..n BY DEF Parts
<1>2. CASE n = 0
  <2>1. 1..0 = {} OBVIOUS
  <2>2. Parts(s, 0, from, to) = [j \in 1..0 |-> SubSeq(s, from[j], to[j])] BY DEF Parts
  <2> QED BY <1>2, <2>1, <2>2
<1>3. CASE n # 0
  <2>1. 1 \in DOMAIN Parts(s, n, from, to) BY <1>1, <1>3
  <2>2. 1 \notin DOMAIN <<>> OBVIOUS
  <2>3. PICK z : z = Parts(s, n, from, to) OBVIOUS
  <2>4. z # <<>> BY ONLY <2>1, <2>2, <2>3
  <2> QED BY <1>3, <2>3, <2>4
<1> QED BY <1>2, <1>3

\* Joining makes of the files batches that hold them.
LEMMA JoiningIs ==
  ASSUME NEW s \in Seq(Kinds)
  PROVE  \E n, from, to : Albums(s, Len(s), n, from, to) /\ FoldLeft(Join, <<>>, s) = Parts(s, n, from, to)
<1> DEFINE N == Len(s)
           Fine(k, bs) == \E n, from, to : Albums(s, k, n, from, to) /\ bs = Parts(s, n, from, to)
<1>0. N \in Nat OBVIOUS
<1>1. PICK f : f[0] = <<>> /\ f[N] = FoldLeft(Join, <<>>, s) /\ \A k \in 1..N : f[k] = Join(f[k - 1], s[k]) BY JoinSteps
<1> DEFINE H == {k \in 0..N : Fine(k, f[k])}
<1>2. Fine(0, f[0])
  <2> DEFINE g == [j \in 1..0 |-> 0]
  <2>1. 1..0 = {} /\ \A x \in 1..0 : FALSE OBVIOUS
  <2>2. g \in [1..0 -> 1..Len(s)] BY <2>1
  <2>3. Cuts(s, 0, g, g) BY <2>1, <2>2 DEF Cuts
  <2>4. 1..(0 - 1) = {} /\ ~(0 > 0) OBVIOUS
  <2>5. Albums(s, 0, 0, g, g) BY <2>1, <2>3, <2>4 DEF Albums
  <2>6. Parts(s, 0, g, g) = <<>> BY NoParts
  <2> QED BY <1>1, <2>5, <2>6
<1>3. ASSUME NEW k \in 1..N, NEW bs, Fine(k - 1, bs) PROVE Fine(k, Join(bs, s[k]))
  <2>1. PICK n, from, to : Albums(s, k - 1, n, from, to) /\ bs = Parts(s, n, from, to) BY <1>3
  <2>2. Cuts(s, n, from, to) /\ n \in Nat BY <2>1 DEF Albums, Cuts
  <2>3. bs = <<>> <=> n = 0 BY <2>1, <2>2, NoParts
  <2>4. ASSUME n > 0
        PROVE  /\ Len(Last(bs)) = to[n] + 1 - from[n] /\ Last(Last(bs)) = s[to[n]]
               /\ to[n] + 1 - from[n] \in Nat /\ to[n] + 1 - from[n] <= Album
    <3>1. /\ Len(bs) = n /\ bs[n] \in Seq(Kinds) /\ Len(bs[n]) = to[n] + 1 - from[n]
          /\ \A x \in 1..(to[n] + 1 - from[n]) : bs[n][x] = s[from[n] + x - 1]
      <4>1. n \in 1..n BY <2>2, <2>4
      <4>2. /\ Len(bs) = n
            /\ \A i \in 1..n : /\ bs[i] \in Seq(Kinds) /\ Len(bs[i]) = to[i] + 1 - from[i]
                               /\ \A x \in 1..(to[i] + 1 - from[i]) : bs[i][x] = s[from[i] + x - 1]
        <5>1. bs = Parts(s, n, from, to) BY <2>1
        <5>2. Cuts(s, n, from, to) BY <2>2
        <5> HIDE DEF Fine, H, N
        <5> QED BY <5>1, <5>2, CutsInPlace
      <4> QED BY <4>1, <4>2
    <3>2. from[n] \in 1..N /\ to[n] \in 1..N /\ from[n] <= to[n] /\ to[n] - from[n] < Album
      <4>1. n \in 1..n BY <2>2, <2>4
      <4> QED BY <2>1, <2>2, <4>1 DEF Albums, Cuts
    <3>3. PICK a, b, l : a = from[n] /\ b = to[n] /\ l = b + 1 - a OBVIOUS
    <3>4. a \in Nat /\ b \in Nat /\ a <= b /\ b - a < Album /\ Album \in Nat
      BY <1>0, <3>2, <3>3, DeliveryConstants DEF DeliveryConstants
    <3>5. l \in 1..l /\ l \in Nat /\ l <= Album /\ a + l - 1 = b
      <4>1. l = b + 1 - a BY <3>3
      <4> QED BY ONLY <3>4, <4>1
    <3>6. Last(bs) = bs[n] BY <3>1 DEF Last
    <3>7. Last(bs[n]) = bs[n][l] BY <3>1, <3>3 DEF Last
    <3>8. bs[n][l] = s[b] BY <3>1, <3>3, <3>5
    <3> QED BY <3>1, <3>3, <3>5, <3>6, <3>7, <3>8
  <2>5. CASE n > 0 /\ to[n] + 1 - from[n] < Album /\ s[to[n]] = s[k]
    <3>1. PICK to2 : /\ Albums(s, k, n, from, to2)
                     /\ Parts(s, n, from, to2) = Append(Front(bs), Append(Last(bs), s[k]))
      BY <2>1, <2>5, LargerBatch
    <3>2. Join(bs, s[k]) = Append(Front(bs), Append(Last(bs), s[k]))
      <4>1. Album \in Nat /\ to[n] + 1 - from[n] \in Nat BY <2>4, <2>5, DeliveryConstants DEF DeliveryConstants
      <4>2. ~(Len(Last(bs)) >= Album) BY <2>4, <2>5, <4>1
      <4> QED BY <2>3, <2>4, <2>5, <4>2 DEF Join
    <3> QED BY <3>1, <3>2
  <2>6. CASE ~(n > 0 /\ to[n] + 1 - from[n] < Album /\ s[to[n]] = s[k])
    <3>1. n > 0 => to[n] + 1 - from[n] = Album \/ s[to[n]] # s[k]
      <4>1. Album \in Nat BY DeliveryConstants DEF DeliveryConstants
      <4> QED BY <2>4, <2>6, <4>1
    <3>2. PICK from2, to2 : /\ Albums(s, k, n + 1, from2, to2)
                            /\ Parts(s, n + 1, from2, to2) = Append(bs, <<s[k]>>)
      <4>1. Albums(s, k - 1, n, from, to) /\ k \in 1..Len(s) BY <2>1
      <4>2. \E from2, to2 : /\ Albums(s, k, n + 1, from2, to2)
                            /\ Parts(s, n + 1, from2, to2) = Append(Parts(s, n, from, to), <<s[k]>>)
        BY <3>1, <4>1, NewBatch
      <4> QED BY <2>1, <4>2
    <3>3. Join(bs, s[k]) = Append(bs, <<s[k]>>)
      <4>1. CASE n = 0 BY <2>3, <4>1 DEF Join
      <4>2. CASE n # 0
        <5>1. n > 0 BY <2>2, <4>2
        <5>2. Album \in Nat BY DeliveryConstants DEF DeliveryConstants
        <5>3. Last(Last(bs)) # s[k] \/ Len(Last(bs)) >= Album BY <2>4, <2>6, <3>1, <5>1, <5>2
        <5> QED BY <5>3 DEF Join
      <4> QED BY <4>1, <4>2
    <3> QED BY <3>2, <3>3
  <2> QED BY <2>5, <2>6
<1> HIDE DEF Fine
<1>4. 0 \in H BY <1>0, <1>2
<1>5. \A k \in 0..(N - 1) : k \in H => k + 1 \in H
  <2> SUFFICES ASSUME NEW k \in 0..(N - 1), k \in H PROVE k + 1 \in H OBVIOUS
  <2>1. PICK j : j = k + 1 OBVIOUS
  <2>2. j \in 1..N /\ j - 1 = k /\ j \in 0..N BY <1>0, <2>1
  <2>3. Fine(j, Join(f[j - 1], s[j])) BY <1>3, <2>2
  <2> QED BY <1>1, <2>1, <2>2, <2>3
<1>6. N \in H
  <2> HIDE DEF H
  <2>1. N \in 0..N BY <1>0
  <2> QED BY <1>0, <1>4, <1>5, <2>1, InductionUpTo
<1> QED BY <1>1, <1>6 DEF Fine

\* Each of the k places is in a stretch.
Covers(k, n, from, to) == \A x \in 1..k : \E j \in 1..n : x \in from[j]..to[j]

\* Stretches that are batches of all of s, albums for Telegram.
Batched(s, how, n, from, to) ==
  /\ Cuts(s, n, from, to) /\ n > 0 /\ Covers(Len(s), n, from, to)
  /\ how = "kinds" => Albums(s, Len(s), n, from, to)

\* The batches of files hold them, one behind the other; Telegram's are its albums.
LEMMA BatchesAre ==
  ASSUME NEW s \in Seq(Kinds), s # <<>>, NEW how \in {"kinds", "single", "whole"}
  PROVE  \E n, from, to : Batched(s, how, n, from, to) /\ Batches(s, how) = Parts(s, n, from, to)
<1>0. Len(s) \in Nat \ {0} BY EmptySeq
<1>1. CASE how = "kinds"
  <2>1. Batches(s, how) = FoldLeft(Join, <<>>, s) BY <1>1 DEF Batches
  <2>2. PICK n, from, to : Albums(s, Len(s), n, from, to) /\ FoldLeft(Join, <<>>, s) = Parts(s, n, from, to) BY JoiningIs
  <2>3. Len(s) > 0 BY <1>0
  <2>4. Covers(Len(s), n, from, to) BY <2>2 DEF Albums, Covers
  <2>5. Cuts(s, n, from, to) /\ n > 0 BY <2>2, <2>3 DEF Albums
  <2>6. Batched(s, how, n, from, to) BY <2>2, <2>4, <2>5 DEF Batched
  <2> QED BY <2>1, <2>2, <2>6
<1>2. CASE how = "single"
  <2> DEFINE g == [j \in 1..Len(s) |-> j]
  <2>1. Batches(s, how) = [i \in DOMAIN s |-> <<s[i]>>] BY <1>2 DEF Batches
  <2>2. \A j \in 1..Len(s) : g[j] = j OBVIOUS
  <2>3. g \in [1..Len(s) -> 1..Len(s)] OBVIOUS
  <2>4. Parts(s, Len(s), g, g) = [j \in 1..Len(s) |-> SubSeq(s, g[j], g[j])] BY DEF Parts
  <2> HIDE DEF g
  <2>5. \A j \in 1..Len(s) : SubSeq(s, g[j], g[j]) = <<s[j]>> BY <2>2, OneOf
  <2>6. Batches(s, how) = Parts(s, Len(s), g, g)
    <3>1. DOMAIN s = 1..Len(s) OBVIOUS
    <3> QED BY <2>1, <2>4, <2>5, <3>1
  <2>7. Cuts(s, Len(s), g, g) BY <1>0, <2>2, <2>3 DEF Cuts
  <2>8. Covers(Len(s), Len(s), g, g)
    <3> SUFFICES ASSUME NEW x \in 1..Len(s) PROVE x \in g[x]..g[x] BY DEF Covers
    <3> QED BY <2>2
  <2>9. Len(s) > 0 BY <1>0
  <2>10. Batched(s, how, Len(s), g, g) BY <1>2, <2>7, <2>8, <2>9 DEF Batched
  <2> QED BY <2>6, <2>10
<1>3. CASE how = "whole"
  <2>1. Batches(s, how) = <<s>> BY <1>3 DEF Batches
  <2>2. PICK from, to : Cuts(s, 1, from, to) /\ Parts(s, 1, from, to) = <<s>> /\ from[1] = 1 /\ to[1] = Len(s) BY OnePart
  <2>3. 1 \in 1..1 /\ 1 > 0 OBVIOUS
  <2>4. Covers(Len(s), 1, from, to) BY <2>2, <2>3 DEF Covers
  <2>5. Batched(s, how, 1, from, to) BY <1>3, <2>2, <2>3, <2>4 DEF Batched
  <2> QED BY <2>1, <2>2, <2>5
<1> QED BY <1>1, <1>2, <1>3

\* A first part that is all of s, and others that are empty.
LEMMA FirstIsAll ==
  ASSUME NEW C, NEW s \in Seq(C), NEW n \in Nat \ {0}, NEW parts, parts = [i \in 1..n |-> IF i = 1 THEN s ELSE <<>>]
  PROVE  \E from : from \in Places(s, parts) /\ Stretches(s, parts, from) /\ Held(parts, from) = DOMAIN s
<1> DEFINE L == Len(s)
           from == [i \in 1..n |-> IF i = 1 THEN 1 ELSE L + 1]
<1>0. L \in Nat /\ DOMAIN s = 1..L /\ 1 \in 1..n /\ DOMAIN parts = 1..n OBVIOUS
<1>1. from[1] = 1 /\ parts[1] = s BY <1>0
<1>2. \A i \in 1..n : i # 1 => from[i] = L + 1 /\ parts[i] = <<>> OBVIOUS
<1>3. from \in Places(s, parts)
  <2>1. \A i \in 1..n : from[i] \in 1..(L + 1) BY <1>0, <1>1, <1>2
  <2>2. from = [i \in 1..n |-> from[i]] OBVIOUS
  <2> HIDE DEF from
  <2> QED BY <1>0, <2>1, <2>2 DEF Places
<1> HIDE DEF from
<1>4. Stretch(parts, from, 1) = 1..L /\ parts[1] = SubSeq(s, from[1], from[1] + Len(parts[1]) - 1)
      /\ from[1] + Len(parts[1]) = L + 1
  <2>1. 1 + L - 1 = L /\ 1 + L = L + 1 BY <1>0
  <2>2. SubSeq(s, 1, L) = s OBVIOUS
  <2>3. Len(parts[1]) = L BY <1>1
  <2> QED BY <1>1, <2>1, <2>2, <2>3 DEF Stretch
<1>5. ASSUME NEW i \in 1..n, i # 1
      PROVE  /\ Stretch(parts, from, i) = {} /\ parts[i] = SubSeq(s, from[i], from[i] + Len(parts[i]) - 1)
             /\ from[i] + Len(parts[i]) = L + 1
  <2>0. from[i] = L + 1 /\ parts[i] = <<>> BY <1>2, <1>5
  <2>1. Len(parts[i]) = 0 BY <2>0
  <2>2. PICK a : a = L + 1 OBVIOUS
  <2>3. a \in Nat \ {0} /\ a + 0 - 1 = L /\ a + 0 = L + 1 /\ a <= L + 1 /\ L + 1 - a = 0 /\ a..L = {} BY <1>0, <2>2
  <2>4. SubSeq(s, a, L) \in Seq(C) /\ Len(SubSeq(s, a, L)) = 0
    <3>1. L <= Len(s) BY <1>0
    <3>2. SubSeq(s, a, L) \in Seq(C) /\ Len(SubSeq(s, a, L)) = L + 1 - a BY <1>0, <2>3, <3>1, SubSeqIs
    <3> QED BY <2>3, <3>2
  <2>5. SubSeq(s, a, L) = <<>> BY <2>4, EmptySeq
  <2> QED BY <2>0, <2>1, <2>2, <2>3, <2>5 DEF Stretch
<1>6. Stretches(s, parts, from)
  <2>1. ASSUME NEW i \in 1..n
        PROVE  Stretch(parts, from, i) \subseteq DOMAIN s /\ parts[i] = SubSeq(s, from[i], from[i] + Len(parts[i]) - 1)
    BY <1>0, <1>4, <1>5
  <2>2. ASSUME NEW i \in 1..n, NEW j \in 1..n, i < j PROVE from[i] + Len(parts[i]) <= from[j]
    <3>1. j # 1 BY <1>0, <2>2
    <3>2. from[j] = L + 1 /\ from[i] + Len(parts[i]) = L + 1 BY <1>2, <1>4, <1>5, <3>1
    <3>3. L + 1 <= L + 1 BY <1>0
    <3> QED BY <3>2, <3>3
  <2> QED BY <1>0, <2>1, <2>2 DEF Stretches
<1>7. Held(parts, from) = DOMAIN s
  <2>1. Held(parts, from) = UNION {Stretch(parts, from, i) : i \in 1..n} BY <1>0 DEF Held
  <2>2. \A i \in 1..n : Stretch(parts, from, i) \subseteq 1..L BY <1>4, <1>5
  <2>3. Held(parts, from) \subseteq 1..L BY <2>1, <2>2
  <2>4. 1..L \subseteq Held(parts, from) BY <1>0, <1>4, <2>1
  <2> QED BY <1>0, <2>3, <2>4
<1> QED BY <1>3, <1>6, <1>7

\* The texts that are sent of a reply without attachments.
TextsOf(t, max) == IF Len(t) <= max THEN <<t>> ELSE SplitText(t, max)

\* Where they are in it.
InPlace(t, max, texts, from) ==
  /\ from \in Places(t, texts) /\ Stretches(t, texts, from) /\ Inked(t) \subseteq Held(texts, from)
  /\ WordsFit(t, max) => \A i \in 1..(Len(texts) - 1) : from[i] + Len(texts[i]) < from[i + 1]

NoneBlank(texts, max) == \A i \in DOMAIN texts : Len(texts[i]) \in 1..max /\ Inked(texts[i]) # {}

\* They are parts of it.
LEMMA TextsAre ==
  ASSUME NEW C, NEW t \in Seq(C), NEW max \in Nat \ {0}, NEW texts, texts = TextsOf(t, max)
  PROVE  /\ texts \in Seq(Seq(C)) /\ texts # <<>>
         /\ \E from : InPlace(t, max, texts, from)
         /\ Trim(t) # <<>> => NoneBlank(texts, max)
<1>0. Len(t) \in Nat /\ DOMAIN t = 1..Len(t) OBVIOUS
<1>1. CASE Len(t) <= max \/ Inked(t) = {}
  <2>1. texts = <<t>> BY <1>1, SplitTextIs DEF TextsOf
  <2>2. texts = [i \in 1..1 |-> IF i = 1 THEN t ELSE <<>>]
    <3>1. [i \in 1..1 |-> IF i = 1 THEN t ELSE <<>>] = <<t>> OBVIOUS
    <3> QED BY <2>1, <3>1
  <2>3. PICK from : from \in Places(t, texts) /\ Stretches(t, texts, from) /\ Held(texts, from) = DOMAIN t
    <3>1. 1 \in Nat \ {0} OBVIOUS
    <3> QED BY <2>2, <3>1, FirstIsAll
  <2>4. Inked(t) \subseteq DOMAIN t BY <1>0 DEF Inked
  <2>5. Len(texts) = 1 /\ texts \in Seq(Seq(C)) /\ texts # <<>> /\ DOMAIN texts = 1..1 /\ texts[1] = t BY <2>1
  <2>6. 1..(1 - 1) = {} OBVIOUS
  <2>7. Trim(t) # <<>> => Len(t) \in 1..max /\ Inked(t) # {}
    <3> SUFFICES ASSUME Trim(t) # <<>> PROVE Len(t) \in 1..max /\ Inked(t) # {} OBVIOUS
    <3>1. Inked(t) # {} BY TrimIs
    <3>2. PICK x : x \in 1..Len(t) BY <1>0, <2>4, <3>1
    <3>3. Len(t) <= max /\ Len(t) >= 1 BY <1>0, <1>1, <3>1, <3>2
    <3> QED BY <1>0, <3>1, <3>3
  <2>8. InPlace(t, max, texts, from) BY <2>3, <2>4, <2>5, <2>6 DEF InPlace
  <2>9. Trim(t) # <<>> => NoneBlank(texts, max) BY <2>5, <2>7 DEF NoneBlank
  <2> QED BY <2>5, <2>8, <2>9
<1>2. CASE ~(Len(t) <= max \/ Inked(t) = {})
  <2>1. texts = SplitText(t, max) BY <1>2 DEF TextsOf
  <2>2. PICK n, from, to : n # 0 /\ Laid(t, max, 1, n, from, to) /\ texts = Parts(t, n, from, to)
    BY <1>2, <2>1, SplitTextIs
  <2>3. /\ texts \in Seq(Seq(C)) /\ Len(texts) = n /\ DOMAIN texts = 1..n
        /\ from \in Places(t, texts) /\ Stretches(t, texts, from) /\ Inked(t) \subseteq Held(texts, from)
        /\ WordsFit(t, max) => \A i \in 1..(n - 1) : from[i] + Len(texts[i]) < from[i + 1]
        /\ \A i \in 1..n : Len(texts[i]) \in 1..max /\ Inked(texts[i]) # {}
    <3>1. texts = Parts(t, n, from, to) BY <2>2
    <3>2. Laid(t, max, 1, n, from, to) BY <2>2
    <3>3. Placed(C, t, max, n, from, texts) BY <3>1, <3>2, LaidInPlace
    <3> QED BY <3>3 DEF Placed
  <2>4. texts # <<>>
    <3>1. n \in Nat BY <2>2 DEF Laid
    <3> QED BY <2>2, <2>3, <3>1, NoParts
  <2>5. InPlace(t, max, texts, from) BY <2>3 DEF InPlace
  <2>6. NoneBlank(texts, max) BY <2>3 DEF NoneBlank
  <2> QED BY <2>3, <2>4, <2>5, <2>6
<1> QED BY <1>1, <1>2

\* Trimming and previewing keep characters.
LEMMA TrimKeeps ==
  ASSUME NEW C, NEW s \in Seq(C)
  PROVE  Trim(s) \in Seq(C) /\ \A target : Preview(s, target) \in Seq(C)
<1>1. ASSUME NEW u \in Seq(C) PROVE Trim(u) \in Seq(C)
  <2>1. CASE Inked(u) = {}
    <3>1. Trim(u) = <<>> BY <2>1, TrimIs
    <3>2. <<>> \in Seq(C) OBVIOUS
    <3> QED BY <3>1, <3>2
  <2>2. CASE Inked(u) # {}
    <3>1. PICK a, b \in 1..Len(u) : Trim(u) = SubSeq(u, a, b) /\ a <= b BY <2>2, TrimIs
    <3>2. a \in Nat \ {0} /\ b \in Nat /\ b <= Len(u) /\ a <= b + 1 BY <3>1
    <3> QED BY <3>1, <3>2, SubSeqIs
  <2> QED BY <2>1, <2>2
<1>2. ASSUME NEW target PROVE Preview(s, target) \in Seq(C)
  <2> DEFINE breaks == {i \in 1..Len(s) : i >= target /\ s[i] \in {WS, Punct}}
             end == IF breaks = {} THEN Len(s) ELSE Min(breaks)
             candidate == Trim(SubSeq(s, 1, end))
  <2>0. Len(s) \in Nat /\ breaks \in SUBSET (0..Len(s)) /\ breaks \subseteq 1..Len(s) OBVIOUS
  <2>1. end \in Nat /\ end <= Len(s)
    <3>1. CASE breaks = {} BY <2>0, <3>1
    <3>2. CASE breaks # {}
      <4> HIDE DEF breaks
      <4>1. Min(breaks) \in breaks BY <2>0, <3>2, FirstAndLast
      <4>2. end = Min(breaks) /\ Min(breaks) \in 1..Len(s) BY <2>0, <3>2, <4>1
      <4> HIDE DEF end
      <4> QED BY <2>0, <4>2
    <3> QED BY <3>1, <3>2
  <2>2. Preview(s, target) = IF candidate = s THEN <<>> ELSE candidate BY DEF Preview
  <2> HIDE DEF end
  <2>3. SubSeq(s, 1, end) \in Seq(C)
    <3>1. 1 \in Nat \ {0} /\ 1 <= end + 1 BY <2>1
    <3> QED BY <2>1, <3>1, SubSeqIs
  <2>4. candidate \in Seq(C) BY <1>1, <2>3
  <2> HIDE DEF candidate
  <2> QED BY <2>2, <2>4
<1> QED BY <1>1, <1>2

\* A piece has the texts of its draft.
LEMMA PieceIs ==
  ASSUME NEW text \in Seq(STRING), NEW files \in Seq(Kinds)
  PROVE  Piece(text, files) \in Pieces /\ Piece(text, files).text = text /\ Piece(text, files).files = files
<1>1. StreamSteps(text) \in Seq(Seq(STRING))
  <2> DEFINE s == Trim(text)
             first == Preview(s, Len(s) \div 3)
             second == Preview(s, (2 * Len(s)) \div 3)
             T == Seq(STRING)
             a == IF first = <<>> THEN <<>> ELSE <<first>>
             b == IF second = <<>> \/ second = first THEN <<>> ELSE <<second>>
  <2>1. s \in T BY TrimKeeps
  <2>2. StreamSteps(text) = IF Len(s) < StreamMin THEN <<s>> ELSE Append(a \o b, s) BY DEF StreamSteps
  <2> HIDE DEF s
  <2>3. first \in T /\ second \in T BY <2>1, TrimKeeps
  <2> HIDE DEF first, second
  <2>4. <<s>> \in Seq(T) /\ a \in Seq(T) /\ b \in Seq(T)
    <3> HIDE DEF T
    <3>1. <<>> \in Seq(T) /\ <<s>> \in Seq(T) /\ <<first>> \in Seq(T) /\ <<second>> \in Seq(T) BY <2>1, <2>3
    <3>2. a \in Seq(T) BY <3>1
    <3>3. b \in Seq(T) BY <3>1
    <3> QED BY <3>1, <3>2, <3>3
  <2> HIDE DEF a, b
  <2>5. a \o b \in Seq(T) BY <2>4
  <2> DEFINE c == a \o b
  <2>6. c \in Seq(T) BY <2>5
  <2> HIDE DEF c
  <2>7. Append(c, s) \in Seq(T) BY <2>1, <2>6
  <2> QED BY <2>2, <2>4, <2>7 DEF c
<1> QED BY <1>1 DEF Piece, Pieces

\* There are no batches of no files.
LEMMA NoBatches ==
  ASSUME NEW how \in {"kinds", "single", "whole"}
  PROVE  Len(Batches(<<>>, how)) = 0
<1>1. CASE how = "kinds"
  <2>0. <<>> \in Seq(Kinds) /\ Len(<<>>) = 0 OBVIOUS
  <2>1. PICK n, from, to : Albums(<<>>, Len(<<>>), n, from, to) /\ FoldLeft(Join, <<>>, <<>>) = Parts(<<>>, n, from, to)
    BY <2>0, JoiningIs
  <2>2. n \in Nat /\ from \in [1..n -> 1..0] BY <2>0, <2>1 DEF Albums, Cuts
  <2>3. n = 0
    <3> SUFFICES ASSUME n # 0 PROVE FALSE OBVIOUS
    <3>1. 1 \in 1..n BY <2>2
    <3>2. from[1] \in 1..0 BY <2>2, <3>1
    <3> QED BY <3>2
  <2>4. Parts(<<>>, n, from, to) = <<>> BY <2>2, <2>3, NoParts
  <2> QED BY <1>1, <2>0, <2>1, <2>4 DEF Batches
<1>2. CASE how = "single"
  <2>1. Batches(<<>>, how) = [i \in DOMAIN <<>> |-> <<(<<>>)[i]>>] BY <1>2 DEF Batches
  <2>2. DOMAIN <<>> = 1..0 OBVIOUS
  <2> QED BY <2>1, <2>2
<1>3. CASE how = "whole" BY <1>3 DEF Batches
<1> QED BY <1>1, <1>2, <1>3

\* What becomes of a reply: its texts, or its first piece with all the text and a batch each.
SplitAs(r, texts, files) ==
  /\ DOMAIN texts = DOMAIN files
  /\ Split(r) = [i \in DOMAIN texts |-> Piece(texts[i], files[i])]

\* A reply without files is split into the parts of its text.
LEMMA SplitIsTexts ==
  ASSUME NEW r \in Replies, r.files = <<>>
  PROVE  LET texts == TextsOf(r.text, r.max)
         IN  /\ texts \in Seq(Seq(STRING)) /\ texts # <<>>
             /\ SplitAs(r, texts, [i \in DOMAIN texts |-> <<>>])
<1> DEFINE texts == TextsOf(r.text, r.max)
<1>0. r.text \in Seq(STRING) /\ r.max \in Nat \ {0} /\ r.batch \in {"kinds", "single", "whole"}
  BY DeliveryConstants DEF DeliveryConstants
<1>1. texts \in Seq(Seq(STRING)) /\ texts # <<>> BY <1>0, TextsAre
<1>2. ~(Len(Batches(r.files, r.batch)) > 1) BY <1>0, NoBatches
<1>3. Split(r) = [i \in DOMAIN texts |-> Piece(texts[i], r.files)] BY <1>2 DEF Split, TextsOf
<1> HIDE DEF texts
<1>4. SplitAs(r, texts, [i \in DOMAIN texts |-> <<>>]) BY <1>3 DEF SplitAs
<1> QED BY <1>1, <1>4 DEF texts

\* All the text before no text, with the files in batches.
BatchedAs(r, n, from, to) ==
  /\ Batched(r.files, r.batch, n, from, to)
  /\ SplitAs(r, [i \in 1..n |-> IF i = 1 THEN r.text ELSE <<>>], Parts(r.files, n, from, to))

LEMMA SplitIsBatches ==
  ASSUME NEW r \in Replies, r.files # <<>>
  PROVE  \E n, from, to : BatchedAs(r, n, from, to)
<1>0. /\ r.files \in Seq(Kinds) /\ r.batch \in {"kinds", "single", "whole"} /\ r.text \in Seq(STRING)
  BY DeliveryConstants DEF DeliveryConstants
<1> DEFINE s == r.files
           bs == Batches(s, r.batch)
<1>9. PICK n, from, to : Batched(s, r.batch, n, from, to) /\ bs = Parts(s, n, from, to) BY <1>0, BatchesAre
<1>1. Cuts(s, n, from, to) /\ n > 0 /\ Covers(Len(s), n, from, to) /\ bs = Parts(s, n, from, to) BY <1>9 DEF Batched
<1>2. bs \in Seq(Seq(Kinds)) /\ Len(bs) = n /\ DOMAIN bs = 1..n /\ n \in Nat
  <2>1. bs = Parts(s, n, from, to) /\ Cuts(s, n, from, to) BY <1>1
  <2> HIDE DEF bs
  <2>2. n \in Nat BY <2>1 DEF Cuts
  <2> QED BY <1>0, <2>1, <2>2, CutsInPlace
<1> SUFFICES SplitAs(r, [i \in 1..n |-> IF i = 1 THEN r.text ELSE <<>>], bs)
  <2>1. ASSUME SplitAs(r, [i \in 1..n |-> IF i = 1 THEN r.text ELSE <<>>], bs) PROVE BatchedAs(r, n, from, to)
    BY <1>9, <2>1 DEF BatchedAs
  <2> QED BY <2>1
<1>3. CASE n > 1
  <2> DEFINE texts == [i \in 1..n |-> IF i = 1 THEN r.text ELSE <<>>]
  <2>1. Split(r) = [i \in DOMAIN bs |-> Piece(IF i = 1 THEN r.text ELSE <<>>, bs[i])] BY <1>2, <1>3 DEF Split
  <2>2. Split(r) = [i \in 1..n |-> Piece(texts[i], bs[i])]
    <3>1. \A i \in 1..n : texts[i] = IF i = 1 THEN r.text ELSE <<>> OBVIOUS
    <3> HIDE DEF bs, texts
    <3> QED BY <1>2, <2>1, <3>1
  <2>3. DOMAIN texts = 1..n OBVIOUS
  <2>4. SplitAs(r, texts, bs) BY <1>2, <2>2, <2>3 DEF SplitAs
  <2> QED BY <2>4
<1>4. CASE ~(n > 1)
  <2>1. n = 1 BY <1>1, <1>2, <1>4
  <2>2. Split(r) = [i \in DOMAIN <<r.text>> |-> Piece(<<r.text>>[i], s)] BY <1>2, <2>1 DEF Split
  <2>3. DOMAIN <<r.text>> = 1..1 /\ <<r.text>>[1] = r.text /\ 1 \in 1..1 /\ \A i \in 1..1 : i = 1 OBVIOUS
  <2>4. bs[1] = s
    <3>1. bs[1] = SubSeq(s, from[1], to[1]) BY <1>1, <2>1, <2>3 DEF Parts
    <3>2. from[1] \in 1..Len(s) /\ to[1] \in 1..Len(s) /\ from[1] <= to[1] BY <1>1, <2>1, <2>3 DEF Cuts
    <3>3. Len(s) \in Nat \ {0} /\ 1 \in 1..Len(s) /\ Len(s) \in 1..Len(s) BY <1>0, EmptySeq
    <3>7. \A x \in 1..Len(s) : x \in from[1]..to[1]
      <4> HIDE DEF s, bs
      <4> SUFFICES ASSUME NEW x \in 1..Len(s) PROVE x \in from[1]..to[1] OBVIOUS
      <4>1. PICK j \in 1..n : x \in from[j]..to[j] BY <1>1 DEF Covers
      <4>2. j = 1 BY <2>1, <2>3, <4>1
      <4> QED BY <4>1, <4>2
    <3>4. 1 \in from[1]..to[1] /\ Len(s) \in from[1]..to[1] BY <3>3, <3>7
    <3>5. from[1] = 1 /\ to[1] = Len(s) BY <3>2, <3>3, <3>4
    <3>6. SubSeq(s, 1, Len(s)) = s BY <1>0
    <3> QED BY <3>1, <3>5, <3>6
  <2> DEFINE texts == [i \in 1..1 |-> IF i = 1 THEN r.text ELSE <<>>]
  <2>5. texts[1] = r.text /\ DOMAIN texts = 1..1 BY <2>3
  <2>6. Split(r) = [i \in 1..1 |-> Piece(texts[i], bs[i])]
    <3> HIDE DEF bs, texts, s
    <3>1. \A i \in 1..1 : <<r.text>>[i] = texts[i] /\ s = bs[i] BY <2>3, <2>4, <2>5
    <3> QED BY <2>2, <2>3, <3>1
  <2> HIDE DEF texts, bs
  <2>7. SplitAs(r, texts, bs) BY <1>2, <2>1, <2>5, <2>6 DEF SplitAs
  <2>8. SplitAs(r, [i \in 1..n |-> IF i = 1 THEN r.text ELSE <<>>], bs) BY <2>1, <2>7 DEF texts
  <2> QED BY <2>8
<1> QED BY <1>3, <1>4

\* Split makes pieces.
LEMMA SplitIs ==
  ASSUME NEW r \in Replies
  PROVE  Split(r) \in Seq(Pieces) /\ Len(Split(r)) \in 1..MaxPieces /\ MaxPieces \in Nat
<1>0. /\ r.files \in Seq(Kinds) /\ r.text \in Seq(STRING) /\ MaxPieces \in Nat /\ Len(Split(r)) <= MaxPieces
  BY DeliveryConstants DEF DeliveryConstants
<1>1. ASSUME NEW n \in Nat, n > 0, NEW texts \in [1..n -> Seq(STRING)], NEW files \in [1..n -> Seq(Kinds)], SplitAs(r, texts, files)
      PROVE  Split(r) \in Seq(Pieces) /\ Len(Split(r)) > 0
  <2>1. \A i \in 1..n : Piece(texts[i], files[i]) \in Pieces BY PieceIs
  <2>2. Split(r) = [i \in 1..n |-> Piece(texts[i], files[i])] BY <1>1 DEF SplitAs
  <2>3. Split(r) \in [1..n -> Pieces] BY <2>1, <2>2
  <2>4. Split(r) \in Seq(Pieces) BY <2>3
  <2>5. Len(Split(r)) = n BY <2>3, <2>4
  <2> QED BY <1>1, <2>4, <2>5
<1>2. CASE r.files = <<>>
  <2> DEFINE texts == TextsOf(r.text, r.max)
             n == Len(texts)
             files == [i \in DOMAIN texts |-> <<>>]
  <2>1. texts \in Seq(Seq(STRING)) /\ texts # <<>> /\ SplitAs(r, texts, files) BY <1>2, SplitIsTexts
  <2> HIDE DEF texts
  <2>2. n \in Nat /\ n > 0 /\ DOMAIN texts = 1..n /\ texts \in [1..n -> Seq(STRING)] BY <2>1, EmptySeq
  <2>3. files \in [1..n -> Seq(Kinds)]
    <3>1. <<>> \in Seq(Kinds) OBVIOUS
    <3> QED BY <2>2, <3>1
  <2> HIDE DEF n, files
  <2>4. Split(r) \in Seq(Pieces) /\ Len(Split(r)) > 0 BY <1>1, <2>1, <2>2, <2>3
  <2> QED BY <1>0, <2>4
<1>3. CASE r.files # <<>>
  <2>1. PICK n, from, to :
           /\ Cuts(r.files, n, from, to) /\ n > 0
           /\ SplitAs(r, [i \in 1..n |-> IF i = 1 THEN r.text ELSE <<>>], Parts(r.files, n, from, to))
    BY <1>3, SplitIsBatches DEF BatchedAs, Batched
  <2> DEFINE texts == [i \in 1..n |-> IF i = 1 THEN r.text ELSE <<>>]
             files == Parts(r.files, n, from, to)
  <2>2. n \in Nat BY <2>1 DEF Cuts
  <2>3. texts \in [1..n -> Seq(STRING)]
    <3>1. <<>> \in Seq(STRING) OBVIOUS
    <3> QED BY <1>0, <3>1
  <2>4. files \in [1..n -> Seq(Kinds)]
    <3>1. Cuts(r.files, n, from, to) BY <2>1
    <3>2. files \in Seq(Seq(Kinds)) /\ Len(files) = n BY <1>0, <3>1, CutsInPlace
    <3> HIDE DEF files
    <3> QED BY <3>2
  <2>5. SplitAs(r, texts, files) BY <2>1
  <2> HIDE DEF texts, files
  <2>6. Split(r) \in Seq(Pieces) /\ Len(Split(r)) > 0 BY <1>1, <2>1, <2>2, <2>3, <2>4, <2>5
  <2> QED BY <1>0, <2>6
<1> QED BY <1>2, <1>3

\* A reply that is split has its texts and its files in its pieces.
LEMMA PiecesHold ==
  ASSUME NEW r \in Replies, NEW n \in Nat, NEW texts \in [1..n -> Seq(STRING)], NEW files \in [1..n -> Seq(Kinds)],
         SplitAs(r, texts, files), reply = r, pieces = Split(r)
  PROVE  Texts = texts /\ Files = files /\ Len(pieces) = n /\ DOMAIN pieces = 1..n
<1>1. pieces = [i \in 1..n |-> Piece(texts[i], files[i])] BY DEF SplitAs
<1>2. \A i \in 1..n : pieces[i].text = texts[i] /\ pieces[i].files = files[i] BY <1>1, PieceIs
<1>3. DOMAIN pieces = 1..n BY <1>1
<1>4. Len(pieces) = n
  <2>1. \A i \in 1..n : Piece(texts[i], files[i]) \in Pieces BY PieceIs
  <2>2. pieces \in [1..n -> Pieces] BY <1>1, <2>1
  <2> QED BY <2>2
<1>5. Texts = [i \in 1..n |-> texts[i]] /\ Files = [i \in 1..n |-> files[i]] BY <1>2, <1>3 DEF Texts, Files
<1> QED BY <1>3, <1>4, <1>5

\* The files of a reply are in its batches.
LEMMA FilesInPlace ==
  ASSUME NEW s \in Seq(Kinds), NEW how, NEW n, NEW from, NEW to, Batched(s, how, n, from, to),
         NEW parts, parts = Parts(s, n, from, to)
  PROVE  /\ \E f \in Places(s, parts) : Stretches(s, parts, f) /\ Held(parts, f) = DOMAIN s
         /\ how = "kinds" =>
              /\ \A i \in DOMAIN parts : Len(parts[i]) \in 1..Album /\ \A k \in DOMAIN parts[i] : parts[i][k] = parts[i][1]
              /\ \A i \in 1..(Len(parts) - 1) : Len(parts[i]) = Album \/ parts[i][1] # parts[i + 1][1]
<1>0. Cuts(s, n, from, to) /\ n \in Nat /\ Len(s) \in Nat /\ Covers(Len(s), n, from, to) BY DEF Batched, Cuts
<1>1. /\ Len(parts) = n /\ DOMAIN parts = 1..n
      /\ \A i \in 1..n : /\ parts[i] \in Seq(Kinds) /\ Len(parts[i]) = to[i] + 1 - from[i]
                         /\ Stretch(parts, from, i) = from[i]..to[i]
                         /\ \A x \in 1..(to[i] + 1 - from[i]) : parts[i][x] = s[from[i] + x - 1]
      /\ from \in Places(s, parts) /\ Stretches(s, parts, from)
  BY <1>0, CutsInPlace
<1>2. \A j \in 1..n : from[j] \in 1..Len(s) /\ to[j] \in 1..Len(s) /\ from[j] <= to[j] BY <1>0 DEF Cuts
<1>3. Held(parts, from) = DOMAIN s
  <2>1. Held(parts, from) = UNION {Stretch(parts, from, i) : i \in 1..n} BY <1>1 DEF Held
  <2>2. DOMAIN s = 1..Len(s) OBVIOUS
  <2>3. ASSUME NEW x \in 1..Len(s) PROVE x \in Held(parts, from)
    <3>1. PICK j \in 1..n : x \in from[j]..to[j] BY <1>0 DEF Covers
    <3>2. x \in Stretch(parts, from, j) BY <1>1, <3>1
    <3> QED BY <2>1, <3>2
  <2>4. ASSUME NEW x \in Held(parts, from) PROVE x \in 1..Len(s)
    <3>1. PICK i \in 1..n : x \in Stretch(parts, from, i) BY <2>1
    <3>2. x \in from[i]..to[i] BY <1>1, <3>1
    <3> QED BY <1>0, <1>2, <3>2
  <2> QED BY <2>2, <2>3, <2>4
<1>4. \A i \in 1..n : parts[i][1] = s[from[i]] /\ 1 \in 1..(to[i] + 1 - from[i])
  <2> SUFFICES ASSUME NEW i \in 1..n PROVE parts[i][1] = s[from[i]] /\ 1 \in 1..(to[i] + 1 - from[i]) OBVIOUS
  <2>1. PICK a, b : a = from[i] /\ b = to[i] OBVIOUS
  <2>2. a \in Nat /\ b \in Nat /\ a <= b BY <1>2, <2>1
  <2>3. 1 \in 1..(b + 1 - a) /\ a + 1 - 1 = a BY <2>2
  <2> QED BY <1>1, <2>1, <2>3
<1>5. ASSUME Albums(s, Len(s), n, from, to)
      PROVE  /\ \A i \in DOMAIN parts : Len(parts[i]) \in 1..Album /\ \A k \in DOMAIN parts[i] : parts[i][k] = parts[i][1]
             /\ \A i \in 1..(Len(parts) - 1) : Len(parts[i]) = Album \/ parts[i][1] # parts[i + 1][1]
  <2>0. Album \in Nat BY DeliveryConstants DEF DeliveryConstants
  <2>1. \A j \in 1..n : to[j] - from[j] < Album /\ \A x \in from[j]..to[j] : s[x] = s[from[j]] BY <1>5 DEF Albums
  <2>2. \A j \in 1..(n - 1) : to[j] + 1 - from[j] = Album \/ s[from[j]] # s[from[j + 1]] BY <1>5 DEF Albums
  <2>3. ASSUME NEW i \in 1..n PROVE Len(parts[i]) \in 1..Album /\ \A k \in DOMAIN parts[i] : parts[i][k] = parts[i][1]
    <3>1. PICK a, b, l : a = from[i] /\ b = to[i] /\ l = b + 1 - a OBVIOUS
    <3>2. a \in Nat /\ b \in Nat /\ a <= b /\ b - a < Album BY <1>2, <2>1, <3>1
    <3>3. l \in 1..Album /\ l \in Nat
      <4>1. l = b + 1 - a BY <3>1
      <4> QED BY ONLY <2>0, <3>2, <4>1
    <3>4. Len(parts[i]) = l /\ DOMAIN parts[i] = 1..l BY <1>1, <3>1
    <3>5. ASSUME NEW k \in 1..l PROVE parts[i][k] = parts[i][1]
      <4>1. PICK x : x = a + k - 1 OBVIOUS
      <4>2. x \in a..b
        <5>1. l = b + 1 - a /\ k \in 1..l BY <3>1
        <5> QED BY ONLY <3>2, <3>3, <4>1, <5>1
      <4>3. parts[i][k] = s[x] BY <1>1, <3>1, <4>1
      <4>4. s[x] = s[a] BY <2>1, <3>1, <4>2
      <4> QED BY <1>4, <3>1, <4>3, <4>4
    <3> QED BY <3>3, <3>4, <3>5
  <2>4. ASSUME NEW i \in 1..(n - 1) PROVE Len(parts[i]) = Album \/ parts[i][1] # parts[i + 1][1]
    <3>1. PICK j : j = i + 1 OBVIOUS
    <3>2. i \in 1..n /\ j \in 1..n BY <1>0, <3>1
    <3>3. parts[i][1] = s[from[i]] /\ parts[j][1] = s[from[j]] /\ Len(parts[i]) = to[i] + 1 - from[i] BY <1>1, <1>4, <3>2
    <3> QED BY <2>2, <3>1, <3>3
  <2> QED BY <1>1, <2>3, <2>4
<1>6. how = "kinds" => Albums(s, Len(s), n, from, to) BY DEF Batched
<1> QED BY <1>1, <1>3, <1>5, <1>6

\* Whatever the reply, its pieces are sound.
LEMMA PiecesSound ==
  ASSUME reply \in Replies, pieces = Split(reply)
  PROVE  SplitSound
<1>0. reply.text \in Seq(STRING) /\ reply.files \in Seq(Kinds) /\ reply.max \in Nat \ {0}
  BY DeliveryConstants DEF DeliveryConstants
<1> DEFINE Ws == \E from \in Places(reply.text, Texts) :
                   /\ Stretches(reply.text, Texts, from) /\ Inked(reply.text) \subseteq Held(Texts, from)
                   /\ (reply.files = <<>> /\ WordsFit(reply.text, reply.max)) =>
                        \A i \in 1..(Len(pieces) - 1) : from[i] + Len(Texts[i]) < from[i + 1]
           Fs == \E from \in Places(reply.files, Files) :
                   Stretches(reply.files, Files, from) /\ Held(Files, from) = DOMAIN reply.files
           Ls == (~Blank /\ reply.files = <<>>) =>
                   \A i \in DOMAIN pieces : Len(Texts[i]) \in 1..reply.max /\ Inked(Texts[i]) # {}
           As == (reply.batch = "kinds" /\ reply.files # <<>>) =>
                   /\ \A i \in DOMAIN Files :
                        Len(Files[i]) \in 1..Album /\ \A k \in DOMAIN Files[i] : Files[i][k] = Files[i][1]
                   /\ \A i \in 1..(Len(Files) - 1) : Len(Files[i]) = Album \/ Files[i][1] # Files[i + 1][1]
<1> SUFFICES Ws /\ Fs /\ Ls /\ As BY DEF SplitSound
<1>1. CASE reply.files = <<>>
  <2> DEFINE texts == TextsOf(reply.text, reply.max)
             n == Len(texts)
             files == [i \in 1..n |-> <<>>]
  <2>1. /\ texts \in Seq(Seq(STRING)) /\ texts # <<>>
        /\ SplitAs(reply, texts, [i \in DOMAIN texts |-> <<>>])
    BY <1>1, SplitIsTexts
  <2>2. PICK from : InPlace(reply.text, reply.max, texts, from) BY <1>0, TextsAre
  <2>3. Trim(reply.text) # <<>> => NoneBlank(texts, reply.max) BY <1>0, TextsAre
  <2> HIDE DEF texts
  <2>4. n \in Nat \ {0} /\ DOMAIN texts = 1..n /\ texts \in [1..n -> Seq(STRING)] BY <2>1, EmptySeq
  <2> HIDE DEF n
  <2>5. files \in [1..n -> Seq(Kinds)] /\ SplitAs(reply, texts, files)
    <3>1. <<>> \in Seq(Kinds) OBVIOUS
    <3> QED BY <2>1, <2>4, <3>1
  <2>6. files = [i \in 1..n |-> IF i = 1 THEN reply.files ELSE <<>>] BY <1>1
  <2> HIDE DEF files
  <2>7. Texts = texts /\ Files = files /\ Len(pieces) = n /\ DOMAIN pieces = 1..n BY <2>4, <2>5, PiecesHold
  <2>8. Ws
    <3>1. n = Len(texts) BY DEF n
    <3> QED BY <2>2, <2>7, <3>1 DEF InPlace
  <2>9. Fs
    <3>1. \E f : f \in Places(reply.files, files) /\ Stretches(reply.files, files, f) /\ Held(files, f) = DOMAIN reply.files
      BY <1>0, <2>4, <2>6, FirstIsAll
    <3> QED BY <2>7, <3>1
  <2>10. Ls BY <2>3, <2>4, <2>7 DEF Blank, NoneBlank
  <2>11. As BY <1>1
  <2> QED BY <2>8, <2>9, <2>10, <2>11
<1>2. CASE reply.files # <<>>
  <2>1. PICK n, from, to : BatchedAs(reply, n, from, to) BY <1>2, SplitIsBatches
  <2> DEFINE texts == [i \in 1..n |-> IF i = 1 THEN reply.text ELSE <<>>]
             files == Parts(reply.files, n, from, to)
  <2>2. Batched(reply.files, reply.batch, n, from, to) /\ SplitAs(reply, texts, files) BY <2>1 DEF BatchedAs
  <2>3. Cuts(reply.files, n, from, to) /\ n \in Nat /\ n > 0 BY <2>2 DEF Batched, Cuts
  <2>4. n \in Nat \ {0} /\ texts \in [1..n -> Seq(STRING)]
    <3>1. <<>> \in Seq(STRING) OBVIOUS
    <3>2. \A i \in 1..n : (IF i = 1 THEN reply.text ELSE <<>>) \in Seq(STRING) BY <1>0, <3>1
    <3>3. texts \in [1..n -> Seq(STRING)] BY <3>2
    <3> QED BY <2>3, <3>3
  <2>5. files \in [1..n -> Seq(Kinds)]
    <3>1. files \in Seq(Seq(Kinds)) /\ Len(files) = n BY <1>0, <2>3, CutsInPlace
    <3> HIDE DEF files
    <3> QED BY <3>1
  <2>6. \E f : f \in Places(reply.text, texts) /\ Stretches(reply.text, texts, f) /\ Held(texts, f) = DOMAIN reply.text
    BY <1>0, <2>4, FirstIsAll
  <2>7. /\ \E f \in Places(reply.files, files) : Stretches(reply.files, files, f) /\ Held(files, f) = DOMAIN reply.files
        /\ reply.batch = "kinds" =>
             /\ \A i \in DOMAIN files : Len(files[i]) \in 1..Album /\ \A k \in DOMAIN files[i] : files[i][k] = files[i][1]
             /\ \A i \in 1..(Len(files) - 1) : Len(files[i]) = Album \/ files[i][1] # files[i + 1][1]
    BY <1>0, <2>2, FilesInPlace
  <2> HIDE DEF texts, files
  <2>8. Texts = texts /\ Files = files BY <2>2, <2>4, <2>5, PiecesHold
  <2>9. Inked(reply.text) \subseteq DOMAIN reply.text BY <1>0 DEF Inked
  <2>10. Ws BY <1>2, <2>6, <2>8, <2>9
  <2>11. Fs /\ As BY <2>7, <2>8
  <2>12. Ls BY <1>2
  <2> QED BY <2>10, <2>11, <2>12
<1> QED BY <1>1, <1>2

\* For any replies and limits: what a reply is split into holds all of it, in order and
\* without cutting a word unless some word is too long.
THEOREM SplitsAreSound == Spec => []SplitSound
<1> DEFINE Is == reply \in Replies /\ pieces = Split(reply)
<1>1. Init => Is BY DEF Init
<1>2. Is /\ [Next \/ Terminated]_vars => Is'
  <2> SUFFICES ASSUME Is, [Next \/ Terminated]_vars PROVE Is' OBVIOUS
  <2>1. UNCHANGED <<reply, pieces>>
    BY DEF Next, Terminated, vars, Hydrate, Begin, Sent, Wake, Update, StreamEnd, StreamEndFails, NotSent, Err
  <2> QED BY <2>1
<1>3. Is => SplitSound BY PiecesSound
<1> QED BY <1>1, <1>2, <1>3, PTL DEF Spec

----------------------------------------------------------------------------
(* Delivery implements DeliveryPromise.                                     *)

Messages == [piece : Nat, text : Seq(STRING), files : Nat]

DvTypeOK ==
  /\ reply \in Replies /\ pieces = Split(reply) /\ at \in 1..Len(pieces) /\ draft \in Nat
  /\ pc \in {"hydrate", "begin", "send", "sleep", "update", "end", "done"}
  /\ chat \in Seq(Messages) /\ \A i \in DOMAIN chat : chat[i].piece \in 1..at

\* The inductive invariant: the pieces before the present one are shown, a draft is of the
\* present piece, which has no files, and one that is still to be updated is not yet the
\* whole of it.
DvInv ==
  /\ DvTypeOK /\ 1..(at - 1) \subseteq Shown
  /\ result = "none" <=> pc # "done"
  /\ pc \in {"update", "end"} => draft \in DOMAIN chat /\ chat[draft].piece = at /\ pieces[at].files = <<>>
  /\ pc = "update" => ~Whole(draft) /\ Len(Steps) = 3

\* What one step of delivery may make of the chat: it shows what it showed and, perhaps,
\* the present piece.
ShowsMore ==
  /\ chat' \in Seq(Messages) /\ \A i \in DOMAIN chat' : chat'[i].piece \in 1..at
  /\ Shown \subseteq Shown' /\ Shown' \subseteq Shown \cup {at}

\* The pieces of a reply are what Split makes them.
LEMMA PieceFacts ==
  ASSUME DvTypeOK
  PROVE  /\ pieces \in Seq(Pieces) /\ Len(pieces) \in 1..MaxPieces /\ MaxPieces \in Nat /\ at \in Nat
         /\ Text \in Seq(STRING) /\ Steps \in Seq(Seq(STRING)) /\ Steps = StreamSteps(Text)
<1>1. pieces \in Seq(Pieces) /\ Len(pieces) \in 1..MaxPieces /\ MaxPieces \in Nat BY SplitIs DEF DvTypeOK
<1>2. pieces[at] \in Pieces /\ at \in DOMAIN pieces /\ at \in Nat BY <1>1 DEF DvTypeOK
<1>3. pieces[at].steps = StreamSteps(pieces[at].text)
  <2>1. \A i \in DOMAIN Split(reply) : Split(reply)[i].steps = StreamSteps(Split(reply)[i].text) BY DEF Split, Piece
  <2> QED BY <1>2, <2>1 DEF DvTypeOK
<1> QED BY <1>1, <1>2, <1>3 DEF Text, Steps, Pieces

\* What an adapter shows of a piece is what "sent" promises of it.
LEMMA CarriedIsShown ==
  ASSUME DvTypeOK, NEW m \in Carried
  PROVE  /\ m.text \in Seq(STRING) /\ m.files \in Nat
         /\ IF ByText(pieces[at]) THEN m.text = Text ELSE m.files = Len(pieces[at].files)
<1>1. pieces[at].files \in Seq(Kinds) /\ Text \in Seq(STRING) /\ <<>> \in Seq(STRING)
  <2>1. pieces \in Seq(Pieces) /\ at \in DOMAIN pieces BY PieceFacts DEF DvTypeOK
  <2>2. pieces[at] \in Pieces BY <2>1
  <2> QED BY <2>2, PieceFacts DEF Pieces
<1>2. PICK n \in Nat : n = Len(pieces[at].files) /\ (n = 0 <=> pieces[at].files = <<>>) BY <1>1
<1>3. CASE n = 0 BY <1>1, <1>2, <1>3 DEF Carried, ByText
<1>4. CASE n # 0 /\ reply.batch = "kinds"
  <2>1. m \in {[text |-> Text, files |-> n], [text |-> <<>>, files |-> n]} BY <1>2, <1>4 DEF Carried
  <2>2. ~ByText(pieces[at]) BY <1>2, <1>4 DEF ByText
  <2>3. m.files = n /\ (m.text = Text \/ m.text = <<>>) BY <2>1
  <2> QED BY <1>1, <1>2, <2>2, <2>3
<1>5. CASE n # 0 /\ reply.batch = "single"
  <2>1. m = [text |-> IF pieces[at].files[1] = "audio" THEN <<>> ELSE Text, files |-> n]
    BY <1>2, <1>5 DEF Carried
  <2>2. ~ByText(pieces[at]) BY <1>2, <1>5 DEF ByText
  <2>3. m.files = n /\ (m.text = Text \/ m.text = <<>>) BY <2>1
  <2> QED BY <1>1, <1>2, <2>2, <2>3
<1>6. CASE n # 0 /\ reply.batch \notin {"kinds", "single"}
  <2>1. reply.batch = "whole"
    <3>1. reply.batch \in {"kinds", "single", "whole"} BY DeliveryConstants DEF DvTypeOK
    <3> QED BY <1>6, <3>1
  <2>2. PICK k \in 0..n : m = [text |-> Text, files |-> k] BY <1>2, <1>6, <2>1 DEF Carried
  <2> QED BY <1>1, <1>2, <2>1, <2>2 DEF ByText
<1> QED BY <1>3, <1>4, <1>5, <1>6

LEMMA PostedShows ==
  ASSUME DvInv, NEW text \in Seq(STRING), NEW files \in Nat, Posted(text, files), UNCHANGED <<reply, pieces>>
  PROVE  /\ ShowsMore
         /\ (IF ByText(pieces[at]) THEN text = Text ELSE files = Len(pieces[at].files)) => at \in Shown'
         /\ Len(chat) + 1 \in DOMAIN chat' /\ chat'[Len(chat) + 1].piece = at
         /\ chat'[Len(chat) + 1].text = text
<1>0. chat \in Seq(Messages) /\ at \in Nat /\ Len(chat) \in Nat /\ DvTypeOK BY PieceFacts DEF DvInv, DvTypeOK
<1>1. PICK msg \in Messages : msg.piece = at /\ msg.text = text /\ msg.files = files /\ chat' = Append(chat, msg)
  <2>1. [piece |-> at, text |-> text, files |-> files] \in Messages BY <1>0 DEF Messages
  <2> QED BY <2>1 DEF Posted
<1>a. PICK last : last = Len(chat) + 1 OBVIOUS
<1>2. /\ chat' \in Seq(Messages) /\ DOMAIN chat' = DOMAIN chat \cup {last}
      /\ chat'[last] = msg /\ \A i \in DOMAIN chat : chat'[i] = chat[i] BY <1>0, <1>1, <1>a
<1>3. \A i \in DOMAIN chat : Whole(i)' <=> Whole(i) BY <1>2 DEF Whole, ByText
<1>4. Whole(last)' <=> IF ByText(pieces[at]) THEN text = Text ELSE files = Len(pieces[at].files)
  BY <1>0, <1>1, <1>2 DEF Whole, Text, ByText
<1>5. \A i \in DOMAIN chat : chat[i].piece \in 1..at BY <1>0 DEF DvTypeOK
<1>6. \A i \in DOMAIN chat' : chat'[i].piece \in 1..at
  <2>1. at \in 1..at BY <1>0 DEF DvTypeOK
  <2> QED BY <1>1, <1>2, <1>5, <2>1
<1>7. Shown \subseteq Shown' /\ Shown' \subseteq Shown \cup {at} BY <1>1, <1>2, <1>3 DEF Shown
<1>8. Whole(last)' => at \in Shown' BY <1>1, <1>2 DEF Shown
<1> QED BY <1>1, <1>2, <1>4, <1>6, <1>7, <1>8, <1>a DEF ShowsMore

\* A message that shows what an adapter carries shows the piece.
LEMMA SendShows ==
  ASSUME DvInv, Shows, UNCHANGED <<reply, pieces>>
  PROVE  ShowsMore /\ at \in Shown'
<1>1. PICK m \in Carried : Posted(m.text, m.files) BY DEF Shows
<1>2. DvTypeOK BY DEF DvInv
<1>3. PICK text \in Seq(STRING), files \in Nat :
        /\ Posted(text, files)
        /\ IF ByText(pieces[at]) THEN text = Text ELSE files = Len(pieces[at].files)
  BY <1>1, <1>2, CarriedIsShown
<1> QED BY <1>3, PostedShows

LEMMA EditedShows ==
  ASSUME DvInv, NEW text \in Seq(STRING), Edited(text), UNCHANGED <<reply, pieces>>, draft \in DOMAIN chat,
         chat[draft].piece = at, pieces[at].files = <<>>,
         ~Whole(draft) \/ text = Text
  PROVE  ShowsMore /\ (text = Text => at \in Shown') /\ draft \in DOMAIN chat' /\ chat'[draft].piece = at
<1>0. chat \in Seq(Messages) /\ at \in Nat /\ DvTypeOK BY PieceFacts DEF DvInv, DvTypeOK
<1>a. PICK d : d = draft OBVIOUS
<1>1. chat' = [chat EXCEPT ![d].text = text] /\ d \in DOMAIN chat /\ chat[d] \in Messages BY <1>0, <1>a DEF Edited
<1>2. PICK msg \in Messages : msg.piece = at /\ msg.text = text /\ chat' = [chat EXCEPT ![d] = msg]
  <2>1. [chat[d] EXCEPT !.text = text] \in Messages BY <1>1 DEF Messages
  <2>2. [chat[d] EXCEPT !.text = text].piece = at /\ [chat[d] EXCEPT !.text = text].text = text BY <1>1, <1>a DEF Messages
  <2> QED BY <1>1, <2>1, <2>2
<1>3. /\ chat' \in Seq(Messages) /\ DOMAIN chat' = DOMAIN chat
      /\ chat'[d] = msg /\ \A i \in DOMAIN chat : i # d => chat'[i] = chat[i] BY <1>0, <1>1, <1>2
<1>4. \A i \in DOMAIN chat : i # d => (Whole(i)' <=> Whole(i)) BY <1>3 DEF Whole, ByText
<1>5. Whole(d)' <=> text = Text BY <1>0, <1>2, <1>3 DEF Whole, Text, ByText
<1>6. \A i \in DOMAIN chat' : chat'[i].piece \in 1..at
  <2>1. at \in 1..at /\ \A i \in DOMAIN chat : chat[i].piece \in 1..at BY <1>0 DEF DvTypeOK
  <2> QED BY <1>2, <1>3, <2>1
<1>7. Whole(d) => text = Text BY <1>a
<1>8. Shown \subseteq Shown' /\ Shown' \subseteq Shown \cup {at} BY <1>2, <1>3, <1>4, <1>5, <1>7, <1>a DEF Shown
<1>9. text = Text => at \in Shown' BY <1>2, <1>3, <1>5 DEF Shown
<1> QED BY <1>2, <1>3, <1>6, <1>8, <1>9, <1>a DEF ShowsMore

\* How many pieces are missing when the first k are shown and the next one is not.
LEMMA HoleFree ==
  ASSUME NEW n \in Nat, NEW S, NEW k \in 0..n, 1..k \subseteq S, k + 1 \notin S
  PROVE  Max({j \in 0..n : 1..j \subseteq S}) = k
<1> DEFINE T == {j \in 0..n : 1..j \subseteq S}
<1>1. T \in SUBSET (0..n) /\ k \in T OBVIOUS
<1>2. \A j \in T : j <= k
  <2>1. ASSUME NEW j \in 0..n, j > k PROVE k + 1 \in 1..j BY <2>1
  <2> QED BY <2>1
<1>3. Max(T) \in T /\ Max(T) >= k
  <2> HIDE DEF T
  <2> QED BY <1>1, FirstAndLast
<1>4. Max(T) = k BY <1>1, <1>2, <1>3
<1> QED BY <1>4

\* Such a step is one that DeliveryPromise allows.
LEMMA StepKeepsPromise ==
  ASSUME DvInv, ShowsMore, UNCHANGED pieces, result = "none", result' \in {"none", "sent", "partial", "error"},
         result' = "sent" => at = Len(pieces) /\ at \in Shown'
  PROVE  Promise!Deliver
<1>1. DvTypeOK /\ at \in Nat /\ at \in 1..Len(pieces) /\ Len(pieces) \in Nat BY PieceFacts DEF DvInv, DvTypeOK
<1>2. Shown \subseteq 1..at /\ 1..(at - 1) \subseteq Shown
  <2>1. \A i \in DOMAIN chat : chat[i].piece \in 1..at BY <1>1 DEF DvTypeOK
  <2> QED BY <2>1 DEF DvInv, Shown
<1>3. Shown' \subseteq 1..at /\ 1..(at - 1) \subseteq Shown' BY <1>1, <1>2 DEF ShowsMore
<1>4. ASSUME NEW S, S \subseteq 1..at, 1..(at - 1) \subseteq S
      PROVE  Len(pieces) - Max({j \in 0..Len(pieces) : 1..j \subseteq S}) = Len(pieces) - at + (IF at \in S THEN 0 ELSE 1)
  <2>1. CASE at \in S
    <3>1. 1..at \subseteq S /\ at + 1 \notin S /\ at \in 0..Len(pieces)
      <4>1. \A i \in 1..at : i = at \/ i \in 1..(at - 1) BY <1>1
      <4> QED BY <1>1, <1>4, <2>1, <4>1
    <3>2. Max({j \in 0..Len(pieces) : 1..j \subseteq S}) = at BY <1>1, <3>1, HoleFree
    <3> QED BY <1>1, <2>1, <3>2
  <2>2. CASE at \notin S
    <3>1. at - 1 \in 0..Len(pieces) /\ (at - 1) + 1 \notin S BY <1>1, <2>2
    <3>2. Max({j \in 0..Len(pieces) : 1..j \subseteq S}) = at - 1 BY <1>1, <1>4, <3>1, HoleFree
    <3> QED BY <1>1, <2>2, <3>2
  <2> QED BY <2>1, <2>2
<1>5. Missing = Len(pieces) - at + (IF at \in Shown THEN 0 ELSE 1) BY <1>2, <1>4 DEF Missing
<1>6. Missing' = Len(pieces) - at + (IF at \in Shown' THEN 0 ELSE 1) BY <1>3, <1>4 DEF Missing
<1>7. at \in Shown => at \in Shown' BY DEF ShowsMore
<1>8. Missing' \in {m \in 0..Missing : m + 1 >= Missing} BY <1>1, <1>5, <1>6, <1>7
<1>9. result' = "sent" => Missing' = 0 BY <1>1, <1>6
<1> QED BY <1>8, <1>9 DEF Promise!Deliver

\* A step after which no draft is being edited.
LEMMA StepGoesOn ==
  ASSUME DvInv, pc # "done", ShowsMore, UNCHANGED <<reply, pieces>>, draft' \in Nat,
         \/ pc' \in {"begin", "send", "sleep"} /\ UNCHANGED <<at, result>>
         \/ Return
         \/ \E status \in {"sent", "rate_limited", "failed"} : Record(status) /\ (status = "sent" => at \in Shown')
  PROVE  DvInv' /\ Promise!Deliver
<1>1. DvTypeOK /\ at \in Nat /\ at \in 1..Len(pieces) /\ Len(pieces) \in Nat /\ result = "none" BY PieceFacts DEF DvInv, DvTypeOK
<1>2. 1..(at - 1) \subseteq Shown' BY DEF DvInv, ShowsMore
<1>3. CASE UNCHANGED at /\ pc' \in {"begin", "send", "sleep", "done"} /\ (result' = "none" <=> pc' # "done")
           /\ result' \in {"none", "sent", "partial", "error"} /\ (result' = "sent" => at = Len(pieces) /\ at \in Shown')
  <2>1. DvTypeOK' BY <1>1, <1>3 DEF DvTypeOK, ShowsMore
  <2>2. DvInv' BY <1>2, <1>3, <2>1 DEF DvInv
  <2> QED BY <1>1, <1>3, <2>2, StepKeepsPromise
<1>4. CASE at < Len(pieces) /\ pc' = "begin" /\ at' = at + 1 /\ UNCHANGED result /\ at \in Shown'
  <2>1. at' \in 1..Len(pieces') /\ \A i \in DOMAIN chat' : chat'[i].piece \in 1..at' BY <1>1, <1>4 DEF ShowsMore
  <2>2. DvTypeOK' BY <1>1, <1>4, <2>1 DEF DvTypeOK, ShowsMore
  <2>3. 1..(at' - 1) \subseteq Shown'
    <3>1. \A i \in 1..(at' - 1) : i = at \/ i \in 1..(at - 1) BY <1>1, <1>4
    <3> QED BY <1>2, <1>4, <3>1
  <2>4. DvInv' BY <1>1, <1>4, <2>2, <2>3 DEF DvInv
  <2> QED BY <1>1, <1>4, <2>4, StepKeepsPromise
<1>5. CASE pc' \in {"begin", "send", "sleep"} /\ UNCHANGED <<at, result>> BY <1>1, <1>3, <1>5
<1>6. CASE Return BY <1>3, <1>6 DEF Return
<1>7. ASSUME NEW status \in {"sent", "rate_limited", "failed"}, Record(status), status = "sent" => at \in Shown'
      PROVE  DvInv' /\ Promise!Deliver
  <2>1. CASE status = "sent" /\ at < Len(pieces) BY <1>4, <1>7, <2>1 DEF Record
  <2>2. CASE status = "sent" /\ ~(at < Len(pieces))
    <3>1. at = Len(pieces) BY <1>1, <2>2
    <3> QED BY <1>3, <1>7, <2>2, <3>1 DEF Record
  <2>3. CASE status # "sent" BY <1>3, <1>7, <2>3 DEF Record
  <2> QED BY <2>1, <2>2, <2>3
<1> QED BY <1>5, <1>6, <1>7

\* Every step of delivery keeps the invariant, and is a step of the promise or leaves it as it is.
LEMMA DeliverySteps ==
  DvInv /\ [Next \/ Terminated]_vars => DvInv' /\ [Promise!Deliver]_(Promise!promiseVars)
<1> SUFFICES ASSUME DvInv, [Next \/ Terminated]_vars PROVE DvInv' /\ [Promise!Deliver]_(Promise!promiseVars)
  OBVIOUS
<1>t. DvTypeOK /\ draft \in Nat /\ at \in Nat BY PieceFacts DEF DvInv, DvTypeOK
<1>p. Text \in Seq(STRING) /\ Steps \in Seq(Seq(STRING)) /\ Steps = StreamSteps(Text) BY <1>t, PieceFacts
<1>s. UNCHANGED <<chat, reply, pieces>> => ShowsMore
  <2>1. UNCHANGED <<chat, reply, pieces>> => Shown' = Shown BY DEF Shown, Whole, ByText
  <2> QED BY <1>t, <2>1 DEF ShowsMore, DvTypeOK
<1>1. CASE UNCHANGED vars
  <2>1. DvInv' BY <1>1 DEF vars, DvInv, DvTypeOK, Shown, Whole, ByText, Steps
  <2>2. UNCHANGED Promise!promiseVars BY <1>1 DEF vars, Promise!promiseVars, Missing, Shown, Whole, ByText
  <2> QED BY <2>1, <2>2
<1>2. CASE Hydrate
  <2>1. pc # "done" /\ UNCHANGED <<reply, pieces, chat, draft>> /\ (Return \/ (pc' = "begin" /\ UNCHANGED <<at, result>>))
    BY <1>2 DEF Hydrate
  <2> QED BY <1>s, <1>t, <2>1, StepGoesOn
<1>3. CASE Begin
  <2>1. pc = "begin" /\ UNCHANGED <<reply, pieces, at, result>> /\ result = "none" BY <1>3 DEF Begin, DvInv
  <2>2. ASSUME pc' = "send", draft' = 0, ShowsMore PROVE DvInv' /\ Promise!Deliver BY <2>1, <2>2, StepGoesOn
  <2>3. ASSUME Streams PROVE Steps[1] \in Seq(STRING)
    <3>1. Len(Steps) >= 2 BY <2>3 DEF Streams
    <3> QED BY <1>p, <3>1
  <2>4. ASSUME Streams, pc' = IF Len(Steps) = 3 THEN "update" ELSE "end", draft' = Len(chat) + 1, Posted(Steps[1], 0)
        PROVE  DvInv' /\ Promise!Deliver
    <3>1. PICK text \in Seq(STRING) : text = Steps[1] /\ Posted(text, 0) BY <2>3, <2>4
    <3>2. ShowsMore /\ draft' \in DOMAIN chat' /\ chat'[draft'].piece = at /\ chat'[draft'].text = text BY <2>1, <2>4, <3>1, PostedShows
    <3>3. DvTypeOK' 
      <4>1. draft' \in Nat BY <1>t, <2>4 DEF DvTypeOK
      <4> QED BY <1>t, <2>1, <2>4, <3>2, <4>1 DEF DvTypeOK, ShowsMore
    <3>4. 1..(at - 1) \subseteq Shown' BY <3>2 DEF DvInv, ShowsMore
    <3>5. Steps' = Steps /\ Text' = Text BY <2>1 DEF Steps, Text
    <3>6. Len(Steps) = 3 => text # Text BY <1>p, <3>1, PreviewIsLess
    <3>7. PICK d : d = draft' OBVIOUS
    <3>8. Len(Steps) = 3 => ~(chat'[d].text = pieces'[chat'[d].piece].text) BY <2>1, <3>2, <3>6, <3>7 DEF Text
    <3>b. pieces'[at].files = <<>> /\ chat'[d].piece = at BY <2>1, <2>4, <3>2, <3>7 DEF Streams
    <3>9. pc' = "update" => ~Whole(draft)' /\ Len(Steps') = 3 BY <2>4, <3>5, <3>7, <3>8, <3>b DEF Whole, ByText
    <3>10. DvInv' BY <2>1, <2>4, <3>2, <3>3, <3>4, <3>9, <3>b DEF DvInv
    <3> QED BY <2>1, <3>2, <3>10, StepKeepsPromise
  <2>5. ASSUME Streams, Posted(Steps[1], 0) PROVE ShowsMore
    <3>1. PICK text \in Seq(STRING) : Posted(text, 0) BY <2>3, <2>5
    <3> QED BY <2>1, <3>1, PostedShows
  <2> QED BY <1>3, <1>s, <2>1, <2>2, <2>4, <2>5 DEF Begin
<1>4. CASE Sent
  <2>1. pc = "send" /\ Shows /\ Record("sent") /\ UNCHANGED <<reply, pieces, draft>> BY <1>4 DEF Sent
  <2>2. ShowsMore /\ at \in Shown' BY <2>1, SendShows
  <2> QED BY <1>t, <2>1, <2>2, StepGoesOn
<1>5. ASSUME NEW status \in {"rate_limited", "failed"}, NEW retry \in BOOLEAN, NotSent(status, retry)
      PROVE  DvInv' /\ [Promise!Deliver]_(Promise!promiseVars)
  <2>1. pc = "send" /\ UNCHANGED <<reply, pieces, chat, draft>> /\ (Record(status) \/ (pc' = "sleep" /\ UNCHANGED <<at, result>>))
    BY <1>5 DEF NotSent
  <2> QED BY <1>s, <1>t, <2>1, StepGoesOn
<1>6. ASSUME NEW retry \in BOOLEAN, Err(retry) PROVE DvInv' /\ [Promise!Deliver]_(Promise!promiseVars)
  <2>1. /\ pc = "send" /\ UNCHANGED <<reply, pieces, draft>> /\ (UNCHANGED chat \/ Shows)
        /\ Return \/ (pc' = "sleep" /\ UNCHANGED <<at, result>>)
    BY <1>6 DEF Err
  <2>2. ShowsMore BY <1>s, <2>1, SendShows
  <2> QED BY <1>t, <2>1, <2>2, StepGoesOn
<1>7. CASE Wake
  <2>1. pc # "done" /\ pc' = "send" /\ UNCHANGED <<reply, pieces, at, chat, draft, result>> BY <1>7 DEF Wake
  <2> QED BY <1>s, <1>t, <2>1, StepGoesOn
<1>d. pc \in {"update", "end"} => draft \in DOMAIN chat /\ chat[draft].piece = at /\ pieces[at].files = <<>> BY DEF DvInv
<1>8. CASE Update
  <2>1. pc = "update" /\ pc' = "end" /\ UNCHANGED <<reply, pieces, at, draft, result>> /\ result = "none" BY <1>8 DEF Update, DvInv
  <2>2. ~Whole(draft) /\ Len(Steps) = 3 /\ Steps[2] \in Seq(STRING)
    <3>1. ~Whole(draft) /\ Len(Steps) = 3 BY <2>1 DEF DvInv
    <3>a. Steps \in Seq(Seq(STRING)) BY <1>p
    <3>b. Len(Steps) >= 2 BY <3>1
    <3>2. Steps[2] \in Seq(STRING) BY <3>a, <3>b
    <3> QED BY <3>1, <3>2
  <2>3. ShowsMore /\ draft' \in DOMAIN chat' /\ chat'[draft'].piece = at
    <3>1. CASE Edited(Steps[2])
      <4>1. PICK text \in Seq(STRING) : Edited(text) BY <2>2, <3>1
      <4> QED BY <1>d, <2>1, <2>2, <4>1, EditedShows
    <3>2. CASE UNCHANGED chat BY <1>d, <1>s, <2>1, <3>2
    <3> QED BY <1>8, <3>1, <3>2 DEF Update
  <2>4. DvTypeOK' BY <1>t, <2>1, <2>3 DEF DvTypeOK, ShowsMore
  <2>5. 1..(at - 1) \subseteq Shown' BY <2>3 DEF DvInv, ShowsMore
  <2>6. DvInv' BY <1>d, <2>1, <2>3, <2>4, <2>5 DEF DvInv
  <2> QED BY <2>1, <2>3, <2>6, StepKeepsPromise
<1>9. ASSUME pc = "end", Edited(Text), UNCHANGED <<reply, pieces>> PROVE ShowsMore /\ at \in Shown'
  <2>1. PICK text \in Seq(STRING) : text = Text /\ Edited(text) BY <1>p, <1>9
  <2> QED BY <1>9, <1>d, <2>1, EditedShows
<1>10. CASE StreamEnd
  <2>1. pc = "end" /\ Edited(Text) /\ Record("sent") /\ UNCHANGED <<reply, pieces, draft>> BY <1>10 DEF StreamEnd
  <2> QED BY <1>9, <1>t, <2>1, StepGoesOn
<1>11. CASE StreamEndFails
  <2>1. pc = "end" /\ (UNCHANGED chat \/ Edited(Text)) /\ Return /\ UNCHANGED <<reply, pieces, draft>> BY <1>11 DEF StreamEndFails
  <2> QED BY <1>9, <1>s, <1>t, <2>1, StepGoesOn
<1> QED BY <1>1, <1>2, <1>3, <1>4, <1>5, <1>6, <1>7, <1>8, <1>10, <1>11 DEF Next, Terminated

\* Delivery implements DeliveryPromise: whatever is refused, lost or cut off between the
\* attempts, retries and drafts of deliver_outbound_message, pieces come to be shown in order
\* and without a hole, and "sent" is reported only when the recipient has all of them: each by
\* its full text or, in batches of files, with all files of its batch.
THEOREM DeliveryKeepsPromise == Spec => KeepsPromise
<1>1. Init => DvInv /\ Promise!PromiseInit
  <2> SUFFICES ASSUME Init PROVE DvInv /\ Promise!PromiseInit OBVIOUS
  <2>1. /\ reply \in Replies /\ pieces = Split(reply) /\ pc = "hydrate" /\ at = 1
        /\ chat = <<>> /\ draft = 0 /\ result = "none" BY DEF Init
  <2>2. pieces \in Seq(Pieces) /\ Len(pieces) \in 1..MaxPieces /\ MaxPieces \in Nat BY <2>1, SplitIs
  <2>3. DvTypeOK BY <2>1, <2>2 DEF DvTypeOK
  <2>4. Shown = {} BY <2>1 DEF Shown
  <2>5. DvInv BY <2>1, <2>3 DEF DvInv
  <2>6. Max({j \in 0..Len(pieces) : 1..j \subseteq Shown}) = 0
    <3>1. Len(pieces) \in Nat /\ 0 \in 0..Len(pieces) /\ 1..0 \subseteq Shown /\ 0 + 1 \notin Shown BY <2>2, <2>4
    <3> QED BY <3>1, HoleFree
  <2>7. Missing \in 1..MaxPieces BY <2>2, <2>6 DEF Missing
  <2> QED BY <2>1, <2>5, <2>7 DEF Promise!PromiseInit
<1> QED BY <1>1, DeliverySteps, PTL DEF Spec, KeepsPromise, Promise!PromiseSpec

----------------------------------------------------------------------------
(* The adapters' sends.                                                     *)

CsParts == {"text", "file"} \X Nat
CsRequests == [op : {"post", "load", "finish", "follow"}, show : SUBSET CsParts]

\* What is promised is shown, handed over, or shown by a request that decides on the result.
CsCovered ==
  \A x \in Promised : \/ x \in csShown \cup csLoaded
                      \/ \E i \in 1..Len(csTodo) : csTodo[i].op # "follow" /\ x \in csTodo[i].show

\* What is handed over is shown in the end. At Slack, where a later upload may be given up, the
\* first file comes first and the text comes last.
CsUploads ==
  /\ csTodo[Len(csTodo)].op # "load"
  /\ \A i \in 1..Len(csTodo) : csTodo[i].op = "follow" => csPlat = "telegram" /\ i = Len(csTodo)
  /\ csPlat # "slack" => csLoaded = {} /\ \A i \in 1..Len(csTodo) : csTodo[i].op = "load" => csTodo[i].show = {}
  /\ csPlat = "slack" =>
       /\ \A i \in 1..(Len(csTodo) - 1) : csTodo[i].op = "load"
       /\ TextOf(csMsg) \subseteq csTodo[Len(csTodo)].show
       /\ csLoaded # {} => <<"file", 1>> \in csLoaded
       /\ csLoaded = {} /\ csTodo[1].op = "load" => csTodo[1].show = {<<"file", 1>>}

CsInv ==
  /\ csPlat = "none" => csTodo = <<>> /\ csLoaded = {}
  /\ csOut = "none" /\ csPlat # "none" => csTodo \in Seq(CsRequests) /\ csTodo # <<>> /\ CsCovered /\ CsUploads
  /\ ReportedIsShown

\* The requests of every adapter show what "sent" promises.
LEMMA PlansShow ==
  ASSUME CsInv, NEW p \in Platforms, NEW m \in CsMessages, CsBegin(p, m), Takes(p, m), csLoaded = {}
  PROVE  csTodo' \in Seq(CsRequests) /\ csTodo' # <<>> /\ CsCovered' /\ CsUploads'
<1>1. /\ m.files \in Seq(STRING) /\ m.parts \in 0..2 /\ DOMAIN m.files = 1..Len(m.files) /\ Len(m.files) \in Nat
      /\ csPlat' = p /\ csMsg' = m /\ csTodo' = Plan(p, m) /\ csLoaded' = {}
  BY CsConstants DEF CsConstants, CsBegin
<1>2. FilesOf(m) \subseteq CsParts /\ TextOf(m) \subseteq CsParts BY <1>1 DEF FilesOf, TextOf, CsParts
<1> DEFINE files == FilesOf(m)
           text == TextOf(m)
<1>3. \A op \in {"post", "load", "finish", "follow"}, show \in SUBSET CsParts : Request(op, show) \in CsRequests
  BY DEF Request, CsRequests
<1>4. \A op, show : Request(op, show).op = op /\ Request(op, show).show = show BY DEF Request
<1>t. TextOf(csMsg)' = text BY <1>1 DEF TextOf
<1>5. Promised' \subseteq files \cup text BY <1>1 DEF Promised
<1>6. CASE csTodo' = <<Request("post", files \cup text)>>
  <2>1. csTodo' \in Seq(CsRequests) /\ Len(csTodo') = 1 /\ csTodo'[1] = Request("post", files \cup text) BY <1>2, <1>3, <1>6
  <2> HIDE DEF files, text
  <2>2. CsCovered' BY <1>4, <1>5, <2>1 DEF CsCovered
  <2>3. text \subseteq csTodo'[1].show BY <1>4, <2>1
  <2>4. csTodo'[1].op = "post" /\ \A i \in 1..Len(csTodo') : i = 1 BY <1>4, <2>1
  <2>5. csTodo'[Len(csTodo')] = csTodo'[1] /\ 1..(Len(csTodo') - 1) = {} BY <2>1
  <2>6. \A i \in 1..Len(csTodo') : csTodo'[i].op = "post" BY <2>4
  <2>7. CsUploads' BY <1>1, <1>t, <2>3, <2>4, <2>5, <2>6 DEF CsUploads
  <2>8. csTodo' # <<>> BY <1>6
  <2> QED BY <2>1, <2>2, <2>7, <2>8
<1>7. CASE p = "telegram" /\ m.files # <<>> /\ m.parts = 2
  <2>1. csTodo' = <<Request("post", files), Request("follow", text)>> BY <1>1, <1>7 DEF Plan, TelegramPlan
  <2>2. Promised' \subseteq files BY <1>1, <1>7 DEF Promised
  <2> HIDE DEF files, text
  <2>3. csTodo' \in Seq(CsRequests) /\ Len(csTodo') = 2 BY <1>2, <1>3, <2>1 DEF files, text
  <2>4. CsCovered' BY <1>4, <2>1, <2>2, <2>3 DEF CsCovered
  <2>5. /\ csTodo'[1] = Request("post", files) /\ csTodo'[2] = Request("follow", text)
        /\ \A i \in 1..Len(csTodo') : i = 1 \/ i = 2
    BY <2>1, <2>3
  <2>6. CsUploads' BY <1>1, <1>4, <1>7, <2>3, <2>5 DEF CsUploads
  <2> QED BY <2>1, <2>3, <2>4, <2>6
<1>8. CASE p = "slack" /\ m.files # <<>>
  <2> DEFINE n == Len(m.files)
             loads == [i \in 1..n |-> Request("load", {<<"file", i>>})]
  <2>1. csTodo' = loads \o <<Request("finish", text)>> BY <1>1, <1>8 DEF Plan, SlackPlan
  <2>2. \A i \in 1..n : <<"file", i>> \in CsParts BY DEF CsParts
  <2>3. loads \in Seq(CsRequests) /\ Len(loads) = n BY <1>1, <1>3, <2>2
  <2>4. n \in Nat \ {0} BY <1>1, <1>8
  <2>5. /\ csTodo' \in Seq(CsRequests) /\ Len(csTodo') = n + 1 /\ csTodo'[n + 1] = Request("finish", text)
        /\ \A i \in 1..n : csTodo'[i] = loads[i]
    BY <1>2, <1>3, <2>1, <2>3, <2>4
  <2>6. \A i \in 1..n : csTodo'[i] = Request("load", {<<"file", i>>}) BY <2>5
  <2>7. Promised' \subseteq {<<"file", 1>>} \cup text BY <1>1, <1>8 DEF Promised, FilesOf
  <2> HIDE DEF n, loads, text
  <2>a. 1 \in 1..Len(csTodo') /\ n + 1 \in 1..Len(csTodo') /\ 1 \in 1..n BY <2>4, <2>5
  <2>b. \A i \in 1..n : csTodo'[i].op = "load" /\ csTodo'[i].show = {<<"file", i>>}
    <3> TAKE i \in 1..n
    <3>1. csTodo'[i] = Request("load", {<<"file", i>>}) BY <2>6
    <3> QED BY <1>4, <3>1
  <2>c. csTodo'[n + 1].op = "finish" /\ csTodo'[n + 1].show = text BY <1>4, <2>5
  <2>d. csTodo'[1].op = "load" /\ csTodo'[1].show = {<<"file", 1>>} BY <2>a, <2>b
  <2>8. CsCovered'
    <3> SUFFICES ASSUME NEW x \in Promised'
                 PROVE  \E i \in 1..Len(csTodo') : csTodo'[i].op # "follow" /\ x \in csTodo'[i].show
      BY DEF CsCovered
    <3>1. CASE x = <<"file", 1>>
      <4>1. csTodo'[1].op # "follow" /\ x \in csTodo'[1].show BY <2>d, <3>1
      <4> QED BY <2>a, <4>1
    <3>2. CASE x \in text
      <4>1. csTodo'[n + 1].op # "follow" /\ x \in csTodo'[n + 1].show BY <2>c, <3>2
      <4> QED BY <2>a, <4>1
    <3> QED BY <2>7, <3>1, <3>2
  <2>e. Len(csTodo') = n + 1 /\ n \in Nat \ {0} BY <2>4, <2>5
  <2>f. \A i \in 1..Len(csTodo') : i \in 1..n \/ i = n + 1 BY <2>e
  <2>g. \A i \in 1..(Len(csTodo') - 1) : i \in 1..n BY <2>e
  <2>h. \A i \in 1..Len(csTodo') : csTodo'[i].op # "follow" BY <2>b, <2>c, <2>f
  <2>i. csTodo'[Len(csTodo')].op # "load" /\ text \subseteq csTodo'[Len(csTodo')].show BY <2>c, <2>e
  <2>j. \A i \in 1..(Len(csTodo') - 1) : csTodo'[i].op = "load" BY <2>b, <2>g
  <2>9. CsUploads' BY <1>1, <1>8, <1>t, <2>d, <2>h, <2>i, <2>j DEF CsUploads
  <2> QED BY <2>4, <2>5, <2>8, <2>9
<1>9. CASE p = "discord" /\ m.files = <<>> /\ m.parts = 2
  <2>1. csTodo' = [i \in 1..2 |-> Request("post", {<<"text", i>>})] BY <1>1, <1>9 DEF Plan, DiscordPlan
  <2>2. \A i \in 1..2 : <<"text", i>> \in CsParts BY DEF CsParts
  <2>3. csTodo' \in Seq(CsRequests) /\ Len(csTodo') = 2 BY <1>3, <2>1, <2>2
  <2>4. Promised' \subseteq {<<"text", i>> : i \in 1..2} BY <1>1, <1>9 DEF Promised, FilesOf, TextOf
  <2>5. CsCovered' BY <1>4, <2>1, <2>3, <2>4 DEF CsCovered
  <2>6. \A i \in 1..Len(csTodo') : csTodo'[i].op = "post" BY <1>4, <2>1, <2>3
  <2>7. Len(csTodo') \in 1..Len(csTodo') BY <2>3
  <2>8. csPlat' = "discord" /\ csTodo'[Len(csTodo')].op = "post" BY <1>1, <1>9, <2>6, <2>7
  <2>9. CsUploads' BY <1>1, <2>6, <2>8 DEF CsUploads
  <2> QED BY <2>1, <2>3, <2>5, <2>9
<1>10. CASE p = "whatsapp" /\ m.files # <<>>
  <2> DEFINE shown == files \cup (IF m.files[1] = "audio" THEN {} ELSE text)
  <2>1. csTodo' = <<Request("load", {}), Request("post", shown)>> BY <1>1, <1>10 DEF Plan, WhatsAppPlan
  <2>2. m.files[1] = "audio" => m.files = <<"audio">> BY <1>1, <1>10 DEF Takes, WhatsAppTakes
  <2>3. Promised' \subseteq shown BY <1>1, <1>10, <2>2 DEF Promised
  <2>4. shown \subseteq CsParts BY <1>2
  <2> HIDE DEF shown
  <2>5. csTodo' \in Seq(CsRequests) /\ Len(csTodo') = 2 BY <1>3, <2>1, <2>4
  <2>6. CsCovered' BY <1>4, <2>1, <2>3, <2>5 DEF CsCovered
  <2> QED BY <1>1, <1>4, <1>10, <2>1, <2>5, <2>6 DEF CsUploads
<1>11. CASE p = "email" \/ (p \in {"slack", "whatsapp"} /\ m.files = <<>>)
  <2>1. csTodo' = <<Request("post", text)>> BY <1>1, <1>11 DEF Plan, EmailPlan, SlackPlan, WhatsAppPlan
  <2>2. Promised' \subseteq text BY <1>1, <1>11 DEF Promised, FilesOf
  <2>3. csTodo' \in Seq(CsRequests) /\ Len(csTodo') = 1 /\ csTodo'[1] = Request("post", text) BY <1>2, <1>3, <2>1
  <2> HIDE DEF text
  <2>4. CsCovered' BY <1>4, <2>2, <2>3 DEF CsCovered
  <2>5. csTodo'[1].op = "post" /\ csTodo'[1].show = text /\ \A i \in 1..Len(csTodo') : i = 1 BY <1>4, <2>3
  <2>6. CsUploads' BY <1>1, <1>t, <2>3, <2>5 DEF CsUploads
  <2>7. csTodo' # <<>> BY <2>3
  <2> QED BY <2>3, <2>4, <2>6, <2>7
<1> QED
  BY <1>1, <1>6, <1>7, <1>8, <1>9, <1>10, <1>11 DEF Platforms, Plan, TelegramPlan, SlackPlan, DiscordPlan, SignalPlan,
     WhatsAppPlan, EmailPlan, WebPlan

\* What is taken, refused or lost leaves the rest promised.
LEMMA CsStep == CsInv /\ [CsNext]_csVars => CsInv'
<1> SUFFICES ASSUME CsInv, [CsNext]_csVars PROVE CsInv' OBVIOUS
<1> USE DEF same, sending
<1>0. \* A call that is going on has requests to make.
  Asking({"post", "load", "finish", "follow"}) /\ csPlat # "none" =>
    /\ csTodo \in Seq(CsRequests) /\ csTodo # <<>> /\ CsCovered /\ CsUploads /\ Req = csTodo[1]
    /\ Len(csTodo) \in Nat \ {0} /\ Len(csTodo) \in 1..Len(csTodo) /\ 1 \in 1..Len(csTodo)
  BY DEF CsInv, Asking, Req
<1>1. ASSUME NEW p \in Platforms, NEW m \in CsMessages, CsBegin(p, m) PROVE CsInv'
  <2>1. csPlat = "none" /\ csPlat' = p /\ p # "none" /\ csOut' \in {"none", "error"} /\ UNCHANGED <<csText, csEdit>>
    BY <1>1 DEF CsBegin, Platforms
  <2>2. csOut' = "none" => Takes(p, m) BY <1>1 DEF CsBegin
  <2> QED BY <1>1, <2>1, <2>2, PlansShow DEF CsInv, ReportedIsShown
<1>2. ASSUME Asking({"post", "load", "finish", "follow"}), csTodo' = <<>>, csOut' \in {"limited", "failed", "error"},
             UNCHANGED <<csPlat, csMsg, csText, csEdit>>
      PROVE  CsInv'
  BY <1>2 DEF CsInv, ReportedIsShown, Asking
<1>3. CASE Accepted
  <2>1. csPlat # "none" /\ Asking({"post", "load", "finish", "follow"}) BY <1>3 DEF Accepted, Asking, CsInv
  <2>2. /\ csTodo' = Tail(csTodo) /\ csOut' = IF Len(csTodo) = 1 THEN "sent" ELSE "none"
        /\ csLoaded' = (IF csTodo[1].op = "load" THEN csLoaded \cup csTodo[1].show ELSE {})
        /\ csShown' = (IF csTodo[1].op = "load" THEN csShown ELSE csShown \cup csTodo[1].show \cup csLoaded)
        /\ UNCHANGED same
    BY <1>0, <1>3, <2>1 DEF Accepted
  <2>3. Promised' = Promised BY <2>2 DEF Promised, FilesOf, TextOf
  <2>4. csShown \cup csLoaded \cup csTodo[1].show \subseteq csShown' \cup csLoaded' BY <2>2
  <2>5. CASE Len(csTodo) = 1
    <3>1. csTodo[1].op # "load" /\ csTodo' = <<>> BY <1>0, <2>1, <2>2, <2>5 DEF CsUploads
    <3>2. \A x \in Promised : x \in csShown' BY <1>0, <2>1, <2>2, <2>5, <3>1 DEF CsCovered
    <3> QED BY <2>1, <2>2, <2>3, <2>5, <3>1, <3>2 DEF CsInv, ReportedIsShown
  <2>6. CASE Len(csTodo) # 1
    <3>a. csTodo \in Seq(CsRequests) /\ Len(csTodo) \in Nat \ {0} BY <1>0, <2>1, Zenon
    <3>i. \A k \in Nat \ {0} : k # 1 => k \in Nat /\ k > 1 OBVIOUS
    <3>0. csTodo \in Seq(CsRequests) /\ Len(csTodo) \in Nat /\ Len(csTodo) > 1 BY <2>6, <3>a, <3>i, Zenon
    <3>1. /\ csTodo' \in Seq(CsRequests) /\ csTodo' # <<>> /\ Len(csTodo') = Len(csTodo) - 1
          /\ \A i \in 1..Len(csTodo') : csTodo'[i] = csTodo[i + 1]
      <4>1. csTodo' \in Seq(CsRequests) /\ Len(csTodo') = Len(csTodo) - 1 BY <2>2, <3>0
      <4>2. \A i \in 1..Len(csTodo') : csTodo'[i] = csTodo[i + 1] BY <2>2, <3>0, <4>1
      <4>3. csTodo' # <<>> BY <3>0, <4>1
      <4> QED BY <4>1, <4>2, <4>3
    <3>2. CsCovered'
      <4> SUFFICES ASSUME NEW x \in Promised, x \notin csShown' \cup csLoaded'
                   PROVE  \E i \in 1..Len(csTodo') : csTodo'[i].op # "follow" /\ x \in csTodo'[i].show
        BY <2>3 DEF CsCovered
      <4>1. PICK i \in 1..Len(csTodo) : csTodo[i].op # "follow" /\ x \in csTodo[i].show
        BY <1>0, <2>1, <2>4 DEF CsCovered
      <4>2. i # 1 BY <2>4, <4>1
      <4>3. i - 1 \in 1..Len(csTodo') /\ csTodo'[i - 1] = csTodo[i] BY <1>0, <2>1, <3>1, <4>2
      <4> QED BY <4>1, <4>3
    <3>3. Len(csTodo) \in Nat /\ csTodo'[Len(csTodo')] = csTodo[Len(csTodo)] BY <1>0, <2>1, <2>6, <3>1
    <3>4. \A i \in 1..Len(csTodo') : i + 1 \in 1..Len(csTodo) BY <3>1, <3>3
    <3>5. csPlat # "slack" => csLoaded' = {}
      BY <1>0, <2>1, <2>2 DEF CsUploads
    <3>6. csPlat = "slack" /\ csLoaded' # {} => <<"file", 1>> \in csLoaded'
      BY <1>0, <2>1, <2>2 DEF CsUploads
    <3>7. csPlat = "slack" /\ csLoaded' = {} => csTodo'[1].op # "load"
      <4>1. csPlat = "slack" => csTodo[1].op = "load" BY <1>0, <2>1, <3>0 DEF CsUploads
      <4> QED BY <1>0, <2>1, <2>2, <4>1 DEF CsUploads
    <3>b. CsUploads BY <1>0, <2>1, Zenon
    <3>c. csPlat' = csPlat /\ TextOf(csMsg)' = TextOf(csMsg) BY <2>2 DEF TextOf
    <3>d. \A i \in 1..Len(csTodo') : csTodo'[i].op = "follow" => csPlat = "telegram" /\ i = Len(csTodo')
      <4> SUFFICES ASSUME NEW i \in 1..Len(csTodo'), csTodo'[i].op = "follow"
                   PROVE  csPlat = "telegram" /\ i = Len(csTodo')
        OBVIOUS
      <4>1. i + 1 \in 1..Len(csTodo) /\ csTodo[i + 1].op = "follow" BY <3>1, <3>4
      <4>2. csPlat = "telegram" /\ i + 1 = Len(csTodo) BY <3>b, <4>1 DEF CsUploads
      <4> QED BY <3>0, <3>1, <4>2
    <3>e. csPlat # "slack" => \A i \in 1..Len(csTodo') : csTodo'[i].op = "load" => csTodo'[i].show = {}
      BY <3>b, <3>1, <3>4 DEF CsUploads
    <3>f. csPlat = "slack" => \A i \in 1..(Len(csTodo') - 1) : csTodo'[i].op = "load"
      <4> SUFFICES ASSUME csPlat = "slack", NEW i \in 1..(Len(csTodo') - 1) PROVE csTodo'[i].op = "load"
        OBVIOUS
      <4>1. i \in 1..Len(csTodo') /\ i + 1 \in 1..(Len(csTodo) - 1) BY <3>0, <3>1
      <4>2. csTodo[i + 1].op = "load" BY <3>b, <4>1 DEF CsUploads
      <4> QED BY <3>1, <4>1, <4>2
    <3>g. csTodo'[Len(csTodo')].op # "load" BY <3>b, <3>3 DEF CsUploads
    <3>h. csPlat = "slack" => TextOf(csMsg) \subseteq csTodo'[Len(csTodo')].show BY <3>b, <3>3 DEF CsUploads
    <3>8. CsUploads' BY <3>c, <3>d, <3>e, <3>f, <3>g, <3>h, <3>5, <3>6, <3>7 DEF CsUploads
    <3> QED BY <2>1, <2>2, <2>6, <3>1, <3>2, <3>8 DEF CsInv, ReportedIsShown
  <2> QED BY <2>5, <2>6
<1>4. CASE UploadFails
  <2>1. csPlat # "none" /\ Asking({"post", "load", "finish", "follow"}) BY <1>4 DEF UploadFails, Asking, CsInv
  <2>2. CASE csPlat = "slack" /\ csLoaded # {}
    <3>1. csTodo' = <<csTodo[Len(csTodo)]>> /\ UNCHANGED <<csOut, csLoaded, csShown, csMarkup, csThread, same>>
      BY <1>4, <2>2 DEF UploadFails, Last
    <3>2. csTodo' \in Seq(CsRequests) /\ Len(csTodo') = 1 /\ csTodo'[1] = csTodo[Len(csTodo)]
      BY <1>0, <2>1, <3>1
    <3>3. Promised \subseteq {<<"file", 1>>} \cup TextOf(csMsg) BY <2>2 DEF Promised, FilesOf
    <3>4. Promised' = Promised BY <3>1 DEF Promised, FilesOf, TextOf
    <3>5. Len(csTodo) \in 1..Len(csTodo) BY <1>0, <2>1
    <3>a. CsUploads BY <1>0, <2>1, Zenon
    <3>b. csPlat' = csPlat /\ csLoaded' = csLoaded /\ TextOf(csMsg)' = TextOf(csMsg) BY <3>1 DEF TextOf
    <3>c. csTodo'[1].op # "load" /\ csTodo'[1].op # "follow" /\ TextOf(csMsg) \subseteq csTodo'[1].show
      BY <2>2, <3>2, <3>5, <3>a DEF CsUploads
    <3>6. CsUploads' BY <2>2, <3>2, <3>a, <3>b, <3>c DEF CsUploads
    <3>7. csTodo'[1].op # "follow" BY <1>0, <2>1, <2>2, <3>2, <3>5 DEF CsUploads
    <3>8. CsCovered' BY <1>0, <2>1, <2>2, <3>1, <3>2, <3>3, <3>4, <3>7 DEF CsCovered, CsUploads
    <3> QED BY <2>1, <3>1, <3>2, <3>6, <3>8 DEF CsInv, ReportedIsShown, Asking
  <2>3. CASE ~(csPlat = "slack" /\ csLoaded # {})
    BY <1>2, <1>4, <2>1, <2>3 DEF UploadFails, Return_
  <2> QED BY <2>2, <2>3
<1>5. CASE FollowFails
  <2>1. csPlat # "none" /\ Asking({"post", "load", "finish", "follow"}) /\ csTodo[1].op = "follow"
    BY <1>0, <1>5 DEF FollowFails, Asking, CsInv
  <2>2. csTodo' = <<>> /\ csOut' = "sent" /\ csShown \subseteq csShown' /\ UNCHANGED same BY <1>5 DEF FollowFails, Return_
  <2>a. CsUploads /\ 1 \in 1..Len(csTodo) BY <1>0, <2>1
  <2>3. Len(csTodo) = 1 /\ csLoaded = {} BY <2>1, <2>a DEF CsUploads
  <2>4. Promised \subseteq csShown BY <1>0, <2>1, <2>3 DEF CsCovered
  <2>5. Promised' = Promised BY <2>2 DEF Promised, FilesOf, TextOf
  <2> QED BY <2>1, <2>2, <2>4, <2>5 DEF CsInv, ReportedIsShown
<1>6. CASE NoMarkup \/ NoThread
  BY <1>6 DEF NoMarkup, NoThread, CsInv, CsCovered, CsUploads, ReportedIsShown, Promised, FilesOf, TextOf
<1>7. CASE Refused("limited") \/ Refused("failed") \/ Lost \/ NoBytes
  BY <1>2, <1>7 DEF Refused, Lost, NoBytes, Return_, Asking
<1>8. ASSUME NEW p \in {"telegram", "slack", "discord"}, NEW t \in {"new", "gone"}, Change(p, t) PROVE CsInv'
  BY <1>8 DEF Change, CsInv, CsCovered, CsUploads, ReportedIsShown, Promised, FilesOf, TextOf
<1>9. CASE csPlat = "telegram" /\ csText = "new" /\ csEdit' = "ok" /\ UNCHANGED <<csText, sending>>
  BY <1>9 DEF CsInv, CsCovered, CsUploads, ReportedIsShown, Promised, FilesOf, TextOf
<1>10. CASE UNCHANGED csVars
  BY <1>10 DEF csVars, CsInv, CsCovered, CsUploads, ReportedIsShown, Promised, FilesOf, TextOf
<1> QED
  BY <1>1, <1>3, <1>4, <1>5, <1>6, <1>7, <1>8, <1>9, <1>10 DEF CsNext, TelegramEdit, SlackEdit, DiscordEdit,
     TelegramDelete, SlackDelete, DiscordDelete

\* On every platform, for any messages: a call that is told "sent" has shown what that promises, and
\* an edit that is told to be done is, however answers get lost, uploads fail and requests are
\* repeated without markup or thread.
THEOREM ReportsAreTrue == CsSpec => []ReportedIsShown
<1>1. CsInit => CsInv BY DEF CsInit, CsInv, ReportedIsShown
<1>2. CsInv => ReportedIsShown BY DEF CsInv
<1> QED BY <1>1, <1>2, CsStep, PTL DEF CsSpec
=============================================================================
