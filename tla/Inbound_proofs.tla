--------------------------- MODULE Inbound_proofs ---------------------------
(***************************************************************************)
(* Proofs about what comes in, for any number of messages, any capacity of *)
(* the queues and any number of faults: no message that was admitted ends  *)
(* in silence, no event of a platform goes missing outside of a fault, the *)
(* configuration that admits them stays valid while it is reloaded, and    *)
(* what a turn reads, the compacted context of the session and the index   *)
(* of the memory files, is sound whatever they hold.                       *)
(***************************************************************************)
EXTENDS Inbound, ChannelIntake, ConfigReload, ContextWindow, MemoryIndex, FoldLemmas,
  FiniteSetTheorems, WellFoundedInduction, TLAPS

----------------------------------------------------------------------------
(* The consumer.                                                            *)

InTypeOK ==
  /\ arrived \in 0..NMsg /\ handled \in 0..arrived
  /\ stage \in {"idle", "turn", "await", "edit", "deliver", "persist", "notice"}
  /\ told \in [Msgs -> BOOLEAN] /\ rec \in [Msgs -> BOOLEAN]
  /\ outcome \in [Msgs -> {"waiting", "ignored", "failed", "edited", "sent", "partial", "gone"}]

\* The inductive invariant: the consumer works on a message that has arrived; only messages
\* that can be edited get to the draft, and what is persisted has a result that is no error.
InInv ==
  /\ InTypeOK /\ NothingSilent
  /\ stage # "idle" => handled < arrived
  /\ stage \in {"await", "edit"} => Cur \in Edits
  /\ stage = "persist" => result \in {"sent", "partial"}

\* The end of one message.
LEMMA FinishKeeps ==
  ASSUME InInv, handled < arrived, NEW o \in {"ignored", "failed", "edited", "sent", "partial", "gone"}, Finish(o),
         told' \in [Msgs -> BOOLEAN], rec' \in [Msgs -> BOOLEAN],
         \A m \in Msgs : (told[m] => told'[m]) /\ (rec[m] => rec'[m]),
         (Cur \in Edits \/ o \in {"ignored", "sent", "gone"} \/ told'[Cur] \/ rec'[Cur])
  PROVE  InInv'
<1>1. /\ handled' = handled + 1 /\ stage' = "idle" /\ arrived' = arrived
      /\ outcome' = [outcome EXCEPT ![Cur] = o] BY DEF Finish
<1>2. InTypeOK /\ arrived \in Nat /\ handled \in Nat /\ Cur \in Msgs BY InboundConstants DEF InInv, InTypeOK, Cur, Msgs, InboundConstants
<1>3. InTypeOK' BY <1>1, <1>2 DEF InTypeOK
<1>4. outcome'[Cur] = o /\ \A m \in Msgs : m # Cur => outcome'[m] = outcome[m] BY <1>1, <1>2 DEF InTypeOK
<1>5. ASSUME NEW m \in Msgs \ Edits, outcome'[m] \notin {"waiting", "ignored", "gone"}
      PROVE  outcome'[m] = "sent" \/ rec'[m] \/ told'[m]
  <2>1. CASE m = Cur BY <1>4, <1>5, <2>1
  <2>2. CASE m # Cur
    <3>1. outcome[m] = "sent" \/ rec[m] \/ told[m] BY <1>4, <1>5, <2>2 DEF InInv, NothingSilent
    <3> QED BY <1>4, <2>2, <3>1
  <2> QED BY <2>1, <2>2
<1>6. NothingSilent' BY <1>5 DEF NothingSilent
<1> QED BY <1>1, <1>3, <1>6 DEF InInv

\* A step between two stages of one message.
LEMMA GotoKeeps ==
  ASSUME InInv, NEW s \in {"turn", "await", "edit", "deliver", "persist", "notice"}, Goto(s), handled < arrived,
         UNCHANGED <<told, rec>>, s \in {"await", "edit"} => Cur \in Edits, s = "persist" => result' \in {"sent", "partial"}
  PROVE  InInv'
<1>1. stage' = s /\ UNCHANGED <<arrived, handled, outcome, told, rec>> BY DEF Goto
<1>2. InTypeOK' BY <1>1 DEF InInv, InTypeOK
<1>3. NothingSilent' BY <1>1 DEF InInv, NothingSilent
<1> QED BY <1>1, <1>2, <1>3 DEF InInv, Cur

LEMMA InboundKept == InInv /\ [InNext]_ibVars => InInv'
<1> SUFFICES ASSUME InInv, [InNext]_ibVars PROVE InInv'
  OBVIOUS
<1>t. InTypeOK /\ arrived \in Nat /\ handled \in Nat /\ (handled < arrived => Cur \in Msgs)
  BY InboundConstants DEF InInv, InTypeOK, Cur, Msgs, InboundConstants
<1>s. told \in [Msgs -> BOOLEAN] /\ rec \in [Msgs -> BOOLEAN] BY <1>t DEF InTypeOK
<1>1. CASE UNCHANGED ibVars BY <1>1 DEF ibVars, inVars, promiseVars, InInv, InTypeOK, NothingSilent, Cur
<1>2. CASE Arrive
  <2>1. arrived' = arrived + 1 /\ arrived < NMsg /\ UNCHANGED <<handled, stage, told, rec, outcome, result>> BY <1>2 DEF Arrive, promiseVars
  <2>2. arrived' \in 0..NMsg /\ handled' \in 0..arrived' BY <1>t, <2>1, InboundConstants DEF InTypeOK, InboundConstants
  <2>3. InTypeOK' BY <1>t, <2>1, <2>2 DEF InTypeOK
  <2> QED BY <1>t, <2>1, <2>3 DEF InInv, NothingSilent, Cur
<1>3. CASE Take
  <2>1. handled < arrived /\ UNCHANGED <<told, rec>> BY <1>3 DEF Take
  <2>2. CASE Finish("ignored") BY <1>s, <2>1, <2>2, FinishKeeps
  <2>3. CASE Goto("notice") BY <2>1, <2>3, GotoKeeps
  <2>4. CASE Goto("turn") BY <2>1, <2>4, GotoKeeps
  <2> QED BY <1>3, <2>2, <2>3, <2>4 DEF Take
<1>4. CASE TurnEnds
  <2>1. handled < arrived /\ UNCHANGED <<told, rec>> BY <1>4 DEF TurnEnds, InInv
  <2>2. CASE Goto("notice") BY <2>1, <2>2, GotoKeeps
  <2>3. CASE Cur \in Edits /\ Goto("await") BY <2>1, <2>3, GotoKeeps
  <2>4. CASE Goto("deliver") BY <2>1, <2>4, GotoKeeps
  <2> QED BY <1>4, <2>2, <2>3, <2>4 DEF TurnEnds
<1>5. CASE Await
  <2>1. handled < arrived /\ UNCHANGED <<told, rec>> /\ Cur \in Edits BY <1>5 DEF Await, InInv
  <2>2. CASE Goto("edit") BY <2>1, <2>2, GotoKeeps
  <2>3. CASE Finish("edited") BY <1>s, <2>1, <2>3, FinishKeeps
  <2> QED BY <1>5, <2>2, <2>3 DEF Await
<1>6. CASE FinalEdit
  <2>1. handled < arrived /\ UNCHANGED <<told, rec>> /\ Cur \in Edits /\ Finish("edited") BY <1>6 DEF FinalEdit, InInv
  <2> QED BY <1>s, <2>1, FinishKeeps
<1>7. CASE DeliverStep
  <2>1. handled < arrived /\ UNCHANGED <<told, rec>> BY <1>7 DEF DeliverStep, InInv
  <2>2. result' \in {"none", "sent", "partial", "error"} BY <1>7 DEF DeliverStep, Deliver
  <2>3. CASE result' = "none" /\ Goto("deliver") BY <2>1, <2>3, GotoKeeps
  <2>4. CASE result' = "error" /\ Goto("notice") BY <2>1, <2>4, GotoKeeps
  <2>5. CASE result' \in {"sent", "partial"} /\ Goto("persist") BY <2>1, <2>5, GotoKeeps
  <2> QED BY <1>7, <2>2, <2>3, <2>4, <2>5 DEF DeliverStep
<1>8. CASE Persist
  <2>1. handled < arrived /\ UNCHANGED told /\ result \in {"sent", "partial"} BY <1>8 DEF Persist, InInv
  <2>2. CASE rec' = [rec EXCEPT ![Cur] = TRUE] /\ Finish(result)
    <3>1. rec' \in [Msgs -> BOOLEAN] /\ rec'[Cur] /\ \A m \in Msgs : rec[m] => rec'[m] BY <1>s, <1>t, <2>1, <2>2
    <3> QED BY <1>s, <2>1, <2>2, <3>1, FinishKeeps
  <2>3. CASE Finish("gone") /\ UNCHANGED rec BY <1>s, <2>1, <2>3, FinishKeeps
  <2>4. CASE Goto("notice") /\ UNCHANGED rec BY <2>1, <2>4, GotoKeeps
  <2> QED BY <1>8, <2>2, <2>3, <2>4 DEF Persist
<1>9. CASE Notice
  <2>1. handled < arrived /\ UNCHANGED rec /\ told' = [told EXCEPT ![Cur] = TRUE] /\ Finish("failed") BY <1>9 DEF Notice, InInv
  <2>2. told' \in [Msgs -> BOOLEAN] /\ told'[Cur] /\ \A m \in Msgs : told[m] => told'[m] BY <1>s, <1>t, <2>1
  <2> QED BY <1>s, <2>1, <2>2, FinishKeeps
<1>10. ASSUME NEW m \in Msgs, Placeholder(m) PROVE InInv'
  BY <1>10 DEF Placeholder, promiseVars, InInv, InTypeOK, NothingSilent, Cur
<1> QED BY <1>1, <1>2, <1>3, <1>4, <1>5, <1>6, <1>7, <1>8, <1>9, <1>10 DEF InNext, Consumer

\* On a channel without edits no admitted message ends in silence: the sender has the whole
\* answer, or what was sent is on record, or send_error_reply was tried, for any number of
\* messages and whichever turn, delivery or store fails (start_channel_runtime).
THEOREM NoneEndsInSilence == InSpec => []NothingSilent
<1>1. InInit => InInv
  BY InboundConstants DEF InInit, InInv, InTypeOK, NothingSilent, Msgs, InboundConstants
<1>2. InInv => NothingSilent BY DEF InInv
<1> QED BY <1>1, <1>2, InboundKept, PTL DEF InSpec

----------------------------------------------------------------------------
(* The intake of the channels.                                              *)

\* A nonempty set of numbers has a least one.
LEMMA LeastNumber ==
  ASSUME NEW S \in SUBSET Nat, S # {}
  PROVE  \E m \in S : \A n \in S : m <= n
<1>1. PICK m \in S : \A n \in S : ~(<<n, m>> \in OpToRel(<, Nat)) BY NatLessThanWellFounded, WFMin
<1>2. \A n \in S : ~(n < m) BY <1>1 DEF OpToRel
<1> QED BY <1>2

\* What a queue holds when one is added or taken.
LEMMA QueueContents ==
  /\ \A s \in Seq(Nat), e \in Nat : Append(s, e) \in Seq(Nat) /\ ToSet(Append(s, e)) = ToSet(s) \cup {e}
  /\ \A s \in Seq(Nat) : s # <<>> => Head(s) \in Nat /\ Tail(s) \in Seq(Nat) /\ ToSet(s) = {Head(s)} \cup ToSet(Tail(s))
  /\ ToSet(<<>>) = {}
<1>1. ASSUME NEW s \in Seq(Nat), NEW e \in Nat PROVE Append(s, e) \in Seq(Nat) /\ ToSet(Append(s, e)) = ToSet(s) \cup {e}
  <2>1. Append(s, e) \in Seq(Nat) /\ DOMAIN Append(s, e) = DOMAIN s \cup {Len(s) + 1} /\ Append(s, e)[Len(s) + 1] = e
        /\ \A i \in DOMAIN s : Append(s, e)[i] = s[i] OBVIOUS
  <2> QED BY <2>1 DEF ToSet
<1>2. ASSUME NEW s \in Seq(Nat), s # <<>> PROVE Head(s) \in Nat /\ Tail(s) \in Seq(Nat) /\ ToSet(s) = {Head(s)} \cup ToSet(Tail(s))
  <2>1. Len(s) \in Nat \ {0} /\ DOMAIN s = 1..Len(s) /\ Head(s) = s[1] /\ s[1] \in Nat BY <1>2
  <2>2. Tail(s) \in Seq(Nat) /\ Len(Tail(s)) = Len(s) - 1 /\ \A i \in 1..(Len(s) - 1) : Tail(s)[i] = s[i + 1] BY <1>2
  <2>3. ASSUME NEW i \in 1..Len(s) PROVE s[i] \in {Head(s)} \cup ToSet(Tail(s))
    <3>1. i = 1 \/ (i - 1 \in 1..(Len(s) - 1) /\ (i - 1) + 1 = i) BY <2>1
    <3>2. DOMAIN Tail(s) = 1..(Len(s) - 1) BY <2>1, <2>2
    <3> QED BY <2>1, <2>2, <3>1, <3>2 DEF ToSet
  <2>4. ASSUME NEW i \in 1..(Len(s) - 1) PROVE Tail(s)[i] \in ToSet(s)
    <3>1. i + 1 \in 1..Len(s) /\ Tail(s)[i] = s[i + 1] BY <2>1, <2>2
    <3> QED BY <2>1, <3>1 DEF ToSet
  <2>5. DOMAIN Tail(s) = 1..(Len(s) - 1) BY <2>1, <2>2
  <2>6. ToSet(s) \subseteq {Head(s)} \cup ToSet(Tail(s)) BY <2>1, <2>3 DEF ToSet
  <2>7. ToSet(Tail(s)) \subseteq ToSet(s) BY <2>4, <2>5 DEF ToSet
  <2>8. Head(s) \in ToSet(s)
    <3>1. 1 \in DOMAIN s BY <2>1
    <3> QED BY <2>1, <3>1 DEF ToSet
  <2> QED BY <2>1, <2>2, <2>6, <2>7, <2>8
<1>3. ToSet(<<>>) = {} BY DEF ToSet
<1> QED BY <1>1, <1>2, <1>3

CiTypeOK ==
  /\ ciKind \in {"none", "slack", "discord", "signal", "whatsapp"}
  /\ ciSent \in Nat /\ ciHeld \subseteq 1..ciSent /\ ciPost \subseteq ciHeld /\ ciHand \in Nat
  /\ ciWire \in Seq(Nat) /\ ciQueue \in Seq(Nat) /\ ciDone \subseteq Nat

\* Every event is on a connection once.
CiOnce(s) == \A i, j \in DOMAIN s : s[i] = s[j] => i = j

\* Posts that wait hold what the platform still has, and no two of them the same event.
CiPostsOK ==
  /\ \A S \in ciPosts : S \subseteq ciHeld
  /\ \A S, T \in ciPosts : S = T \/ S \cap T = {}
  /\ ciPost # {} => ciPost \in ciPosts

\* The inductive invariant. A platform that keeps its events still holds what is on the way
\* (Slack sends none twice at a time, so one acknowledgement gives up one event); the messages
\* of a post are still to do or handled.
CiInv ==
  /\ CiTypeOK /\ CiPostsOK /\ MessagesAccounted
  /\ Keeps => ToSet(ciWire) \subseteq ciHeld
  /\ ciKind = "slack" => CiOnce(ciWire)
  /\ ciKind = "none" => ciWire = <<>> /\ ciPost = {}
  /\ ciPosts # {} => ciKind = "whatsapp"
  /\ ciLink = "hook" => ciKind = "whatsapp"
  /\ ciPost # {} => ciKind = "whatsapp"
  /\ ciSecond => ciKind = "slack"
  /\ Talks \cap ciPost \subseteq ToSet(ciWire) \cup ciDone

\* Every platform forwards what a person says.
LEMMA TalkIsForwarded ==
  ASSUME NEW e \in Talks
  PROVE  Forwards(e)
BY DEF Talks, Forwards, SlackForwards, DiscordForwards, SignalForwards, WhatsAppForwards

\* Steps that leave the events and the platform as they are, and the link its kind.
LEMMA LinkSteps ==
  ASSUME CiInv, UNCHANGED <<ciKind, ciSent, ciHeld, ciPosts, ciWire, ciPost, ciHand, ciQueue, ciDone, ciLost>>,
         ciLink' = "hook" => ciKind = "whatsapp", ciSecond' => ciKind = "slack"
  PROVE  CiInv'
<1>1. CiTypeOK' BY DEF CiInv, CiTypeOK
<1>2. MessagesAccounted' /\ Talks' = Talks BY DEF CiInv, MessagesAccounted, Talks
<1>3. CiPostsOK' BY DEF CiInv, CiPostsOK
<1> QED BY <1>1, <1>2, <1>3 DEF CiInv, Keeps

\* The end of a connection.
LEMMA LeaveKeeps ==
  ASSUME CiInv, NEW p \in {"slack", "discord", "signal"}, NEW l \in {"dead", "pause", "silent"},
         Leave(p, l) \/ (FallSilent(p) /\ l = "silent")
  PROVE  CiInv'
<1>1. /\ ciKind = p /\ ciLink' = l /\ ciWire' = <<>> /\ ciLost' = (IF Keeps THEN ciLost ELSE ciLost \cup ToSet(ciWire))
      /\ UNCHANGED <<ciKind, ciSent, ciPosts, ciPost, ciHeld, ciHand, ciQueue, ciDone, ciSecond>>
  BY DEF Leave, FallSilent, platformSide, intake
<1>2. CiTypeOK' BY <1>1 DEF CiInv, CiTypeOK
<1>3. Talks' = Talks /\ (Keeps' <=> Keeps) /\ ToSet(ciWire') = {} BY <1>1, QueueContents DEF Talks, Keeps
<1>4. MessagesAccounted' BY <1>1, <1>3 DEF CiInv, MessagesAccounted
<1>5. CiOnce(ciWire') BY <1>1 DEF CiOnce
<1>6. ciPosts = {} /\ ciPost = {} BY <1>1 DEF CiInv
<1> QED BY <1>1, <1>2, <1>3, <1>4, <1>5, <1>6 DEF CiInv, CiPostsOK

\* An event is read from a connection.
LEMMA ReceiveKeeps ==
  ASSUME CiInv, NEW p \in {"slack", "discord", "signal"}, Receive(p),
         ciHeld' = ciHeld \/ (p = "slack" /\ ciHeld' = ciHeld \ {Head(ciWire)})
  PROVE  CiInv'
<1>1. /\ ciKind = p /\ ciLink = "open" /\ ciHand = 0 /\ ciWire # <<>> /\ ciWire' = Tail(ciWire)
      /\ ciHand' = (IF Forwards(Head(ciWire)) THEN Head(ciWire) ELSE 0)
      /\ UNCHANGED <<ciKind, ciSent, ciPosts, ciPost, ciLink, ciQueue, ciDone, ciSecond, ciLost>>
  BY DEF Receive, platformSide, link
<1>2. ciWire \in Seq(Nat) /\ ciPost = {} /\ ciPosts = {} BY <1>1 DEF CiInv, CiTypeOK
<1>3. Head(ciWire) \in Nat /\ Tail(ciWire) \in Seq(Nat) /\ ToSet(ciWire) = {Head(ciWire)} \cup ToSet(Tail(ciWire))
  BY <1>1, <1>2, QueueContents
<1>4. CiTypeOK' BY <1>1, <1>2, <1>3 DEF CiInv, CiTypeOK
<1>5. Talks' = Talks /\ (Keeps' <=> Keeps) BY <1>1 DEF Talks, Keeps
<1>6. MessagesAccounted'
  <2>1. ASSUME NEW e \in Talks PROVE e \in ciHeld' \cup ToSet(ciWire') \cup {ciHand'} \cup ToSet(ciQueue') \cup ciDone' \cup ciLost'
    <3>0. e # 0 BY DEF Talks
    <3>1. CASE e = Head(ciWire) BY <1>1, <3>1, TalkIsForwarded
    <3>2. CASE e # Head(ciWire) BY <1>1, <1>3, <3>0, <3>2 DEF CiInv, MessagesAccounted
    <3> QED BY <3>1, <3>2
  <2> QED BY <1>5, <2>1 DEF MessagesAccounted
<1>7. p = "slack" => CiOnce(Tail(ciWire)) /\ Head(ciWire) \notin ToSet(Tail(ciWire))
  <2> SUFFICES ASSUME p = "slack" PROVE CiOnce(Tail(ciWire)) /\ Head(ciWire) \notin ToSet(Tail(ciWire)) OBVIOUS
  <2>1. CiOnce(ciWire) BY <1>1 DEF CiInv
  <2>2. DOMAIN ciWire = 1..Len(ciWire) /\ Len(ciWire) \in Nat /\ Head(ciWire) = ciWire[1] BY <1>1, <1>2
  <2>3. DOMAIN Tail(ciWire) = 1..(Len(ciWire) - 1) /\ \A i \in 1..(Len(ciWire) - 1) : Tail(ciWire)[i] = ciWire[i + 1] BY <1>1, <1>2
  <2>4. \A i \in 1..(Len(ciWire) - 1) : i + 1 \in DOMAIN ciWire /\ i + 1 # 1 /\ 1 \in DOMAIN ciWire BY <2>2
  <2>5. Head(ciWire) \notin ToSet(Tail(ciWire)) BY <2>1, <2>2, <2>3, <2>4 DEF CiOnce, ToSet
  <2>6. CiOnce(Tail(ciWire))
    <3> SUFFICES ASSUME NEW i \in 1..(Len(ciWire) - 1), NEW j \in 1..(Len(ciWire) - 1), Tail(ciWire)[i] = Tail(ciWire)[j]
                 PROVE  i = j
      BY <2>3 DEF CiOnce
    <3>1. i + 1 = j + 1 BY <2>1, <2>3, <2>4 DEF CiOnce
    <3> QED BY <3>1
  <2> QED BY <2>5, <2>6
<1>8. Keeps => ToSet(ciWire') \subseteq ciHeld' BY <1>1, <1>3, <1>7 DEF CiInv, Keeps
<1>9. CiPostsOK' BY <1>1, <1>2 DEF CiPostsOK
<1> QED BY <1>1, <1>2, <1>4, <1>5, <1>6, <1>7, <1>8, <1>9 DEF CiInv

\* Every step of a platform, its adapter and the gateway keeps the invariant.
LEMMA IntakeKept == CiInv /\ [CiNext]_ciVars => CiInv'
<1> SUFFICES ASSUME CiInv, [CiNext]_ciVars PROVE CiInv'
  OBVIOUS
<1>t. CiTypeOK /\ ciSent \in Nat /\ ciHeld \subseteq 1..ciSent /\ ciWire \in Seq(Nat) /\ ciQueue \in Seq(Nat) /\ ciDone \subseteq Nat
      /\ ciHand \in Nat BY DEF CiInv, CiTypeOK
<1>p. CiPostsOK BY DEF CiInv
<1>n. ciHeld \subseteq Nat
  <2>1. \A e \in 1..ciSent : e \in Nat BY <1>t
  <2> QED BY <1>t, <2>1
<1>a. ASSUME NEW e \in Talks PROVE e \in ciHeld \cup ToSet(ciWire) \cup {ciHand} \cup ToSet(ciQueue) \cup ciDone \cup ciLost
  BY DEF CiInv, MessagesAccounted
<1>1. CASE UNCHANGED ciVars
  <2>1. UNCHANGED <<ciKind, ciLink, ciSent, ciHeld, ciPosts, ciWire, ciPost, ciHand, ciQueue, ciDone, ciSecond, ciLost>> BY <1>1 DEF ciVars
  <2> QED BY <2>1, LinkSteps DEF CiInv
<1>2. ASSUME NEW p \in {"slack", "discord", "signal", "whatsapp"}, CiPick(p) PROVE CiInv'
  <2>1. /\ ciKind = "none" /\ ciKind' = p /\ (ciLink' = "hook" => p = "whatsapp")
        /\ UNCHANGED <<ciSent, ciHeld, ciPosts, ciWire, ciPost, ciHand, ciQueue, ciDone, ciSecond, ciLost>> BY <1>2 DEF CiPick
  <2>2. ciWire = <<>> /\ ciPost = {} /\ ~ciSecond BY <2>1 DEF CiInv
  <2>3. CiTypeOK' /\ Talks' \subseteq Talks BY <1>t, <2>1 DEF CiTypeOK, Talks
  <2>4. MessagesAccounted' BY <2>1, <2>3 DEF CiInv, MessagesAccounted
  <2>5. ToSet(ciWire') = {} /\ CiOnce(ciWire') BY <2>1, <2>2, QueueContents DEF CiOnce
  <2>6. CiPostsOK' BY <1>p, <2>1 DEF CiPostsOK
  <2>7. ciPosts = {} BY <2>1 DEF CiInv
  <2> QED BY <2>1, <2>2, <2>3, <2>4, <2>5, <2>6, <2>7 DEF CiInv
<1>3. CASE Happen
  <2>1. PICK e : e = ciSent + 1 OBVIOUS
  <2>2. /\ ciKind # "none" /\ ciSent' = e /\ ciHeld' = (IF Keeps THEN ciHeld \cup {e} ELSE ciHeld)
        /\ ciWire' = (IF ~Keeps /\ ciLink = "open" THEN Append(ciWire, e) ELSE ciWire)
        /\ ciLost' = (IF ~Keeps /\ ciLink # "open" THEN ciLost \cup {e} ELSE ciLost)
        /\ UNCHANGED <<ciKind, ciLink, ciPosts, ciPost, ciHand, ciQueue, ciDone, ciSecond>> BY <1>3, <2>1 DEF Happen
  <2>3. e \in Nat /\ ciWire' \in Seq(Nat) /\ (Keeps' <=> Keeps) /\ ToSet(ciWire) \subseteq ToSet(ciWire')
    BY <1>t, <2>1, <2>2, QueueContents DEF Keeps
  <2>4. ciHeld' \subseteq 1..ciSent' /\ ciPost' \subseteq ciHeld' BY <1>t, <2>1, <2>2 DEF CiTypeOK
  <2>5. CiTypeOK' BY <1>t, <2>2, <2>3, <2>4 DEF CiTypeOK
  <2>a. \A f \in 1..e : f = e \/ f \in 1..ciSent BY <1>t, <2>1
  <2>6. Talks' \subseteq Talks \cup {e} BY <2>2, <2>a DEF Talks
  <2>7. e \in ciHeld' \cup ToSet(ciWire') \cup ciLost' BY <1>t, <2>2, <2>3, QueueContents
  <2>8. MessagesAccounted'
    <3>1. ASSUME NEW f \in Talks
          PROVE  f \in ciHeld' \cup ToSet(ciWire') \cup {ciHand'} \cup ToSet(ciQueue') \cup ciDone' \cup ciLost'
      BY <1>a, <2>2, <2>3
    <3> QED BY <2>6, <2>7, <3>1 DEF MessagesAccounted
  <2>9. Keeps => UNCHANGED ciWire BY <2>2
  <2>10. e \notin ciPost BY <1>t, <2>1 DEF CiTypeOK
  <2>11. Talks' \cap ciPost' \subseteq ToSet(ciWire') \cup ciDone' BY <2>2, <2>3, <2>6, <2>10 DEF CiInv
  <2>12. Keeps => ToSet(ciWire') \subseteq ciHeld' BY <2>2, <2>9 DEF CiInv
  <2>13. ciKind = "slack" => CiOnce(ciWire') BY <2>9 DEF CiInv, Keeps
  <2>14. CiPostsOK' BY <1>p, <2>2 DEF CiPostsOK
  <2> QED BY <2>2, <2>3, <2>5, <2>8, <2>11, <2>12, <2>13, <2>14 DEF CiInv
<1>4. CASE SlackConnect \/ DiscordConnect \/ SignalConnect
  <2>1. PICK p, n : SetUp(p, n) BY <1>4 DEF SlackConnect, DiscordConnect, SignalConnect
  <2>2. ciLink' \in {"open", "connecting"} /\ UNCHANGED <<ciKind, ciSent, ciHeld, ciPosts, ciWire, ciPost, ciHand, ciQueue, ciDone, ciLost, ciSecond>>
    BY <2>1 DEF SetUp, platformSide, intake
  <2> QED BY <2>2, LinkSteps DEF CiInv
<1>5. CASE ConnectFails
  <2>1. ciLink' = "pause" /\ UNCHANGED <<ciKind, ciSent, ciHeld, ciPosts, ciWire, ciPost, ciHand, ciQueue, ciDone, ciLost, ciSecond>>
    BY <1>5 DEF ConnectFails, platformSide, intake
  <2> QED BY <2>1, LinkSteps DEF CiInv
<1>6. CASE SlackFatal \/ DiscordFatal \/ SlackBreak \/ DiscordBreak \/ SignalBreak
  BY <1>6, LeaveKeeps DEF SlackFatal, DiscordFatal, SlackBreak, DiscordBreak, SignalBreak
<1>19. ASSUME NEW p \in {"slack", "discord", "signal"}, FallSilent(p) PROVE CiInv'
  BY <1>19, LeaveKeeps
<1>20. ASSUME NEW p, LateBreak(p) PROVE CiInv'
  <2>1. ciLink' = "pause" /\ UNCHANGED <<ciKind, ciSent, ciHeld, ciPosts, ciWire, ciPost, ciHand, ciQueue, ciDone, ciLost, ciSecond>>
    BY <1>20 DEF LateBreak, platformSide, intake
  <2> QED BY <2>1, LinkSteps DEF CiInv
<1>7. CASE Push
  <2>1. PICK e \in ciHeld \ ToSet(ciWire) : ciWire' = Append(ciWire, e)
    <3> DEFINE waiting == ciHeld \ ToSet(ciWire)
    <3>1. PICK e : e = CHOOSE x \in waiting : \A f \in waiting : x <= f OBVIOUS
    <3>2. ciWire' = Append(ciWire, e) /\ waiting # {} BY <1>7, <3>1 DEF Push
    <3>3. waiting \in SUBSET Nat BY <1>n
    <3>4. \E x \in waiting : \A f \in waiting : x <= f
      <4> HIDE DEF waiting
      <4> QED BY <3>2, <3>3, LeastNumber
    <3>5. e \in waiting
      <4> HIDE DEF waiting
      <4> QED BY <3>1, <3>4
    <3> QED BY <3>2, <3>5
  <2>2. ciKind = "slack" /\ UNCHANGED <<ciKind, ciLink, ciSent, ciHeld, ciPosts, ciPost, ciHand, ciQueue, ciDone, ciSecond, ciLost>>
    BY <1>7 DEF Push, platformSide, link, intake
  <2>3. e \in Nat /\ ciWire' \in Seq(Nat) /\ ToSet(ciWire') = ToSet(ciWire) \cup {e} BY <1>t, <2>1, QueueContents
  <2>4. CiTypeOK' /\ Talks' = Talks /\ (Keeps' <=> Keeps) BY <1>t, <2>2, <2>3 DEF CiTypeOK, Talks, Keeps
  <2>5. MessagesAccounted' BY <2>2, <2>3, <2>4 DEF CiInv, MessagesAccounted
  <2>6. CiOnce(ciWire')
    <3>1. CiOnce(ciWire) BY <2>2 DEF CiInv
    <3>2. DOMAIN ciWire' = DOMAIN ciWire \cup {Len(ciWire) + 1} /\ ciWire'[Len(ciWire) + 1] = e
          /\ \A i \in DOMAIN ciWire : ciWire'[i] = ciWire[i] BY <1>t, <2>1, <2>3
    <3>3. \A i \in DOMAIN ciWire : ciWire[i] # e BY <2>1 DEF ToSet
    <3> QED BY <3>1, <3>2, <3>3 DEF CiOnce
  <2>7. CiPostsOK' BY <1>p, <2>2 DEF CiPostsOK
  <2> QED BY <2>1, <2>2, <2>3, <2>4, <2>5, <2>6, <2>7 DEF CiInv, Keeps
<1>8. CASE SlackRead
  <2>1. Receive("slack") /\ (ciHeld' = ciHeld \/ ciHeld' = ciHeld \ {Head(ciWire)}) BY <1>8 DEF SlackRead
  <2> QED BY <2>1, ReceiveKeeps
<1>9. CASE DiscordRead \/ SignalRead
  <2>1. (Receive("discord") \/ Receive("signal")) /\ ciHeld' = ciHeld BY <1>9 DEF DiscordRead, SignalRead
  <2> QED BY <2>1, ReceiveKeeps
<1>10. CASE Wake
  <2>1. ciLink' = "connecting" /\ UNCHANGED <<ciKind, ciSent, ciHeld, ciPosts, ciWire, ciPost, ciHand, ciQueue, ciDone, ciLost, ciSecond>>
    BY <1>10 DEF Wake, platformSide, intake
  <2> QED BY <2>1, LinkSteps DEF CiInv
\* The queue.
<1>q. ASSUME UNCHANGED <<ciKind, ciLink, ciSent, ciHeld, ciPosts, ciWire, ciPost, ciSecond, ciLost>>,
             ciHand' \in Nat, ciQueue' \in Seq(Nat), ciDone' \subseteq Nat, ciDone \subseteq ciDone',
             ({ciHand} \ {0}) \cup ToSet(ciQueue) \subseteq {ciHand'} \cup ToSet(ciQueue') \cup ciDone'
      PROVE  CiInv'
  <2>1. CiTypeOK' /\ Talks' = Talks /\ (Keeps' <=> Keeps) BY <1>t, <1>q DEF CiTypeOK, Talks, Keeps
  <2>2. MessagesAccounted'
    <3>1. ASSUME NEW f \in Talks
          PROVE  f \in ciHeld' \cup ToSet(ciWire') \cup {ciHand'} \cup ToSet(ciQueue') \cup ciDone' \cup ciLost'
      <4>1. f # 0 BY DEF Talks
      <4> QED BY <1>a, <1>q, <4>1
    <3> QED BY <2>1, <3>1 DEF MessagesAccounted
  <2>3. CiPostsOK' BY <1>p, <1>q DEF CiPostsOK
  <2> QED BY <1>q, <2>1, <2>2, <2>3 DEF CiInv
<1>11. CASE Enqueue
  <2>1. /\ ciQueue' = Append(ciQueue, ciHand) /\ ciHand' = 0
        /\ UNCHANGED <<ciKind, ciLink, ciSent, ciHeld, ciPosts, ciWire, ciPost, ciDone, ciSecond, ciLost>> BY <1>11 DEF Enqueue, platformSide, link
  <2>2. ciQueue' \in Seq(Nat) /\ ToSet(ciQueue') = ToSet(ciQueue) \cup {ciHand} BY <1>t, <2>1, QueueContents
  <2> QED BY <1>q, <1>t, <2>1, <2>2
<1>12. CASE Dequeue
  <2>1. /\ ciQueue # <<>> /\ ciDone' = ciDone \cup {Head(ciQueue)} /\ ciQueue' = Tail(ciQueue)
        /\ UNCHANGED <<ciKind, ciLink, ciSent, ciHeld, ciPosts, ciWire, ciPost, ciHand, ciSecond, ciLost>> BY <1>12 DEF Dequeue, platformSide, link
  <2>2. Head(ciQueue) \in Nat /\ ciQueue' \in Seq(Nat) /\ ToSet(ciQueue) = {Head(ciQueue)} \cup ToSet(ciQueue')
    BY <1>t, <2>1, QueueContents
  <2> QED BY <1>q, <1>t, <2>1, <2>2
<1>13. CASE SecondConnection
  <2>1. ciKind = "slack" /\ UNCHANGED <<ciLink, ciKind, ciSent, ciHeld, ciPosts, ciWire, ciPost, ciHand, ciQueue, ciDone, ciLost>>
    BY <1>13 DEF SecondConnection, platformSide, link, intake
  <2> QED BY <2>1, LinkSteps DEF CiInv
<1>14. CASE SecondReads
  <2>1. PICK e \in ciHeld \ ToSet(ciWire) :
          /\ ciHeld' = ciHeld \ {e} /\ ciLost' = (IF Forwards(e) THEN ciLost \cup {e} ELSE ciLost) /\ ciSecond' = ~Forwards(e)
    BY <1>14 DEF SecondReads
  <2>2. ciKind = "slack" /\ ciPost = {} /\ ciPosts = {} /\ UNCHANGED <<ciKind, ciLink, ciSent, ciPosts, ciWire, ciPost, ciHand, ciQueue, ciDone>>
    BY <1>14 DEF SecondReads, CiInv, platformSide, link, intake
  <2>3. CiTypeOK' /\ Talks' = Talks /\ (Keeps' <=> Keeps) BY <1>t, <2>1, <2>2 DEF CiTypeOK, Talks, Keeps
  <2>4. MessagesAccounted'
    <3>1. ASSUME NEW f \in Talks
          PROVE  f \in ciHeld' \cup ToSet(ciWire') \cup {ciHand'} \cup ToSet(ciQueue') \cup ciDone' \cup ciLost'
      <4>1. CASE f = e BY <2>1, <4>1, TalkIsForwarded
      <4>2. CASE f # e BY <1>a, <2>1, <2>2, <4>2
      <4> QED BY <4>1, <4>2
    <3> QED BY <2>3, <3>1 DEF MessagesAccounted
  <2>5. ToSet(ciWire') \subseteq ciHeld' BY <2>1, <2>2 DEF CiInv, Keeps
  <2> QED BY <2>2, <2>3, <2>4, <2>5 DEF CiInv, CiPostsOK
<1>15. CASE GatewayCrash
  <2>1. /\ ciLost' = ciLost \cup ToSet(ciQueue) \cup ({ciHand} \ {0}) \cup (IF Keeps THEN {} ELSE ToSet(ciWire))
        /\ ciLink' = (IF ciKind = "whatsapp" THEN "hook" ELSE "connecting") /\ ciWire' = <<>> /\ ciPost' = {} /\ ciHand' = 0
        /\ ciQueue' = <<>> /\ ciSecond' = FALSE /\ UNCHANGED <<ciKind, ciSent, ciHeld, ciPosts, ciDone>>
    BY <1>15 DEF GatewayCrash
  <2>2. CiTypeOK' /\ Talks' = Talks /\ (Keeps' <=> Keeps) BY <1>t, <2>1 DEF CiTypeOK, Talks, Keeps
  <2>3. MessagesAccounted'
    <3>1. ASSUME NEW f \in Talks
          PROVE  f \in ciHeld' \cup ToSet(ciWire') \cup {ciHand'} \cup ToSet(ciQueue') \cup ciDone' \cup ciLost'
      <4>1. f # 0 BY DEF Talks
      <4> QED BY <1>a, <2>1, <4>1 DEF CiInv
    <3> QED BY <2>2, <3>1 DEF MessagesAccounted
  <2>4. ToSet(ciWire') = {} /\ CiOnce(ciWire') BY <2>1, QueueContents DEF CiOnce
  <2>5. CiPostsOK' BY <1>p, <2>1 DEF CiPostsOK
  <2> QED BY <2>1, <2>2, <2>3, <2>4, <2>5 DEF CiInv
\* The webhook.
<1>21. CASE MakePost
  <2>1. /\ ciKind = "whatsapp"
        /\ UNCHANGED <<ciKind, ciSent, ciLink, ciHeld, ciWire, ciPost, ciHand, ciQueue, ciDone, ciSecond, ciLost>>
    BY <1>21 DEF MakePost, CiInv, link, intake
  <2>2. PICK S \in SUBSET (ciHeld \ UNION ciPosts) : ciPosts' = ciPosts \cup {S} BY <1>21 DEF MakePost
  <2>3. CiPostsOK' BY <1>p, <2>1, <2>2 DEF CiPostsOK
  <2>4. CiTypeOK' /\ Talks' = Talks /\ (Keeps' <=> Keeps) BY <1>t, <2>1 DEF CiInv, CiTypeOK, Talks, Keeps
  <2>5. MessagesAccounted' BY <2>1, <2>4 DEF CiInv, MessagesAccounted
  <2> QED BY <2>1, <2>3, <2>4, <2>5 DEF CiInv
<1>16. ASSUME NEW posted, HookPost(posted) PROVE CiInv'
  <2>1. ciKind = "whatsapp" /\ ciPost = {} /\ UNCHANGED <<ciKind, ciSent, ciPosts, ciLink, ciHeld, ciHand, ciQueue, ciDone, ciSecond, ciLost>>
    BY <1>16 DEF HookPost, CiInv, link, intake
  <2>2. CASE UNCHANGED <<ciPost, ciWire>>
    <3>1. ciLink' = "hook" => ciKind = "whatsapp" BY <2>1
    <3> QED BY <2>1, <2>2, <3>1, LinkSteps DEF CiInv
  <2>a. posted \in ciPosts /\ posted \in SUBSET ciHeld BY <1>p, <1>16 DEF HookPost, CiPostsOK
  <2>3. ASSUME ciPost' = posted, ciWire' \in InOrder({e \in posted : Forwards(e)}) PROVE CiInv'
    <3>0. {e \in posted : Forwards(e)} \subseteq Nat BY <1>n, <2>a
    <3>1. PICK n : ciWire' \in [1..n -> Nat] /\ n = Cardinality({e \in posted : Forwards(e)})
      <4>1. ciWire' \in [1..Cardinality({e \in posted : Forwards(e)}) -> {e \in posted : Forwards(e)}] BY <2>3 DEF InOrder
      <4> QED BY <3>0, <4>1
    <3>2. ToSet(ciWire') = {e \in posted : Forwards(e)} BY <2>3 DEF InOrder
    <3>3. n \in Nat
      <4>1. IsFiniteSet(1..ciSent) BY <1>t, FS_Interval
      <4>2. IsFiniteSet({e \in posted : Forwards(e)}) BY <1>t, <2>a, <4>1, FS_Subset
      <4> QED BY <3>1, <4>2, FS_CardinalityType
    <3>a. ciWire' \in [1..n -> Nat] BY <3>1
    <3>4. ciWire' \in Seq(Nat) BY <3>3, <3>a
    <3>5. CiTypeOK' /\ Talks' = Talks /\ (Keeps' <=> Keeps) BY <1>t, <2>1, <2>a, <2>3, <3>4 DEF CiTypeOK, Talks, Keeps
    <3>6. MessagesAccounted'
      <4>1. ToSet(ciWire) \subseteq ciHeld BY <2>1 DEF CiInv, Keeps
      <4> QED BY <2>1, <3>5, <4>1 DEF CiInv, MessagesAccounted
    <3>7. \A e \in Talks \cap posted : e \in ToSet(ciWire') BY <3>2, TalkIsForwarded
    <3>8. CiPostsOK' BY <1>p, <2>1, <2>a, <2>3 DEF CiPostsOK
    <3> QED BY <2>1, <2>a, <2>3, <3>2, <3>5, <3>6, <3>7, <3>8 DEF CiInv
  <2> QED BY <1>16, <2>2, <2>3 DEF HookPost
<1>17. CASE HookMessage
  <2>1. ciPost # {} /\ ciWire # <<>> /\ ciKind = "whatsapp" /\ UNCHANGED <<ciKind, ciSent, ciPosts, ciLink, ciHeld, ciHand, ciQueue, ciSecond, ciLost>>
    BY <1>17 DEF HookMessage, CiInv, link
  <2>2. ToSet(ciWire) \subseteq ciHeld /\ Talks' = Talks /\ (Keeps' <=> Keeps) BY <2>1 DEF CiInv, Talks, Keeps
  <2>3. CASE ciWire' = Tail(ciWire) /\ ciDone' = ciDone \cup {Head(ciWire)} /\ UNCHANGED ciPost
    <3>1. Head(ciWire) \in Nat /\ ciWire' \in Seq(Nat) /\ ToSet(ciWire) = {Head(ciWire)} \cup ToSet(ciWire')
      BY <1>t, <2>1, <2>3, QueueContents
    <3>2. ciDone' \subseteq Nat /\ ciDone' = ciDone \cup {Head(ciWire)} BY <1>t, <2>3, <3>1
    <3>3. CiTypeOK' BY <1>t, <2>1, <2>3, <3>1, <3>2 DEF CiTypeOK
    <3>4. MessagesAccounted' BY <2>1, <2>2, <3>1, <3>2 DEF CiInv, MessagesAccounted
    <3>5. Talks' \cap ciPost' \subseteq ToSet(ciWire') \cup ciDone' BY <2>2, <2>3, <3>1, <3>2 DEF CiInv
    <3>6. CiPostsOK' BY <1>p, <2>1, <2>3 DEF CiPostsOK
    <3> QED BY <2>1, <2>2, <2>3, <3>1, <3>3, <3>4, <3>5, <3>6 DEF CiInv
  <2>4. CASE ciWire' = <<>> /\ ciPost' = {} /\ UNCHANGED ciDone
    <3>1. CiTypeOK' BY <1>t, <2>1, <2>4 DEF CiTypeOK
    <3>2. MessagesAccounted' BY <2>1, <2>2, <2>4 DEF CiInv, MessagesAccounted
    <3>3. ToSet(ciWire') = {} BY <2>4, QueueContents
    <3>4. CiPostsOK' BY <1>p, <2>1, <2>4 DEF CiPostsOK
    <3> QED BY <2>1, <2>2, <2>4, <3>1, <3>2, <3>3, <3>4 DEF CiInv
  <2> QED BY <1>17, <2>3, <2>4 DEF HookMessage, HookError
<1>18. CASE HookAnswer
  <2>1. /\ ciPost # {} /\ ciWire = <<>> /\ ciPost' = {}
        /\ (UNCHANGED <<ciHeld, ciPosts>> \/ (ciHeld' = ciHeld \ ciPost /\ ciPosts' = ciPosts \ {ciPost}))
        /\ ciKind = "whatsapp" /\ UNCHANGED <<ciKind, ciSent, ciLink, ciWire, ciHand, ciQueue, ciDone, ciSecond, ciLost>>
    BY <1>18 DEF HookAnswer, CiInv, link, intake
  <2>2. CiTypeOK' /\ Talks' = Talks /\ (Keeps' <=> Keeps) BY <1>t, <2>1 DEF CiTypeOK, Talks, Keeps
  <2>3. Talks \cap ciPost \subseteq ciDone /\ ToSet(ciWire) = {} BY <2>1, QueueContents DEF CiInv
  <2>4. MessagesAccounted' BY <2>1, <2>2, <2>3 DEF CiInv, MessagesAccounted
  <2>5. CiPostsOK' BY <1>p, <2>1 DEF CiPostsOK
  <2> QED BY <2>1, <2>2, <2>3, <2>4, <2>5 DEF CiInv
<1> QED BY <1>1, <1>2, <1>3, <1>4, <1>5, <1>6, <1>7, <1>8, <1>9, <1>10, <1>11, <1>12, <1>13, <1>14, <1>15, <1>16, <1>17, <1>18,
           <1>19, <1>20, <1>21
        DEF CiNext, CiWork, HeartbeatFails, PostOf

\* Everyone's message is with the platform, on its way, in memory, handled, or was in memory or
\* on its way at a fault: for any events, queue and faults, no full queue, no connection that
\* breaks and no failing neighbour in a post makes one disappear (slack.rs, discord.rs,
\* signal.rs, whatsapp.rs and the webhook handler).
THEOREM NoMessageDisappears == CiSpec => []MessagesAccounted
<1>1. CiInit => CiInv
  <2> SUFFICES ASSUME CiInit PROVE CiInv OBVIOUS
  <2>1. CiTypeOK /\ CiPostsOK /\ Talks = {} BY DEF CiInit, CiTypeOK, CiPostsOK, Talks
  <2>2. ~Keeps BY DEF CiInit, Keeps
  <2> QED BY <2>1, <2>2 DEF CiInit, CiInv, MessagesAccounted
<1>2. CiInv => MessagesAccounted BY DEF CiInv
<1> QED BY <1>1, <1>2, IntakeKept, PTL DEF CiSpec

----------------------------------------------------------------------------
(* The configuration.                                                       *)

\* The inductive invariant: what was read and is to be built or applied was validated.
CfInv ==
  /\ cfFile \in CfStartFiles \cup CfFiles
  /\ IsConfig(cfRunning) /\ validate(cfRunning)
  /\ cfPhase \in {"build", "apply"} => IsConfig(cfLoaded) /\ validate(cfLoaded)

\* The defaults are valid.
LEMMA DefaultIsValid == IsConfig(default_config) /\ validate(default_config)
<1>1. PICK config : config = default_config OBVIOUS
<1>2. /\ DOMAIN config = {"gateway", "agents", "models", "channels", "hooks", "session",
                          "logging", "media", "security", "others"}
      /\ DOMAIN config.channels = {} BY <1>1 DEF default_config
<1>3. /\ config.gateway.auth = "none" /\ config.gateway.bind = "loopback"
      /\ config.gateway.max_connections = 64 /\ config.gateway.max_bytes = 4
      /\ config.agents.default \in config.agents.defs /\ config.models.default_model = "absent"
      /\ config.models.providers = <<>> /\ ~config.hooks.enabled
  BY <1>1 DEF default_config
<1>4. DOMAIN config.models.providers = {} BY <1>3
<1>5. IsConfig(config) BY <1>2 DEF IsConfig
<1>6. auth_valid(config.gateway) BY <1>3 DEF auth_valid
<1>7. Distinct(config.models.providers) BY <1>4 DEF Distinct
<1>8. channels_valid(config) BY <1>2 DEF channels_valid
<1>9. parsed_mappings_ok(config.hooks) BY <1>3 DEF parsed_mappings_ok
<1>10. validate(config) BY <1>3, <1>4, <1>6, <1>7, <1>8, <1>9 DEF validate
<1> QED BY <1>1, <1>5, <1>10

\* What the watcher mixes from the running configuration and a valid file is valid: an enabled
\* channel keeps its accounts and gets a policy that was checked whether or not the file enables it.
LEMMA MergeIsValid ==
  ASSUME NEW current, NEW next, IsConfig(current), IsConfig(next), validate(current), validate(next)
  PROVE  IsConfig(merge_reloadable_config(current, next)) /\ validate(merge_reloadable_config(current, next))
<1> DEFINE Mixed(c) == IF c \in DOMAIN next.channels
                       THEN [current.channels[c] EXCEPT !.extra = next.channels[c].extra]
                       ELSE current.channels[c]
<1>1. PICK merged : merged = merge_reloadable_config(current, next) OBVIOUS
<1>2. /\ DOMAIN merged = DOMAIN current /\ merged.gateway = next.gateway /\ merged.hooks = next.hooks
      /\ merged.agents = current.agents /\ merged.models = current.models
      /\ merged.channels = [c \in DOMAIN current.channels |-> Mixed(c)]
  BY <1>1 DEF merge_reloadable_config, IsConfig
<1>3. ASSUME NEW c \in DOMAIN current.channels
      PROVE  /\ DOMAIN Mixed(c) = {"enabled", "accounts", "extra"}
             /\ Mixed(c).enabled = current.channels[c].enabled /\ Mixed(c).accounts = current.channels[c].accounts
             /\ Mixed(c).extra = (IF c \in DOMAIN next.channels THEN next.channels[c].extra ELSE current.channels[c].extra)
  BY DEF IsConfig
<1>4. ASSUME NEW c \in DOMAIN current.channels
      PROVE  security_policy_ok(Mixed(c).extra) /\ validate_channel_config(c, Mixed(c))
  <2>1. security_policy_ok(current.channels[c].extra) /\ validate_channel_config(c, current.channels[c])
    BY DEF validate, channels_valid
  <2>2. c \in DOMAIN next.channels => security_policy_ok(next.channels[c].extra) BY DEF validate, channels_valid
  <2>3. security_policy_ok(Mixed(c).extra)
    <3> HIDE DEF Mixed
    <3>1. CASE c \in DOMAIN next.channels BY <1>3, <2>2, <3>1
    <3>2. CASE c \notin DOMAIN next.channels BY <1>3, <2>1, <3>2
    <3> QED BY <3>1, <3>2
  <2>4. validate_channel_config(c, Mixed(c))
    <3> HIDE DEF Mixed
    <3> QED BY <1>3, <2>1 DEF validate_channel_config
  <2> QED BY <2>3, <2>4
<1> HIDE DEF Mixed
<1>5. DOMAIN merged.channels = DOMAIN current.channels /\ \A c \in DOMAIN current.channels : merged.channels[c] = Mixed(c) BY <1>2
<1>6. channels_valid(merged) BY <1>4, <1>5 DEF channels_valid
<1>7. IsConfig(merged) BY <1>2, <1>3, <1>5 DEF IsConfig
<1>8. validate(merged) BY <1>2, <1>6 DEF validate
<1> QED BY <1>1, <1>7, <1>8

LEMMA ReloadKept == CfInv /\ [CfNext]_cfVars => CfInv'
<1> SUFFICES ASSUME CfInv, [CfNext]_cfVars PROVE CfInv'
  OBVIOUS
<1>f. cfFile.state # "broken" => IsConfig(load_or_default(cfFile))
  BY CfConstants, DefaultIsValid DEF CfConstants, CfInv, load_or_default
<1>1. CASE UNCHANGED cfVars BY <1>1 DEF cfVars, CfInv
<1>2. ASSUME NEW file \in CfFiles, CfEdit(file) PROVE CfInv' BY <1>2 DEF CfEdit, CfInv
<1>3. CASE CfStart BY <1>3, <1>f DEF CfStart, CfInv
<1>4. CASE CfBuild BY <1>4 DEF CfBuild, CfInv
<1>5. CASE CfFirstStamp BY <1>5 DEF CfFirstStamp, CfInv
<1>6. CASE CfTick BY <1>6 DEF CfTick, CfInv
<1>7. CASE CfRead BY <1>7, <1>f DEF CfRead, CfInv
<1>8. CASE CfApply BY <1>8, MergeIsValid DEF CfApply, CfInv
<1>9. CASE CfStop BY <1>9 DEF CfStop, CfInv
<1> QED BY <1>1, <1>2, <1>3, <1>4, <1>5, <1>6, <1>7, <1>8, <1>9 DEF CfNext, CfWatcher

\* The running configuration always passes validate, although the watcher mixes it from several
\* files that were each validated alone: for any files and any edits of them
\* (merge_reloadable_config, core/config.rs validate).
THEOREM ReloadKeepsValid == CfSpec => []RunningIsValid
<1>1. CfInit => CfInv BY DefaultIsValid DEF CfInit, CfNotStarted, CfInv
<1>2. CfInv => RunningIsValid BY DEF CfInv, RunningIsValid
<1> QED BY <1>1, <1>2, ReloadKept, PTL DEF CfSpec

----------------------------------------------------------------------------
(* The context of a turn: what the fold of each pass has made of the first n *)
(* messages of a transcript.                                                *)

\* Tool messages follow a request or another tool message: what Repair makes of a transcript.
Local(ms) ==
  \A i \in 1..Len(ms) : ms[i].role = "tool" =>
    i > 1 /\ (ms[i - 1].calls # "none" \/ ms[i - 1].role = "tool")

\* What has become of the first n messages: at every place messages stand for rows of messages
\* at that place or after it, each for its own.
Covers(new, ms, n) ==
  /\ new \in Seq(Message) /\ Len(new) <= n /\ (OwnRows(ms) => OwnRows(new))
  /\ \A i \in 1..Len(new) : \A r \in new[i].rows : \E j \in i..n : r \in ms[j].rows

\* The fold of Repair, message by message.
LEMMA RepairFolds ==
  ASSUME NEW ms \in Seq(Message)
  PROVE  \E f \in [0..Len(ms) -> Seq(Message)] :
           /\ f[0] = <<>> /\ f[Len(ms)] = FoldLeft(Anchor, <<>>, ms)
           /\ \A n \in 1..Len(ms) : f[n] = Anchor(f[n - 1], ms[n])
<1> DEFINE N == Len(ms)
           T == Seq(Message)
           b == <<>>
           G == [x \in T \X (1..N) |-> Anchor(x[1], ms[x[2]])]
           Eq(h) == h = [s \in SUBSET (DOMAIN ms) |-> IF s = {} THEN b ELSE Anchor(h[s \ {Max(s)}], ms[Max(s)])]
           h == CHOOSE h : Eq(h)
           v == FoldLeft(Anchor, b, ms)
<1>1. N \in Nat /\ DOMAIN ms = 1..N OBVIOUS
<1>2. b \in T /\ G \in [T \X (1..N) -> T] BY DEF Anchor
<1>3. \A s \in SUBSET (1..N) : s # {} => Max(s) \in 1..N
  <2> HIDE DEF N
  <2>1. \A s \in SUBSET (1..N) : s \in SUBSET (0..N) BY <1>1
  <2> QED BY <1>1, <2>1, FirstAndLast
<1>4. \E g : Eq(g)
  <2>1. PICK g : Iterates(g, N, T, b, G)
    <3> HIDE DEF G, T, N, b
    <3> QED BY <1>1, <1>2, FoldIterates
  <2>2. \A s \in SUBSET (1..N) : s # {} => g[s] = Anchor(g[s \ {Max(s)}], ms[Max(s)]) BY <1>3, <2>1 DEF Iterates
  <2> QED BY <1>1, <2>1, <2>2 DEF Iterates
<1>5. Eq(h) BY <1>4
<1>6. v = h[1..N] BY <1>1 DEF FoldLeft, MapThenFoldSet
<1> HIDE DEF h, v
<1>7. Recurs(h, N, T, b, G, v)
  BY <1>1, <1>3, <1>5, <1>6 DEF Recurs
<1>8. PICK f : Stepwise(f, N, T, b, G, v)
  <2> HIDE DEF G, T, N, b, Eq
  <2>1. N \in Nat /\ b \in T /\ G \in [T \X (1..N) -> T] /\ Recurs(h, N, T, b, G, v) BY <1>1, <1>2, <1>7
  <2>2. \E f : Stepwise(f, N, T, b, G, v) BY <2>1, FoldSteps
  <2> QED BY <2>2
<1>9. ASSUME NEW n \in 1..N PROVE f[n] = Anchor(f[n - 1], ms[n])
  <2>1. n - 1 \in 0..N BY <1>1
  <2>2. f[n - 1] \in T BY <1>8, <2>1 DEF Stepwise
  <2> QED BY <1>8, <2>2 DEF Stepwise
<1> QED BY <1>8, <1>9 DEF Stepwise, v

\* What joining makes of the messages so far.
LEMMA JoinedIs ==
  ASSUME NEW done \in Seq(Message), NEW m \in Message
  PROVE  \/ Joined(done, m) = Append(done, m)
         \/ /\ done # <<>> /\ m.role # "tool" /\ done[Len(done)].role = m.role
            /\ Joined(done, m) \in Seq(Message) /\ Len(Joined(done, m)) = Len(done)
            /\ \A i \in 1..(Len(done) - 1) : Joined(done, m)[i] = done[i]
            /\ \E x \in Message :
                 /\ Joined(done, m)[Len(done)] = x
                 /\ x.role = m.role /\ x.rows = done[Len(done)].rows \cup m.rows
                 /\ x.size = done[Len(done)].size + m.size
                 /\ (x.calls = "none" <=> done[Len(done)].calls = "none" /\ m.calls = "none")
<1> DEFINE last == done[Len(done)]
           x == [last EXCEPT !.size = @ + m.size, !.rows = @ \cup m.rows, !.calls = IF m.calls = "none" THEN @ ELSE m.calls]
<1> SUFFICES ASSUME Joined(done, m) # Append(done, m)
             PROVE  /\ done # <<>> /\ m.role # "tool" /\ last.role = m.role
                    /\ Joined(done, m) \in Seq(Message) /\ Len(Joined(done, m)) = Len(done)
                    /\ \A i \in 1..(Len(done) - 1) : Joined(done, m)[i] = done[i]
                    /\ \E y \in Message :
                         /\ Joined(done, m)[Len(done)] = y
                         /\ y.role = m.role /\ y.rows = last.rows \cup m.rows
                         /\ y.size = last.size + m.size
                         /\ (y.calls = "none" <=> last.calls = "none" /\ m.calls = "none")
  OBVIOUS
<1>1. done # <<>> /\ m.role # "tool" /\ last.role = m.role /\ Joined(done, m) = Append(Front(done), x)
  BY DEF Joined, Last
<1>2. Len(done) \in Nat \ {0} /\ last \in Message BY <1>1
<1>3. /\ x \in Message /\ x.role = m.role /\ x.rows = last.rows \cup m.rows /\ x.size = last.size + m.size
      /\ (x.calls = "none" <=> last.calls = "none" /\ m.calls = "none")
  <2>1. m.size \in Nat /\ last.size \in Nat /\ last.size + m.size \in Nat BY <1>2 DEF Message
  <2>2. last.rows \cup m.rows \in SUBSET (Nat \ {0}) BY <1>2 DEF Message
  <2>3. x.role = last.role /\ x.rows = last.rows \cup m.rows /\ x.size = last.size + m.size
        /\ x.calls = (IF m.calls = "none" THEN last.calls ELSE m.calls)
    BY <1>2 DEF Message
  <2>4. x.calls \in {"none", "text", "structured"} BY <1>2, <2>3 DEF Message
  <2>5. x \in Message
    <3>1. x \in [role : {"system", "user", "assistant", "tool"}, calls : {"none", "text", "structured"},
                 size : Nat, rows : SUBSET (Nat \ {0})]
      BY <1>2, <2>1, <2>2, <2>4 DEF Message
    <3>2. /\ last.calls # "none" => last.role = "assistant"
          /\ m.calls # "none" => m.role = "assistant"
      BY <1>2 DEF Message
    <3> HIDE DEF x, last
    <3>3. x.calls # "none" => x.role = "assistant" BY <1>1, <2>3, <3>2
    <3> QED BY <3>1, <3>3 DEF Message
  <2> HIDE DEF x
  <2> QED BY <1>1, <2>3, <2>5
<1> HIDE DEF x
<1>4. /\ Front(done) \in Seq(Message) /\ Len(Front(done)) = Len(done) - 1
      /\ \A i \in 1..(Len(done) - 1) : Front(done)[i] = done[i]
  <2>1. Front(done) = SubSeq(done, 1, Len(done) - 1) BY DEF Front
  <2> DEFINE n == Len(done) - 1
  <2>2. n \in Nat /\ n <= Len(done) /\ 1 <= n + 1 /\ n + 1 - 1 = n BY <1>2
  <2>3. \A i \in 1..n : 1 + i - 1 = i BY <2>2
  <2>4. /\ SubSeq(done, 1, n) \in Seq(Message) /\ Len(SubSeq(done, 1, n)) = n
        /\ \A i \in 1..n : SubSeq(done, 1, n)[i] = done[i]
    <3> HIDE DEF n
    <3>1. /\ SubSeq(done, 1, n) \in Seq(Message) /\ Len(SubSeq(done, 1, n)) = n + 1 - 1
          /\ \A i \in 1..(n + 1 - 1) : SubSeq(done, 1, n)[i] = done[1 + i - 1]
      BY <2>2, SubSeqIs
    <3> QED BY <2>2, <2>3, <3>1
  <2> QED BY <2>1, <2>4
<1>5. /\ Append(Front(done), x) \in Seq(Message) /\ Len(Append(Front(done), x)) = Len(done)
      /\ Append(Front(done), x)[Len(done)] = x
      /\ \A i \in 1..(Len(done) - 1) : Append(Front(done), x)[i] = done[i]
  <2>1. Append(Front(done), x)[Len(Front(done)) + 1] = x BY <1>3, <1>4
  <2> QED BY <1>2, <1>3, <1>4, <2>1
<1> QED BY <1>1, <1>3, <1>5

\* One more message is read and left out.
LEMMA CoversOmit ==
  ASSUME NEW ms \in Seq(Message), NEW n \in 1..Len(ms), NEW new, Covers(new, ms, n - 1)
  PROVE  Covers(new, ms, n)
<1>1. n \in Nat /\ new \in Seq(Message) BY DEF Covers
<1>2. \A i \in 1..Len(new) : i..(n - 1) \subseteq i..n BY <1>1
<1> QED BY <1>1, <1>2 DEF Covers

\* One more message is read and appended.
LEMMA CoversAppend ==
  ASSUME NEW ms \in Seq(Message), NEW n \in 1..Len(ms), NEW new, Covers(new, ms, n - 1)
  PROVE  Covers(Append(new, ms[n]), ms, n)
<1> DEFINE app == Append(new, ms[n])
           L == Len(new)
<1>1. n \in Nat \ {0} /\ new \in Seq(Message) /\ ms[n] \in Message /\ L \in Nat /\ L <= n - 1 BY DEF Covers
<1>2. app \in Seq(Message) /\ Len(app) = L + 1 /\ app[L + 1] = ms[n] /\ \A i \in 1..L : app[i] = new[i] BY <1>1
<1>3. \A i \in 1..(L + 1) : i = L + 1 \/ i \in 1..L BY <1>1
<1>4. \A i \in 1..L : \A r \in app[i].rows : \E j \in i..(n - 1) : r \in ms[j].rows BY <1>2 DEF Covers
<1> HIDE DEF app
<1>5. ASSUME NEW i \in 1..Len(app), NEW r \in app[i].rows PROVE \E j \in i..n : r \in ms[j].rows
  <2>1. CASE i = L + 1
    <3>1. n \in i..n BY <1>1, <2>1
    <3> QED BY <1>2, <2>1, <3>1
  <2>2. CASE i \in 1..L
    <3>1. PICK j \in i..(n - 1) : r \in ms[j].rows BY <1>4, <2>2
    <3>2. j \in i..n BY <1>1, <3>1
    <3> QED BY <3>1, <3>2
  <2> QED BY <1>2, <1>3, <2>1, <2>2
<1>6. ASSUME OwnRows(ms) PROVE OwnRows(app)
  <2>1. OwnRows(new) /\ DOMAIN new = 1..L /\ DOMAIN app = 1..(L + 1) /\ DOMAIN ms = 1..Len(ms)
    BY <1>1, <1>2, <1>6 DEF Covers
  <2>2. ASSUME NEW i \in 1..L PROVE app[i].rows \cap ms[n].rows = {}
    <3>1. \A j \in i..(n - 1) : j \in 1..Len(ms) /\ j # n BY <1>1
    <3>2. \A j \in i..(n - 1) : ms[j].rows \cap ms[n].rows = {} BY <1>6, <2>1, <3>1 DEF OwnRows
    <3> QED BY <1>4, <3>2
  <2>3. \A i, j \in 1..L : i # j => app[i].rows \cap app[j].rows = {} BY <1>2, <2>1 DEF OwnRows
  <2> QED BY <1>2, <1>3, <2>1, <2>2, <2>3 DEF OwnRows
<1>7. Len(app) <= n BY <1>1, <1>2
<1>8. Covers(app, ms, n) BY <1>2, <1>5, <1>6, <1>7 DEF Covers
<1> QED BY <1>8 DEF app

\* One more message is read and joined to the last one.
LEMMA CoversJoin ==
  ASSUME NEW ms \in Seq(Message), NEW n \in 1..Len(ms), NEW old, Covers(old, ms, n - 1), old # <<>>,
         NEW new \in Seq(Message), Len(new) = Len(old),
         \A i \in 1..(Len(old) - 1) : new[i] = old[i],
         new[Len(old)].rows = old[Len(old)].rows \cup ms[n].rows
  PROVE  Covers(new, ms, n)
<1> DEFINE L == Len(old)
<1>1. n \in Nat \ {0} /\ old \in Seq(Message) /\ L \in Nat \ {0} /\ L <= n - 1 BY DEF Covers
<1>2. \A i \in 1..L : \A r \in old[i].rows : \E j \in i..(n - 1) : r \in ms[j].rows BY DEF Covers
<1>3. \A i \in 1..L : i = L \/ i \in 1..(L - 1) BY <1>1
<1>4. ASSUME NEW i \in 1..Len(new), NEW r \in new[i].rows PROVE \E j \in i..n : r \in ms[j].rows
  <2>1. CASE r \in old[i].rows
    <3>1. PICK j \in i..(n - 1) : r \in ms[j].rows BY <1>2, <2>1
    <3>2. j \in i..n BY <1>1, <3>1
    <3> QED BY <3>1, <3>2
  <2>2. CASE r \notin old[i].rows
    <3>1. i = L /\ r \in ms[n].rows BY <1>3, <2>2
    <3>2. n \in i..n BY <1>1, <3>1
    <3> QED BY <3>1, <3>2
  <2> QED BY <2>1, <2>2
<1>5. ASSUME OwnRows(ms) PROVE OwnRows(new)
  <2>1. OwnRows(old) /\ DOMAIN new = 1..L /\ DOMAIN old = 1..L /\ DOMAIN ms = 1..Len(ms)
    BY <1>1, <1>5 DEF Covers
  <2>2. ASSUME NEW i \in 1..L PROVE old[i].rows \cap ms[n].rows = {}
    <3>1. \A j \in i..(n - 1) : j \in 1..Len(ms) /\ j # n BY <1>1
    <3>2. \A j \in i..(n - 1) : ms[j].rows \cap ms[n].rows = {} BY <1>5, <2>1, <3>1 DEF OwnRows
    <3> QED BY <1>2, <3>2
  <2>3. \A i, j \in 1..L : i # j => old[i].rows \cap old[j].rows = {} BY <2>1 DEF OwnRows
  <2>4. ASSUME NEW i \in 1..L, NEW j \in 1..L, i # j PROVE new[i].rows \cap new[j].rows = {}
    <3>1. old[i].rows \cap old[j].rows = {} /\ old[i].rows \cap ms[n].rows = {} /\ old[j].rows \cap ms[n].rows = {}
      BY <2>2, <2>3, <2>4
    <3>2. new[i].rows = old[i].rows \/ (i = L /\ new[i].rows = old[i].rows \cup ms[n].rows) BY <1>3
    <3>3. new[j].rows = old[j].rows \/ (j = L /\ new[j].rows = old[j].rows \cup ms[n].rows) BY <1>3
    <3> QED BY <2>4, <3>1, <3>2, <3>3
  <2> QED BY <2>1, <2>4 DEF OwnRows
<1> QED BY <1>1, <1>4, <1>5 DEF Covers

\* The fold of Merge, message by message.
LEMMA MergeFolds ==
  ASSUME NEW ms \in Seq(Message)
  PROVE  \E f \in [0..Len(ms) -> Seq(Message)] :
           /\ f[0] = <<>> /\ f[Len(ms)] = Merge(ms)
           /\ \A n \in 1..Len(ms) : f[n] = Joined(f[n - 1], ms[n])
<1> DEFINE N == Len(ms)
           T == Seq(Message)
           b == <<>>
           G == [x \in T \X (1..N) |-> Joined(x[1], ms[x[2]])]
           Eq(h) == h = [s \in SUBSET (DOMAIN ms) |-> IF s = {} THEN b ELSE Joined(h[s \ {Max(s)}], ms[Max(s)])]
           h == CHOOSE h : Eq(h)
           v == FoldLeft(Joined, b, ms)
<1>1. N \in Nat /\ DOMAIN ms = 1..N OBVIOUS
<1>2. b \in T /\ G \in [T \X (1..N) -> T]
  <2>1. ASSUME NEW done \in T, NEW k \in 1..N PROVE Joined(done, ms[k]) \in T
    <3>1. ms[k] \in Message BY <1>1
    <3>2. Append(done, ms[k]) \in T BY <3>1
    <3> QED BY <3>1, <3>2, JoinedIs
  <2>2. \A x \in T \X (1..N) : x[1] \in T /\ x[2] \in 1..N OBVIOUS
  <2> HIDE DEF T
  <2>3. \A x \in T \X (1..N) : Joined(x[1], ms[x[2]]) \in T BY <2>1, <2>2
  <2>4. G \in [T \X (1..N) -> T] BY <2>3
  <2> QED BY <2>4 DEF T
<1>3. \A s \in SUBSET (1..N) : s # {} => Max(s) \in 1..N
  <2> HIDE DEF N
  <2>1. \A s \in SUBSET (1..N) : s \in SUBSET (0..N) BY <1>1
  <2> QED BY <1>1, <2>1, FirstAndLast
<1>4. \E g : Eq(g)
  <2>1. PICK g : Iterates(g, N, T, b, G)
    <3> HIDE DEF G, T, N, b
    <3> QED BY <1>1, <1>2, FoldIterates
  <2>2. \A s \in SUBSET (1..N) : s # {} => g[s] = Joined(g[s \ {Max(s)}], ms[Max(s)]) BY <1>3, <2>1 DEF Iterates
  <2> QED BY <1>1, <2>1, <2>2 DEF Iterates
<1>5. Eq(h) BY <1>4
<1>6. v = h[1..N] BY <1>1 DEF FoldLeft, MapThenFoldSet
<1> HIDE DEF h, v
<1>7. Recurs(h, N, T, b, G, v)
  BY <1>1, <1>3, <1>5, <1>6 DEF Recurs
<1>8. PICK f : Stepwise(f, N, T, b, G, v)
  <2> HIDE DEF G, T, N, b, Eq
  <2>1. N \in Nat /\ b \in T /\ G \in [T \X (1..N) -> T] /\ Recurs(h, N, T, b, G, v) BY <1>1, <1>2, <1>7
  <2>2. \E f : Stepwise(f, N, T, b, G, v) BY <2>1, FoldSteps
  <2> QED BY <2>2
<1>9. ASSUME NEW n \in 1..N PROVE f[n] = Joined(f[n - 1], ms[n])
  <2>1. n - 1 \in 0..N BY <1>1
  <2>2. f[n - 1] \in T BY <1>8, <2>1 DEF Stepwise
  <2> QED BY <1>8, <2>2 DEF Stepwise
<1> QED BY <1>8, <1>9 DEF Stepwise, v, Merge

\* A message after one that may come before it.
LEMMA LocalAppend ==
  ASSUME NEW ms \in Seq(Message), Local(ms), NEW m \in Message,
         m.role = "tool" => ms # <<>> /\ (ms[Len(ms)].calls # "none" \/ ms[Len(ms)].role = "tool")
  PROVE  Append(ms, m) \in Seq(Message) /\ Local(Append(ms, m))
<1> DEFINE app == Append(ms, m)
           L == Len(ms)
<1>1. L \in Nat /\ app \in Seq(Message) /\ Len(app) = L + 1 /\ app[L + 1] = m /\ \A i \in 1..L : app[i] = ms[i] OBVIOUS
<1>2. ms # <<>> => L # 0 OBVIOUS
<1> SUFFICES ASSUME NEW i \in 1..(L + 1), app[i].role = "tool"
             PROVE  i > 1 /\ (app[i - 1].calls # "none" \/ app[i - 1].role = "tool")
  BY <1>1 DEF Local
<1> HIDE DEF app
<1>3. CASE i = L + 1
  <2>1. m.role = "tool" BY <1>1, <1>3
  <2>2. L # 0 /\ (ms[L].calls # "none" \/ ms[L].role = "tool") BY <1>2, <2>1
  <2>3. i - 1 = L /\ L \in 1..L /\ i > 1 BY <1>1, <1>3, <2>2
  <2> QED BY <1>1, <2>2, <2>3
<1>4. CASE i \in 1..L
  <2>1. ms[i].role = "tool" BY <1>1, <1>4
  <2>2. i > 1 /\ (ms[i - 1].calls # "none" \/ ms[i - 1].role = "tool") BY <1>4, <2>1 DEF Local
  <2>3. i - 1 \in 1..L BY <1>1, <1>4, <2>2
  <2> QED BY <1>1, <2>2, <2>3
<1>5. i = L + 1 \/ i \in 1..L BY <1>1
<1> QED BY <1>3, <1>4, <1>5

\* A stretch that begins with no result.
LEMMA LocalPart ==
  ASSUME NEW ms \in Seq(Message), Local(ms), NEW a \in Nat \ {0}, NEW b \in Nat, b <= Len(ms), a <= b + 1,
         a <= b => ms[a].role # "tool"
  PROVE  Local(SubSeq(ms, a, b))
<1> DEFINE s == SubSeq(ms, a, b)
<1>1. Len(s) = b + 1 - a /\ \A i \in 1..(b + 1 - a) : s[i] = ms[a + i - 1] BY SubSeqIs
<1> SUFFICES ASSUME NEW i \in 1..(b + 1 - a), s[i].role = "tool"
             PROVE  i > 1 /\ (s[i - 1].calls # "none" \/ s[i - 1].role = "tool")
  BY <1>1 DEF Local
<1> HIDE DEF s
<1>2. a + i - 1 \in 1..Len(ms) /\ ms[a + i - 1].role = "tool" /\ a <= b BY <1>1
<1>3. i # 1
  <2> SUFFICES ASSUME i = 1 PROVE FALSE OBVIOUS
  <2>1. a + i - 1 = a OBVIOUS
  <2> QED BY <1>2, <2>1
<1>4. i > 1 /\ i - 1 \in 1..(b + 1 - a) /\ a + (i - 1) - 1 = (a + i - 1) - 1 BY <1>3
<1>5. ms[(a + i - 1) - 1].calls # "none" \/ ms[(a + i - 1) - 1].role = "tool" BY <1>2 DEF Local
<1> QED BY <1>1, <1>4, <1>5

LEMMA OwnRowsPart ==
  ASSUME NEW ms \in Seq(Message), OwnRows(ms), NEW a \in Nat \ {0}, NEW b \in Nat, b <= Len(ms), a <= b + 1
  PROVE  OwnRows(SubSeq(ms, a, b))
<1> DEFINE s == SubSeq(ms, a, b)
<1>1. s \in Seq(Message) /\ Len(s) = b + 1 - a /\ \A i \in 1..(b + 1 - a) : s[i] = ms[a + i - 1] BY SubSeqIs
<1>2. \A i \in 1..(b + 1 - a) : a + i - 1 \in 1..Len(ms) OBVIOUS
<1>3. \A i, j \in 1..(b + 1 - a) : i # j => a + i - 1 # a + j - 1 OBVIOUS
<1>4. DOMAIN s = 1..(b + 1 - a) /\ DOMAIN ms = 1..Len(ms) BY <1>1
<1> HIDE DEF s
<1>5. ASSUME NEW i \in 1..(b + 1 - a), NEW j \in 1..(b + 1 - a), i # j PROVE s[i].rows \cap s[j].rows = {}
  BY <1>1, <1>2, <1>3, <1>4, <1>5 DEF OwnRows
<1>6. OwnRows(s) BY <1>4, <1>5 DEF OwnRows
<1> QED BY <1>6 DEF s

\* The first messages of what covers a transcript cover it as well.
LEMMA CoversFront ==
  ASSUME NEW ms, NEW n \in Nat, NEW new, Covers(new, ms, n), NEW e \in 0..Len(new)
  PROVE  Covers(SubSeq(new, 1, e), ms, n)
<1> DEFINE s == SubSeq(new, 1, e)
<1>1. new \in Seq(Message) /\ Len(new) <= n /\ Len(new) \in Nat BY DEF Covers
<1>2. 1 \in Nat \ {0} /\ e \in Nat /\ e <= Len(new) /\ 1 <= e + 1 /\ e + 1 - 1 = e BY <1>1
<1>3. \A i \in 1..e : 1 + i - 1 = i /\ i \in 1..Len(new) BY <1>1
<1>4. s \in Seq(Message) /\ Len(s) = e + 1 - 1 /\ \A i \in 1..(e + 1 - 1) : s[i] = new[1 + i - 1] BY <1>1, <1>2, SubSeqIs
<1>5. OwnRows(new) => OwnRows(s) BY <1>1, <1>2, OwnRowsPart
<1> HIDE DEF s
<1>6. Len(s) <= n /\ \A i \in 1..Len(s) : i \in 1..Len(new) /\ s[i] = new[i] BY <1>1, <1>2, <1>3, <1>4
<1>7. Covers(s, ms, n) BY <1>4, <1>5, <1>6 DEF Covers
<1> QED BY <1>7 DEF s

LEMMA CoversTransitive ==
  ASSUME NEW ms, NEW n \in Nat, NEW mid, Covers(mid, ms, n), NEW new, Covers(new, mid, Len(mid))
  PROVE  Covers(new, ms, n)
<1>1. Len(new) \in Nat /\ Len(mid) \in Nat /\ Len(new) <= n BY DEF Covers
<1>2. ASSUME NEW i \in 1..Len(new), NEW r \in new[i].rows PROVE \E j \in i..n : r \in ms[j].rows
  <2>1. PICK j \in i..Len(mid) : r \in mid[j].rows BY DEF Covers
  <2>2. j \in 1..Len(mid) BY <1>1, <2>1
  <2>3. PICK k \in j..n : r \in ms[k].rows BY <2>1, <2>2 DEF Covers
  <2>4. k \in i..n BY <1>1, <2>1, <2>3
  <2> QED BY <2>3, <2>4
<1> QED BY <1>1, <1>2 DEF Covers

\* repair_tool_pairing: results stay with their requests, nothing is moved or invented, and a
\* message without calls at the end is kept.
LEMMA RepairIs ==
  ASSUME NEW ms \in Seq(Message)
  PROVE  /\ Repair(ms) \in Seq(Message) /\ Local(Repair(ms)) /\ Covers(Repair(ms), ms, Len(ms))
         /\ ms # <<>> /\ ms[Len(ms)].role # "tool" /\ ms[Len(ms)].calls = "none" =>
              Repair(ms) # <<>> /\ Repair(ms)[Len(Repair(ms))] = ms[Len(ms)]
<1> DEFINE N == Len(ms)
<1>1. PICK f \in [0..N -> Seq(Message)] :
        /\ f[0] = <<>> /\ f[N] = FoldLeft(Anchor, <<>>, ms)
        /\ \A n \in 1..N : f[n] = Anchor(f[n - 1], ms[n])
  BY RepairFolds
<1>2. N \in Nat /\ \A n \in 1..N : ms[n] \in Message OBVIOUS
<1>3. \A n \in 0..N : Local(f[n]) /\ Covers(f[n], ms, n)
  <2> DEFINE H == {n \in 0..N : Local(f[n]) /\ Covers(f[n], ms, n)}
  <2>1. 0 \in H BY <1>1, <1>2 DEF Local, Covers, OwnRows
  <2>2. ASSUME NEW n \in 0..(N - 1), n \in H PROVE n + 1 \in H
    <3>1. n + 1 \in 1..N /\ n + 1 - 1 = n /\ n \in 0..N /\ n + 1 \in 0..N BY <1>2
    <3>2. f[n] \in Seq(Message) /\ Local(f[n]) /\ Covers(f[n], ms, n + 1 - 1) /\ ms[n + 1] \in Message
          /\ f[n + 1] = Anchor(f[n], ms[n + 1])
      <4>1. f[n] \in Seq(Message) BY <1>1, <3>1
      <4>2. Local(f[n]) /\ Covers(f[n], ms, n) BY <2>2
      <4>3. ms[n + 1] \in Message BY <1>2, <3>1
      <4> HIDE DEF N, H
      <4>4. f[n + 1] = Anchor(f[n + 1 - 1], ms[n + 1]) BY <1>1, <3>1
      <4>5. n + 1 - 1 = n BY <3>1
      <4> QED BY <4>1, <4>2, <4>3, <4>4, <4>5
    <3> HIDE DEF N
    <3>3. CASE /\ ms[n + 1].role = "tool"
               /\ ~(f[n] # <<>> /\ (f[n][Len(f[n])].calls # "none" \/ f[n][Len(f[n])].role = "tool"))
      <4>1. f[n + 1] = f[n] BY <3>2, <3>3 DEF Anchor, Last
      <4>2. Covers(f[n], ms, n + 1) BY <3>1, <3>2, CoversOmit DEF N
      <4> QED BY <3>1, <3>2, <4>1, <4>2
    <3>4. CASE ms[n + 1].role = "tool" => f[n] # <<>> /\ (f[n][Len(f[n])].calls # "none" \/ f[n][Len(f[n])].role = "tool")
      <4>1. f[n + 1] = Append(f[n], ms[n + 1]) BY <3>2, <3>4 DEF Anchor, Last
      <4>2. Covers(Append(f[n], ms[n + 1]), ms, n + 1) BY <3>1, <3>2, CoversAppend DEF N
      <4>3. Local(Append(f[n], ms[n + 1])) BY <3>2, <3>4, LocalAppend
      <4> QED BY <3>1, <4>1, <4>2, <4>3
    <3> QED BY <3>3, <3>4
  <2>3. \A n \in 0..N : n \in H
    <3> HIDE DEF H, N
    <3> QED BY <1>2, <2>1, <2>2, InductionUpTo
  <2> QED BY <2>3
<1> DEFINE an == FoldLeft(Anchor, <<>>, ms)
           ends == {n \in 0..Len(an) : n = 0 \/ an[n].calls = "none"}
           e == Max(ends)
<1>4. an \in Seq(Message) /\ Local(an) /\ Covers(an, ms, N)
  <2>1. N \in 0..N BY <1>2
  <2> QED BY <1>1, <1>3, <2>1
<1>5. Repair(ms) = SubSeq(an, 1, e) BY DEF Repair
<1> HIDE DEF an
<1>6. e \in ends /\ \A x \in ends : e >= x
  <2>1. Len(an) \in Nat /\ ends \in SUBSET (0..Len(an)) /\ 0 \in ends BY <1>4
  <2> HIDE DEF ends
  <2> QED BY <2>1, FirstAndLast
<1>7. e \in 0..Len(an) /\ Len(an) \in Nat BY <1>4, <1>6
<1>8. Repair(ms) \in Seq(Message) /\ Len(Repair(ms)) = e /\ \A i \in 1..e : Repair(ms)[i] = an[i]
  <2> HIDE DEF e
  <2>1. 1 \in Nat \ {0} /\ e \in Nat /\ e <= Len(an) /\ 1 <= e + 1 /\ e + 1 - 1 = e BY <1>7
  <2>2. \A i \in 1..e : 1 + i - 1 = i BY <2>1
  <2>3. /\ SubSeq(an, 1, e) \in Seq(Message) /\ Len(SubSeq(an, 1, e)) = e + 1 - 1
        /\ \A i \in 1..(e + 1 - 1) : SubSeq(an, 1, e)[i] = an[1 + i - 1]
    BY <1>4, <2>1, SubSeqIs
  <2> QED BY <1>5, <2>1, <2>2, <2>3
<1>9. Local(Repair(ms))
  <2> HIDE DEF e
  <2>1. 1 \in Nat \ {0} /\ e \in Nat /\ e <= Len(an) /\ 1 <= e + 1 BY <1>7
  <2>2. 1 <= e => an[1].role # "tool"
    <3>1. 1 <= e => 1 \in 1..Len(an) BY <1>7
    <3> QED BY <1>4, <3>1 DEF Local
  <2> QED BY <1>4, <1>5, <2>1, <2>2, LocalPart
<1>10. Covers(Repair(ms), ms, N)
  <2> HIDE DEF e
  <2> QED BY <1>2, <1>4, <1>5, <1>7, CoversFront
<1>11. ASSUME ms # <<>>, ms[N].role # "tool", ms[N].calls = "none"
       PROVE  Repair(ms) # <<>> /\ Repair(ms)[Len(Repair(ms))] = ms[N]
  <2>1. N \in 1..N /\ N - 1 \in 0..N BY <1>11
  <2>2. f[N - 1] \in Seq(Message) /\ an = Append(f[N - 1], ms[N])
    <3>1. an = Anchor(f[N - 1], ms[N]) BY <1>1, <2>1 DEF an
    <3> QED BY <1>1, <1>11, <2>1, <3>1 DEF Anchor
  <2>3. Len(an) >= 1 /\ an[Len(an)] = ms[N] BY <1>2, <2>1, <2>2
  <2>4. Len(an) \in ends BY <1>11, <1>7, <2>3
  <2>5. e = Len(an)
    <3> HIDE DEF e
    <3> QED BY <1>6, <1>7, <2>4 DEF e
  <2> HIDE DEF e
  <2> QED BY <1>7, <1>8, <2>3, <2>5
<1> QED BY <1>8, <1>9, <1>10, <1>11

\* The list g is the merge of the first n messages, as far as its last message tells.
Ends(g, ms, n) ==
  n > 0 => /\ g # <<>> /\ g[Len(g)].role = ms[n].role /\ g[Len(g)].size >= ms[n].size
           /\ (ms[n].calls # "none" => g[Len(g)].calls # "none")

\* One message is merged.
LEMMA JoinedKeeps ==
  ASSUME NEW ms \in Seq(Message), Local(ms), NEW n \in 1..Len(ms), NEW g \in Seq(Message),
         Local(g), Covers(g, ms, n - 1), Ends(g, ms, n - 1)
  PROVE  /\ Local(Joined(g, ms[n])) /\ Covers(Joined(g, ms[n]), ms, n) /\ Ends(Joined(g, ms[n]), ms, n)
<1> DEFINE m == ms[n]
           L == Len(g)
           new == Joined(g, m)
<1>1. n \in Nat \ {0} /\ m \in Message /\ L \in Nat /\ m.size \in Nat /\ m = ms[n]
  <2>1. m \in Message OBVIOUS
  <2>2. m.size \in Nat BY <2>1 DEF Message
  <2> QED BY <2>1, <2>2
<1>2. CASE new = Append(g, m)
  <2>1. m.role = "tool" => g # <<>> /\ (g[L].calls # "none" \/ g[L].role = "tool")
    <3> SUFFICES ASSUME m.role = "tool" PROVE g # <<>> /\ (g[L].calls # "none" \/ g[L].role = "tool") OBVIOUS
    <3>1. n > 1 /\ (ms[n - 1].calls # "none" \/ ms[n - 1].role = "tool") BY DEF Local
    <3>2. n - 1 > 0 BY <1>1, <3>1
    <3> QED BY <3>1, <3>2 DEF Ends
  <2>2. Local(new)
    <3> HIDE DEF m, new
    <3> QED BY <1>1, <1>2, <2>1, LocalAppend
  <2>3. Covers(new, ms, n) BY <1>2, CoversAppend
  <2>4. Append(g, m) # <<>> /\ Append(g, m)[Len(Append(g, m))] = m BY <1>1
  <2>5. Ends(new, ms, n)
    <3> HIDE DEF new
    <3> QED BY <1>1, <1>2, <2>4 DEF Ends
  <2> QED BY <2>2, <2>3, <2>5
<1>3. CASE new # Append(g, m)
  <2>1. /\ g # <<>> /\ m.role # "tool" /\ g[L].role = m.role
        /\ new \in Seq(Message) /\ Len(new) = L
        /\ \A i \in 1..(L - 1) : new[i] = g[i]
        /\ \E x \in Message :
             /\ new[L] = x
             /\ x.role = m.role /\ x.rows = g[L].rows \cup m.rows
             /\ x.size = g[L].size + m.size
             /\ (x.calls = "none" <=> g[L].calls = "none" /\ m.calls = "none")
    <3> HIDE DEF m
    <3> QED BY <1>1, <1>3, JoinedIs
  <2> HIDE DEF new
  <2>2. L # 0 /\ g[L].size \in Nat
    <3>1. L # 0 /\ g[L] \in Message BY <1>1, <2>1
    <3> QED BY <3>1 DEF Message
  <2>3. Local(new)
    <3> SUFFICES ASSUME NEW i \in 1..L, new[i].role = "tool"
                 PROVE  i > 1 /\ (new[i - 1].calls # "none" \/ new[i - 1].role = "tool")
      BY <2>1 DEF Local
    <3>1. i # L BY <2>1
    <3>2. i \in 1..(L - 1) BY <1>1, <3>1
    <3>3. g[i].role = "tool" BY <2>1, <3>2
    <3>4. i > 1 /\ (g[i - 1].calls # "none" \/ g[i - 1].role = "tool") BY <3>3 DEF Local
    <3>5. i - 1 \in 1..(L - 1) BY <1>1, <3>2, <3>4
    <3> QED BY <2>1, <3>4, <3>5
  <2>4. Covers(new, ms, n)
    <3>1. new[L].rows = g[L].rows \cup ms[n].rows BY <2>1
    <3> QED BY <2>1, <3>1, CoversJoin
  <2>5. new # <<>> BY <2>1, <2>2
  <2>6. Ends(new, ms, n)
    <3> HIDE DEF m
    <3>1. new[L].role = m.role /\ new[L].size >= m.size /\ (m.calls # "none" => new[L].calls # "none")
      BY <1>1, <2>1, <2>2
    <3> QED BY <1>1, <2>1, <2>5, <3>1 DEF Ends
  <2> QED BY <2>3, <2>4, <2>6 DEF new
<1> QED BY <1>2, <1>3

\* merge_consecutive_same_role: results stay with their requests, nothing is moved or invented,
\* and the last message is still the end of the last one.
LEMMA MergeIs ==
  ASSUME NEW ms \in Seq(Message), Local(ms)
  PROVE  /\ Merge(ms) \in Seq(Message) /\ Local(Merge(ms)) /\ Covers(Merge(ms), ms, Len(ms))
         /\ Ends(Merge(ms), ms, Len(ms))
<1> DEFINE N == Len(ms)
<1>1. PICK f \in [0..N -> Seq(Message)] :
        /\ f[0] = <<>> /\ f[N] = Merge(ms)
        /\ \A n \in 1..N : f[n] = Joined(f[n - 1], ms[n])
  BY MergeFolds
<1>2. N \in Nat /\ \A n \in 1..N : ms[n] \in Message OBVIOUS
<1> DEFINE H == {n \in 0..N : Local(f[n]) /\ Covers(f[n], ms, n) /\ Ends(f[n], ms, n)}
<1>3. 0 \in H BY <1>1, <1>2 DEF Local, Covers, OwnRows, Ends
<1>4. ASSUME NEW n \in 0..(N - 1), n \in H PROVE n + 1 \in H
  <2>1. n + 1 \in 1..N /\ n + 1 - 1 = n /\ n \in 0..N /\ n + 1 \in 0..N BY <1>2
  <2>2. /\ f[n] \in Seq(Message) /\ Local(f[n]) /\ Covers(f[n], ms, n + 1 - 1) /\ Ends(f[n], ms, n + 1 - 1)
        /\ f[n + 1] = Joined(f[n], ms[n + 1])
    BY <1>1, <1>4, <2>1
  <2>3. /\ Local(Joined(f[n], ms[n + 1])) /\ Covers(Joined(f[n], ms[n + 1]), ms, n + 1)
        /\ Ends(Joined(f[n], ms[n + 1]), ms, n + 1)
    BY <2>1, <2>2, JoinedKeeps
  <2> QED BY <2>1, <2>2, <2>3
<1>5. \A n \in 0..N : n \in H
  <2> HIDE DEF H, N
  <2> QED BY <1>2, <1>3, <1>4, InductionUpTo
<1>6. N \in 0..N BY <1>2
<1> QED BY <1>1, <1>5, <1>6

\* The pruning loop keeps the newest messages, from one that is no result on, and at least the last.
LEMMA PruneIs ==
  ASSUME NEW ms \in Seq(Message), Local(ms)
  PROVE  \E k \in 1..(Len(ms) + 1) :
           /\ Prune(ms) = SubSeq(ms, k, Len(ms))
           /\ k <= Len(ms) => ms[k].role # "tool"
           /\ ms # <<>> /\ ms[Len(ms)].role # "tool" => k <= Len(ms)
<1> DEFINE L == Len(ms)
           N == L + 1
           Rest(k) == SubSeq(ms, k, Len(ms))
           skipTools(k) == Min({i \in k..(Len(ms) + 1) : i > Len(ms) \/ ms[i].role # "tool"})
           Go(k) == Tokens(Rest(k)) > Budget /\ Len(Rest(k)) > MinKeep
           Is(f) == f = [k \in 1..(Len(ms) + 1) |-> IF Go(k) THEN f[skipTools(k + 1)] ELSE k]
           start == CHOOSE f : Is(f)
           Stop == {k \in 1..N : ~Go(k)}
           nxt == [k \in 1..N |-> skipTools(k + 1)]
<1>1. L \in Nat /\ N \in Nat /\ MinKeep \in Nat \ {0} BY ContextConstants
<1>2. Prune(ms) = Rest(start[1]) BY DEF Prune
<1>3. \A k \in 1..N : Len(Rest(k)) = N - k
  <2> SUFFICES ASSUME NEW k \in 1..N PROVE Len(Rest(k)) = N - k OBVIOUS
  <2>1. k \in Nat \ {0} /\ L \in Nat /\ L <= Len(ms) /\ k <= L + 1 BY <1>1
  <2>2. Len(SubSeq(ms, k, L)) = L + 1 - k BY <2>1, SubSeqIs
  <2> QED BY <2>2
<1>4. ASSUME NEW k \in 1..N, k \notin Stop
      PROVE  /\ nxt[k] \in 1..N /\ nxt[k] > k
             /\ nxt[k] <= L => ms[nxt[k]].role # "tool"
             /\ ms # <<>> /\ ms[L].role # "tool" => nxt[k] <= L
  <2> DEFINE S == {i \in (k + 1)..(Len(ms) + 1) : i > Len(ms) \/ ms[i].role # "tool"}
  <2>1. N - k > MinKeep BY <1>3, <1>4
  <2>2. k + 1 <= L BY <1>1, <2>1
  <2>3. N \in S BY <1>1, <2>2
  <2>4. S \in SUBSET (0..N) BY <1>1
  <2>5. Min(S) \in S /\ \A x \in S : Min(S) <= x
    <3> HIDE DEF S, N
    <3> QED BY <1>1, <2>3, <2>4, FirstAndLast
  <2>6. nxt[k] = Min(S) BY <1>4
  <2>7. ms[L].role # "tool" => L \in S BY <1>1, <2>2
  <2>8. ms[L].role # "tool" => Min(S) <= L
    <3> HIDE DEF S
    <3> QED BY <2>5, <2>7
  <2>9. Min(S) \in 1..N /\ Min(S) > k /\ (Min(S) <= L => ms[Min(S)].role # "tool")
    <3>1. \A x \in S : x \in 1..N /\ x > k /\ (x <= L => ms[x].role # "tool") BY <1>1
    <3> HIDE DEF S
    <3> QED BY <2>5, <3>1
  <2> HIDE DEF nxt, S
  <2> QED BY <2>6, <2>8, <2>9
<1>5. Forward(N, Stop, nxt)
  <2> HIDE DEF N, Stop, nxt
  <2> QED BY <1>4 DEF Forward
<1>6. \A f : Is(f) <=> Jumps(f, N, Stop, nxt)
  <2> SUFFICES ASSUME NEW f PROVE Is(f) <=> Jumps(f, N, Stop, nxt) OBVIOUS
  <2>1. \A k \in 1..N : (IF Go(k) THEN f[skipTools(k + 1)] ELSE k) = (IF k \in Stop THEN k ELSE f[nxt[k]]) OBVIOUS
  <2>2. [k \in 1..N |-> IF Go(k) THEN f[skipTools(k + 1)] ELSE k] = [k \in 1..N |-> IF k \in Stop THEN k ELSE f[nxt[k]]]
    <3> HIDE DEF Go, skipTools, Stop, nxt, N
    <3> QED BY <2>1
  <2> QED BY <2>2 DEF Jumps
<1>7. Jumps(start, N, Stop, nxt)
  <2>1. \E f : Jumps(f, N, Stop, nxt)
    <3> HIDE DEF N, Stop, nxt
    <3> QED BY <1>1, <1>5, JumpsExist
  <2> HIDE DEF N, Stop, nxt, Is
  <2>2. \E f : Is(f) BY <1>6, <2>1
  <2>3. Is(start) BY <2>2
  <2> QED BY <1>6, <2>3
<1> HIDE DEF Stop, nxt, start
<1>8. /\ start[1] \in 1..N
      /\ start[1] = 1 \/ \E j \in 1..N : j \notin Stop /\ start[1] = nxt[j]
  <2>1. 1 \in 1..N BY <1>1
  <2> HIDE DEF N
  <2> QED BY <1>1, <1>5, <1>7, <2>1, JumpsStop
<1> DEFINE k == start[1]
<1>9. /\ k <= L => ms[k].role # "tool"
      /\ ms # <<>> /\ ms[L].role # "tool" => k <= L
  <2>1. CASE k = 1
    <3>1. 1 <= L => 1 \in 1..Len(ms) /\ ~(1 > 1) BY <1>1
    <3>2. 1 <= L => ms[1].role # "tool" BY <3>1 DEF Local
    <3>3. ms # <<>> => 1 <= L BY <1>1
    <3> QED BY <2>1, <3>2, <3>3
  <2>2. CASE \E j \in 1..N : j \notin Stop /\ k = nxt[j]
    <3>1. PICK j \in 1..N : j \notin Stop /\ k = nxt[j] BY <2>2
    <3> QED BY <1>4, <3>1
  <2> QED BY <1>8, <2>1, <2>2
<1> HIDE DEF k
<1>10. k \in 1..(Len(ms) + 1) /\ Prune(ms) = SubSeq(ms, k, Len(ms)) BY <1>2, <1>8 DEF k
<1> QED BY <1>9, <1>10

\* The results of a round follow its request.
LEMMA LocalAnchored ==
  ASSUME NEW ms \in Seq(Message), Local(ms), NEW i \in DOMAIN ms, ms[i].role = "tool"
  PROVE  \E j \in 1..(i - 1) : ms[j].calls # "none" /\ \A k \in (j + 1)..i : ms[k].role = "tool"
<1> DEFINE S == {j \in 1..i : \A k \in j..i : ms[k].role = "tool"}
<1>1. i \in 1..Len(ms) /\ i \in Nat OBVIOUS
<1>2. S \in SUBSET (0..i) /\ i \in S
  <2>1. i..i = {i} BY <1>1
  <2> QED BY <1>1, <2>1
<1>3. Min(S) \in S /\ \A x \in S : Min(S) <= x
  <2> HIDE DEF S
  <2> QED BY <1>1, <1>2, FirstAndLast
<1> DEFINE m == Min(S)
<1>4. m \in 1..i /\ \A k \in m..i : ms[k].role = "tool" BY <1>3
<1> HIDE DEF m
<1>5. m \in 1..Len(ms) /\ ms[m].role = "tool"
  <2>1. m \in m..i BY <1>1, <1>4
  <2> QED BY <1>1, <1>4, <2>1
<1>6. m > 1 /\ (ms[m - 1].calls # "none" \/ ms[m - 1].role = "tool") BY <1>5 DEF Local
<1>7. m - 1 \in 1..(i - 1) /\ m - 1 + 1 = m BY <1>1, <1>4, <1>6
<1>8. ms[m - 1].role # "tool"
  <2> SUFFICES ASSUME ms[m - 1].role = "tool" PROVE FALSE OBVIOUS
  <2>1. \A k \in (m - 1)..i : k = m - 1 \/ k \in m..i BY <1>1, <1>4
  <2>2. m - 1 \in S BY <1>1, <1>4, <1>7, <2>1
  <2>3. m <= m - 1
    <3> HIDE DEF S
    <3> QED BY <1>3, <2>2 DEF m
  <2> QED BY <1>4, <2>3
<1> QED BY <1>4, <1>6, <1>7, <1>8

\* The end of a list is a suffix of it.
LEMMA EndIsSuffix ==
  ASSUME NEW S, NEW s \in Seq(S), NEW k \in 1..(Len(s) + 1)
  PROVE  IsSuffix(SubSeq(s, k, Len(s)), s)
<1> DEFINE t == SubSeq(s, k, Len(s))
           L == Len(s)
           n == L + 1 - k
<1>1. L \in Nat /\ k \in Nat \ {0} /\ L <= Len(s) /\ k <= L + 1 /\ n \in Nat /\ n <= L OBVIOUS
<1>2. t \in Seq(S) /\ Len(t) = n /\ \A i \in 1..n : t[i] = s[k + i - 1]
  <2>1. /\ SubSeq(s, k, L) \in Seq(S) /\ Len(SubSeq(s, k, L)) = L + 1 - k
        /\ \A i \in 1..(L + 1 - k) : SubSeq(s, k, L)[i] = s[k + i - 1]
    BY <1>1, SubSeqIs
  <2> QED BY <2>1
<1> HIDE DEF t
<1> DEFINE rs == [i \in 1..L |-> s[(L - i) + 1]]
           rt == [i \in 1..n |-> t[(n - i) + 1]]
<1>3. rs \in Seq(S) /\ Len(rs) = L /\ Reverse(s) = rs
  <2>1. \A i \in 1..L : (L - i) + 1 \in 1..L /\ s[(L - i) + 1] \in S OBVIOUS
  <2> QED BY <1>1, <2>1 DEF Reverse
<1>4. rt \in Seq(S) /\ Len(rt) = n /\ Reverse(t) = rt
  <2>1. \A i \in 1..n : (n - i) + 1 \in 1..n BY <1>1
  <2>2. \A i \in 1..n : t[(n - i) + 1] \in S BY <1>2, <2>1
  <2> QED BY <1>1, <1>2, <2>2 DEF Reverse
<1>5. \A i \in 1..n : rt[i] = rs[i]
  <2> SUFFICES ASSUME NEW i \in 1..n PROVE rt[i] = rs[i] OBVIOUS
  <2>1. i \in 1..L /\ (n - i) + 1 \in 1..n /\ k + ((n - i) + 1) - 1 = (L - i) + 1 BY <1>1
  <2> QED BY <1>2, <2>1
<1> HIDE DEF rs, rt, n
<1>6. SubSeq(rt, 1, n) = SubSeq(rs, 1, n)
  <2>1. 1 \in Nat \ {0} /\ 1 <= n + 1 /\ n + 1 - 1 = n /\ \A i \in 1..n : 1 + i - 1 = i BY <1>1
  <2>2. /\ SubSeq(rt, 1, n) \in Seq(S) /\ Len(SubSeq(rt, 1, n)) = n + 1 - 1
        /\ \A i \in 1..(n + 1 - 1) : SubSeq(rt, 1, n)[i] = rt[1 + i - 1]
    BY <1>1, <1>4, <2>1, SubSeqIs
  <2>3. /\ SubSeq(rs, 1, n) \in Seq(S) /\ Len(SubSeq(rs, 1, n)) = n + 1 - 1
        /\ \A i \in 1..(n + 1 - 1) : SubSeq(rs, 1, n)[i] = rs[1 + i - 1]
    BY <1>1, <1>3, <2>1, SubSeqIs
  <2>4. /\ SubSeq(rt, 1, n) \in Seq(S) /\ Len(SubSeq(rt, 1, n)) = n
        /\ SubSeq(rs, 1, n) \in Seq(S) /\ Len(SubSeq(rs, 1, n)) = n
        /\ \A i \in 1..n : SubSeq(rt, 1, n)[i] = SubSeq(rs, 1, n)[i]
    BY <1>5, <2>1, <2>2, <2>3
  <2> QED BY <2>4, SeqEqual
<1> QED BY <1>1, <1>3, <1>4, <1>6 DEF IsSuffix, IsPrefix, t

\* A list behind the marker of what was pruned.
LEMMA MarkedIs ==
  ASSUME NEW s \in Seq(Message), Local(s)
  PROVE  /\ <<Marker>> \o s \in Seq(Message) /\ Local(<<Marker>> \o s) /\ Len(<<Marker>> \o s) = Len(s) + 1
         /\ \A i \in 1..Len(s) : (<<Marker>> \o s)[i + 1] = s[i]
         /\ (<<Marker>> \o s)[1] = Marker /\ Body(<<Marker>> \o s) = s
<1> DEFINE c == <<Marker>> \o s
           L == Len(s)
<1>1. Marker \in Message /\ Marker.role = "user" /\ Marker.rows = {} BY DEF Marker, User, Msg, Message
<1> HIDE DEF Marker
<1>2. L \in Nat /\ c \in Seq(Message) /\ Len(c) = L + 1 /\ c[1] = Marker BY <1>1
<1>3. \A i \in 1..L : c[i + 1] = s[i] BY <1>1
<1>4. Tail(c) = s
  <2>1. Tail(c) \in Seq(Message) /\ Len(Tail(c)) = L /\ \A i \in 1..L : Tail(c)[i] = c[i + 1]
    <3> HIDE DEF c
    <3>1. c # <<>> BY <1>2
    <3> QED BY <1>2, <3>1, HeadTailProperties
  <2>2. \A i \in 1..L : Tail(c)[i] = s[i] BY <1>3, <2>1
  <2> HIDE DEF c
  <2> QED BY <2>1, <2>2, SeqEqual
<1> HIDE DEF c
<1>5. Local(c)
  <2> SUFFICES ASSUME NEW i \in 1..(L + 1), c[i].role = "tool"
               PROVE  i > 1 /\ (c[i - 1].calls # "none" \/ c[i - 1].role = "tool")
    BY <1>2 DEF Local
  <2>1. i # 1 BY <1>1, <1>2
  <2>2. i - 1 \in 1..L /\ i > 1 /\ (i - 1) + 1 = i BY <1>2, <2>1
  <2>3. c[i] = s[i - 1] BY <1>3, <2>2
  <2>4. i - 1 > 1 /\ (s[(i - 1) - 1].calls # "none" \/ s[(i - 1) - 1].role = "tool") BY <2>2, <2>3 DEF Local
  <2>5. (i - 1) - 1 \in 1..L /\ ((i - 1) - 1) + 1 = i - 1 BY <1>2, <2>2, <2>4
  <2>6. c[i - 1] = s[(i - 1) - 1] BY <1>3, <2>5
  <2> QED BY <2>2, <2>4, <2>6
<1>6. c # <<>> BY <1>2
<1> QED BY <1>2, <1>3, <1>4, <1>5, <1>6 DEF Body, c

\* optimize_context: the repaired list, or its newest part behind the marker; results stay with
\* their requests and the question stays at the end.
LEMMA OptimizeIs ==
  ASSUME NEW ms \in Seq(Message)
  PROVE  /\ Optimize(ms) \in Seq(Message) /\ Local(Optimize(ms))
         /\ IsSuffix(Body(Optimize(ms)), Merge(Repair(ms))) \/ IsSuffix(Optimize(ms), Merge(Repair(ms)))
         /\ /\ ms # <<>> /\ ms[Len(ms)].role = "user" /\ ms[Len(ms)].calls = "none" /\ ms[Len(ms)].size > 0
            => /\ Optimize(ms) # <<>> /\ Optimize(ms)[Len(Optimize(ms))].role = "user"
               /\ Optimize(ms)[Len(Optimize(ms))] # Marker
<1> DEFINE rep == Repair(ms)
           clean == Merge(rep)
           asked == ms # <<>> /\ ms[Len(ms)].role = "user" /\ ms[Len(ms)].calls = "none" /\ ms[Len(ms)].size > 0
           Fit(o) == o # <<>> /\ o[Len(o)].role = "user" /\ o[Len(o)] # Marker
<1>1. /\ rep \in Seq(Message) /\ Local(rep)
      /\ asked => rep # <<>> /\ rep[Len(rep)] = ms[Len(ms)]
  BY RepairIs
<1> HIDE DEF rep
<1>2. clean \in Seq(Message) /\ Local(clean) /\ Ends(clean, rep, Len(rep)) BY <1>1, MergeIs
<1> HIDE DEF clean
<1>3. Len(clean) \in Nat /\ Len(rep) \in Nat /\ (rep # <<>> => Len(rep) > 0) BY <1>1, <1>2
<1>4. asked => clean # <<>> /\ clean[Len(clean)].role = "user" /\ clean[Len(clean)].size > 0
  <2> SUFFICES ASSUME asked PROVE clean # <<>> /\ clean[Len(clean)].role = "user" /\ clean[Len(clean)].size > 0
    OBVIOUS
  <2>1. ms[Len(ms)] \in Message OBVIOUS
  <2>2. clean # <<>> /\ clean[Len(clean)].role = "user" /\ clean[Len(clean)].size >= ms[Len(ms)].size
    BY <1>1, <1>2, <1>3 DEF Ends
  <2>3. clean[Len(clean)] \in Message BY <1>2, <2>2
  <2>4. clean[Len(clean)].size \in Nat /\ ms[Len(ms)].size \in Nat BY <2>1, <2>3 DEF Message
  <2> QED BY <2>2, <2>4
<1>5. \A m : m.size > 0 => m # Marker
  <2>1. Marker.size = 0 BY DEF Marker, User, Msg
  <2> QED BY <2>1
<1>6. Optimize(ms) = IF Tokens(clean) <= Budget THEN clean ELSE <<Marker>> \o Prune(clean)
  BY DEF Optimize, clean, rep
<1>7. CASE Optimize(ms) = clean
  <2>1. Len(clean) + 1 \in Nat /\ 1 \in 1..(Len(clean) + 1) BY <1>3
  <2>2. SubSeq(clean, 1, Len(clean)) = clean BY <1>2
  <2>3. IsSuffix(clean, clean) BY <1>2, <2>1, <2>2, EndIsSuffix
  <2> HIDE DEF asked
  <2> QED BY <1>2, <1>4, <1>5, <1>7, <2>3 DEF asked, clean, rep
<1>8. CASE Optimize(ms) = <<Marker>> \o Prune(clean)
  <2>1. PICK k \in 1..(Len(clean) + 1) :
          /\ Prune(clean) = SubSeq(clean, k, Len(clean))
          /\ k <= Len(clean) => clean[k].role # "tool"
          /\ clean # <<>> /\ clean[Len(clean)].role # "tool" => k <= Len(clean)
    BY <1>2, PruneIs
  <2> DEFINE s == SubSeq(clean, k, Len(clean))
             n == Len(clean) + 1 - k
             c == <<Marker>> \o s
  <2>2. k \in Nat \ {0} /\ Len(clean) \in Nat /\ k <= Len(clean) + 1 /\ Len(clean) <= Len(clean) BY <1>3
  <2>3. s \in Seq(Message) /\ Len(s) = n /\ \A i \in 1..n : s[i] = clean[k + i - 1] BY <1>2, <2>2, SubSeqIs
  <2>4. Local(s) BY <1>2, <2>1, <2>2, LocalPart
  <2>5. IsSuffix(s, clean) BY <1>2, EndIsSuffix
  <2> HIDE DEF s
  <2>6. /\ c \in Seq(Message) /\ Local(c) /\ Len(c) = Len(s) + 1
        /\ \A i \in 1..Len(s) : c[i + 1] = s[i]
        /\ Body(c) = s
    BY <2>3, <2>4, MarkedIs
  <2> HIDE DEF c
  <2>7. ASSUME asked PROVE Fit(c)
    <3>1. clean # <<>> /\ clean[Len(clean)].role = "user" /\ clean[Len(clean)].size > 0 /\ k <= Len(clean)
      BY <1>4, <2>1, <2>7
    <3>2. n \in Nat /\ n \in 1..n /\ k + n - 1 = Len(clean) BY <2>2, <3>1
    <3> HIDE DEF n
    <3>3. s[n] = clean[Len(clean)] BY <2>3, <3>2
    <3>4. Len(c) = n + 1 /\ c[n + 1] = s[n] BY <2>3, <2>6, <3>2
    <3>5. c # <<>> BY <3>2, <3>4
    <3> QED BY <1>5, <3>1, <3>3, <3>4, <3>5
  <2>8. Optimize(ms) = c BY <1>8, <2>1 DEF c, s
  <2> QED BY <2>5, <2>6, <2>7, <2>8 DEF clean, rep
<1> QED BY <1>6, <1>7, <1>8

\* What is read back stands for the same rows.
LEMMA StoredIs ==
  ASSUME NEW ms \in Seq(Message)
  PROVE  /\ Stored(ms) \in Seq(Message) /\ Len(Stored(ms)) = Len(ms)
         /\ \A i \in 1..Len(ms) : Stored(ms)[i].rows = ms[i].rows
<1>1. DOMAIN ms = 1..Len(ms) /\ Len(ms) \in Nat OBVIOUS
<1>2. ASSUME NEW i \in 1..Len(ms)
      PROVE  /\ [ms[i] EXCEPT !.calls = IF @ = "none" THEN "none" ELSE "text"] \in Message
             /\ [ms[i] EXCEPT !.calls = IF @ = "none" THEN "none" ELSE "text"].rows = ms[i].rows
  <2>1. ms[i] \in Message OBVIOUS
  <2> QED BY <2>1 DEF Message
<1> DEFINE x(i) == [ms[i] EXCEPT !.calls = IF @ = "none" THEN "none" ELSE "text"]
<1>3. Stored(ms) = [i \in 1..Len(ms) |-> x(i)] BY <1>1 DEF Stored
<1>4. \A i \in 1..Len(ms) : x(i) \in Message /\ x(i).rows = ms[i].rows BY <1>2
<1> HIDE DEF x
<1> QED BY <1>1, <1>3, <1>4

\* compact_session: the list that is written back stands for rows behind those it summarises, and
\* each of its messages for rows of its own.
LEMMA CompactIs ==
  ASSUME NEW ms \in Seq(Message), OwnRows(ms), NEW pruned,
         pruned = (IF Tokens(Merge(Repair(ms))) <= Budget THEN 0
                   ELSE Len(Merge(Repair(ms))) - Len(Prune(Merge(Repair(ms)))))
  PROVE  /\ Stored(Optimize(ms)) \in Seq(Message) /\ OwnRows(Stored(Optimize(ms)))
         /\ 0 \notin Rows(Stored(Optimize(ms)))
         /\ Rows(SubSeq(ms, 1, pruned)) \cap Rows(Stored(Optimize(ms))) = {}
<1> DEFINE rep == Repair(ms)
           clean == Merge(rep)
           N == Len(ms)
           o == Optimize(ms)
           st == Stored(o)
<1>1. rep \in Seq(Message) /\ Local(rep) /\ Covers(rep, ms, N) /\ N \in Nat BY RepairIs
<1> HIDE DEF rep
<1>2. clean \in Seq(Message) /\ Local(clean) /\ Covers(clean, rep, Len(rep)) BY <1>1, MergeIs
<1> HIDE DEF clean
<1>3. Covers(clean, ms, N) BY <1>1, <1>2, CoversTransitive
<1>4. OwnRows(clean) /\ Len(clean) <= N /\ Len(clean) \in Nat BY <1>2, <1>3 DEF Covers
<1>5. o \in Seq(Message) BY OptimizeIs
\* Every message of the new list is one of the clean list behind the pruned ones.
<1>6. /\ pruned \in 0..N
      /\ \A i \in 1..Len(o) : \A r \in o[i].rows : \E j \in (pruned + 1)..Len(clean) : r \in clean[j].rows
      /\ OwnRows(o)
  <2>1. CASE Tokens(clean) <= Budget
    <3>1. o = clean /\ pruned = 0 BY <2>1 DEF Optimize, clean, rep
    <3>2. \A i \in 1..Len(clean) : i \in (0 + 1)..Len(clean) OBVIOUS
    <3> HIDE DEF o
    <3> QED BY <1>1, <1>4, <3>1, <3>2
  <2>2. CASE ~(Tokens(clean) <= Budget)
    <3>1. PICK k \in 1..(Len(clean) + 1) : Prune(clean) = SubSeq(clean, k, Len(clean)) BY <1>2, PruneIs
    <3> DEFINE s == SubSeq(clean, k, Len(clean))
               n == Len(clean) + 1 - k
               c == <<Marker>> \o s
    <3>2. k \in Nat \ {0} /\ k <= Len(clean) + 1 /\ Len(clean) <= Len(clean) BY <1>4
    <3>3. s \in Seq(Message) /\ Len(s) = n /\ \A i \in 1..n : s[i] = clean[k + i - 1] BY <1>2, <1>4, <3>2, SubSeqIs
    <3>4. OwnRows(s) BY <1>2, <1>4, <3>2, OwnRowsPart
    <3>5. o = c /\ pruned = Len(clean) - Len(s) BY <2>2, <3>1 DEF Optimize, clean, rep
    <3> HIDE DEF s, o
    <3>6. pruned = k - 1 /\ pruned \in 0..N
      <4>1. Len(clean) \in Nat /\ N \in Nat /\ Len(clean) <= N BY <1>1, <1>4
      <4>2. Len(s) = Len(clean) + 1 - k BY <3>3
      <4>3. Len(clean) - Len(s) = k - 1
        <5> HIDE DEF N
        <5> QED BY <4>1, <3>2, <4>2
      <4>4. pruned = k - 1 BY <3>5, <4>3
      <4> HIDE DEF N
      <4> QED BY <3>2, <4>1, <4>4
    <3>7. Marker \in Message /\ Marker.rows = {} BY DEF Marker, User, Msg, Message
    <3> HIDE DEF Marker
    <3>8. Len(c) = n + 1 /\ c[1].rows = {} /\ DOMAIN c = 1..(n + 1) BY <3>3, <3>7
    <3>9. \A i \in 1..(n + 1) : i = 1 \/ (i - 1 \in 1..n /\ c[i] = s[i - 1]) BY <3>3, <3>7
    <3> HIDE DEF c
    <3>10. ASSUME NEW i \in 1..(n + 1), NEW r \in c[i].rows PROVE \E j \in (pruned + 1)..Len(clean) : r \in clean[j].rows
      <4>1. i - 1 \in 1..n /\ c[i] = s[i - 1] BY <3>8, <3>9, <3>10
      <4>2. c[i] = clean[k + (i - 1) - 1] BY <3>3, <4>1
      <4>3. k + (i - 1) - 1 \in (pruned + 1)..Len(clean) BY <1>4, <3>2, <3>6, <4>1
      <4> QED BY <4>2, <4>3
    <3>11. OwnRows(c)
      <4>1. DOMAIN s = 1..n BY <3>3
      <4> HIDE DEF n
      <4>2. ASSUME NEW i \in 1..(n + 1), NEW j \in 1..(n + 1), i # j PROVE c[i].rows \cap c[j].rows = {}
        <5>1. CASE i = 1 \/ j = 1 BY <3>8, <5>1
        <5>2. CASE i # 1 /\ j # 1
          <6>1. i - 1 \in 1..n /\ c[i] = s[i - 1] /\ j - 1 \in 1..n /\ c[j] = s[j - 1] BY <3>9, <5>2
          <6>2. i - 1 # j - 1 BY <4>2
          <6> QED BY <3>4, <4>1, <6>1, <6>2 DEF OwnRows
        <5> QED BY <5>1, <5>2
      <4> QED BY <3>8, <4>2 DEF OwnRows
    <3> QED BY <3>5, <3>6, <3>8, <3>10, <3>11
  <2> QED BY <2>1, <2>2
<1> HIDE DEF o
<1>7. st \in Seq(Message) /\ Len(st) = Len(o) /\ \A i \in 1..Len(o) : st[i].rows = o[i].rows BY <1>5, StoredIs
<1>8. DOMAIN st = 1..Len(o) /\ DOMAIN o = 1..Len(o) /\ DOMAIN ms = 1..N BY <1>5, <1>7
<1> HIDE DEF st
<1>9. OwnRows(st) BY <1>6, <1>7, <1>8 DEF OwnRows
<1>10. 0 \notin Rows(st)
  <2>1. \A i \in 1..Len(o) : st[i] \in Message BY <1>7
  <2>2. \A m \in Message : 0 \notin m.rows BY DEF Message
  <2> QED BY <1>8, <2>1, <2>2 DEF Rows
<1>11. ASSUME NEW r \in Rows(SubSeq(ms, 1, pruned)), r \in Rows(st) PROVE FALSE
  <2>1. 1 \in Nat \ {0} /\ pruned \in Nat /\ pruned <= N /\ 1 <= pruned + 1 /\ pruned + 1 - 1 = pruned BY <1>1, <1>6
  <2>2. \A i \in 1..pruned : 1 + i - 1 = i BY <2>1
  <2> DEFINE p == SubSeq(ms, 1, pruned)
  <2>3. p \in Seq(Message) /\ Len(p) = pruned /\ \A i \in 1..pruned : p[i] = ms[i]
    <3>1. p \in Seq(Message) /\ Len(p) = pruned + 1 - 1 /\ \A i \in 1..(pruned + 1 - 1) : p[i] = ms[1 + i - 1]
      BY <2>1, SubSeqIs
    <3> HIDE DEF p
    <3> QED BY <2>1, <2>2, <3>1
  <2>4. r \in Rows(p) BY <1>11
  <2> HIDE DEF p
  <2>5. PICK i \in 1..pruned : r \in ms[i].rows BY <2>3, <2>4 DEF Rows
  <2>6. PICK q \in 1..Len(o) : r \in o[q].rows BY <1>7, <1>8, <1>11 DEF Rows
  <2>7. PICK j \in (pruned + 1)..Len(clean) : r \in clean[j].rows BY <1>6, <2>6
  <2>8. j \in 1..Len(clean) BY <1>4, <2>1, <2>7
  <2>9. PICK x \in j..N : r \in ms[x].rows BY <1>3, <2>7, <2>8 DEF Covers
  <2>10. i \in 1..N /\ x \in 1..N /\ i # x BY <1>1, <2>1, <2>7, <2>8, <2>9
  <2> QED BY <1>8, <2>5, <2>9, <2>10 DEF OwnRows
<1> QED BY <1>7, <1>9, <1>10, <1>11 DEF st, o

\* A round of tool calls appended: the request and its results.
LEMMA RoundIs ==
  ASSUME NEW ms \in Seq(Message), Local(ms), NEW n \in Nat, NEW results \in [1..n -> Message],
         \A i \in 1..n : results[i].role = "tool",
         NEW request \in Message, request.calls = "structured", request.role = "assistant"
  PROVE  Append(ms, request) \o results \in Seq(Message) /\ Local(Append(ms, request) \o results)
<1> DEFINE base == Append(ms, request)
           B == Len(base)
           raw == base \o results
<1>1. base \in Seq(Message) /\ Local(base) /\ B \in Nat \ {0} /\ base[B] = request BY LocalAppend
<1> HIDE DEF base
<1>2. results \in Seq(Message) /\ Len(results) = n OBVIOUS
<1>3. raw \in Seq(Message) /\ Len(raw) = B + n BY <1>1, <1>2
<1>4. \A i \in 1..B : raw[i] = base[i] BY <1>1, <1>2
<1>5. \A i \in (B + 1)..(B + n) : raw[i] = results[i - B] /\ i - B \in 1..n BY <1>1, <1>2
<1> HIDE DEF raw
<1>6. Local(raw)
  <2> SUFFICES ASSUME NEW i \in 1..(B + n), raw[i].role = "tool"
               PROVE  i > 1 /\ (raw[i - 1].calls # "none" \/ raw[i - 1].role = "tool")
    BY <1>3 DEF Local
  <2>1. CASE i \in 1..B
    <3>1. base[i].role = "tool" BY <1>4, <2>1
    <3>2. i > 1 /\ (base[i - 1].calls # "none" \/ base[i - 1].role = "tool") BY <1>1, <2>1, <3>1 DEF Local
    <3>3. i - 1 \in 1..B BY <1>1, <2>1, <3>2
    <3> QED BY <1>4, <3>2, <3>3
  <2>2. CASE i = B + 1
    <3>1. i - 1 = B /\ B \in 1..B /\ i > 1 BY <1>1, <2>2
    <3>2. raw[i - 1] = request BY <1>1, <1>4, <3>1
    <3> QED BY <3>1, <3>2
  <2>3. CASE i \in (B + 2)..(B + n)
    <3>1. i - 1 \in (B + 1)..(B + n) /\ i > 1 BY <1>1, <2>3
    <3> QED BY <1>5, <3>1
  <2>4. i \in 1..B \/ i = B + 1 \/ i \in (B + 2)..(B + n) BY <1>1
  <2> QED BY <2>1, <2>2, <2>3, <2>4
<1> QED BY <1>3, <1>6 DEF raw, base

-----------------------------------------------------------------------------
\* The transcript before the turn is made of messages for rows of their own, none of them
\* summarised; the context of the turn has every result behind its request.
ContextInv ==
  /\ phase \in {"start", "model", "answered", "too_large"} /\ round \in Nat
  /\ ctx \in Seq(Message)
  /\ phase = "start" => OwnRows(ctx)
  /\ phase # "start" => Local(ctx)

LEMMA ContextIndInit == Init => ContextInv /\ ContextSound
<1> SUFFICES ASSUME Init PROVE ContextInv /\ ContextSound OBVIOUS
<1>1. ctx \in Seq(Message) /\ OwnRows(ctx) /\ phase = "start" /\ round = 0 /\ summary = {}
  BY ContextConstants DEF Init
<1> QED BY <1>1 DEF ContextInv, ContextSound, ToolResultsAnchored, OldestDroppedFirst, QuestionSent, SummarisedOnce, Sent

LEMMA ContextIndNext == ContextInv /\ ContextSound /\ [Next]_vars => (ContextInv /\ ContextSound)'
<1> SUFFICES ASSUME ContextInv, ContextSound, [Next]_vars PROVE (ContextInv /\ ContextSound)' OBVIOUS
<1>1. ctx \in Seq(Message) /\ round \in Nat BY DEF ContextInv
<1>2. ASSUME ctx' \in Seq(Message), Local(ctx') PROVE ToolResultsAnchored'
  <2>1. \A i \in DOMAIN ctx' : ctx'[i].role = "tool" =>
          \E j \in 1..(i - 1) : ctx'[j].calls # "none" /\ \A k \in (j + 1)..i : ctx'[k].role = "tool"
    BY <1>2, LocalAnchored
  <2> QED BY <2>1 DEF ToolResultsAnchored
<1>3. CASE Compact
  <2> DEFINE pruned == IF Tokens(Merge(Repair(ctx))) <= Budget THEN 0
                       ELSE Len(Merge(Repair(ctx))) - Len(Prune(Merge(Repair(ctx))))
             st == Stored(Optimize(ctx))
  <2>1. /\ phase = "start" /\ phase' = "start" /\ round' = round /\ ctx' = st
        /\ summary' \in IF pruned = 0 THEN {{}} ELSE {Rows(SubSeq(ctx, 1, pruned)), NoSummary}
    BY <1>3 DEF Compact
  <2>2. OwnRows(ctx) BY <2>1 DEF ContextInv
  <2>3. st \in Seq(Message) /\ OwnRows(st) /\ 0 \notin Rows(st) /\ Rows(SubSeq(ctx, 1, pruned)) \cap Rows(st) = {}
    BY <1>1, <2>2, CompactIs
  <2> HIDE DEF pruned, st
  <2>4. summary' \cap Rows(ctx') = {} BY <2>1, <2>3 DEF NoSummary
  <2>5. ContextInv' BY <1>1, <2>1, <2>3 DEF ContextInv
  <2>6. ToolResultsAnchored' /\ OldestDroppedFirst' /\ QuestionSent' /\ SummarisedOnce'
    BY <2>1, <2>4 DEF ToolResultsAnchored, OldestDroppedFirst, QuestionSent, SummarisedOnce, Sent
  <2> QED BY <2>5, <2>6 DEF ContextSound
<1>4. CASE Start
  <2>1. PICK size \in Sizes \ {0} :
          /\ full' = Merge(Repair(Append(ctx, User(size)))) /\ ctx' = Optimize(Append(ctx, User(size)))
          /\ phase' \in {"too_large", "model"} /\ round' = round
    BY <1>4 DEF Start
  <2>2. User(size) \in Message /\ User(size).role = "user" /\ User(size).calls = "none" /\ User(size).size > 0
    <3>1. size \in Nat \ {0} BY ContextConstants
    <3> QED BY <3>1 DEF User, Msg, Message
  <2> DEFINE raw == Append(ctx, User(size))
  <2>3. raw \in Seq(Message) /\ raw # <<>> /\ raw[Len(raw)] = User(size) BY <1>1, <2>2
  <2> HIDE DEF raw
  <2>4. /\ Optimize(raw) \in Seq(Message) /\ Local(Optimize(raw))
        /\ IsSuffix(Body(Optimize(raw)), Merge(Repair(raw))) \/ IsSuffix(Optimize(raw), Merge(Repair(raw)))
        /\ Optimize(raw) # <<>> /\ Optimize(raw)[Len(Optimize(raw))].role = "user"
        /\ Optimize(raw)[Len(Optimize(raw))] # Marker
    BY <2>2, <2>3, OptimizeIs
  <2>5. ctx' = Optimize(raw) /\ full' = Merge(Repair(raw)) BY <2>1 DEF raw
  <2>6. ContextInv' BY <1>1, <2>1, <2>4, <2>5 DEF ContextInv
  <2>7. ToolResultsAnchored' BY <1>2, <2>4, <2>5
  <2>8. OldestDroppedFirst' BY <2>4, <2>5 DEF OldestDroppedFirst
  <2>9. QuestionSent' BY <2>4, <2>5 DEF QuestionSent, Last
  <2>10. SummarisedOnce' BY <2>1 DEF SummarisedOnce
  <2> QED BY <2>6, <2>7, <2>8, <2>9, <2>10 DEF ContextSound
<1>5. CASE ToolRound
  <2>1. PICK n \in 1..MaxBatch : \E sizes \in [1..n -> Sizes] :
          LET raw == Append(ctx, Msg("assistant", "structured", 0)) \o [i \in 1..n |-> Msg("tool", "none", sizes[i])] IN
          IF Tokens(raw) <= Budget
            THEN ctx' = raw /\ full' = raw /\ phase' = "model"
            ELSE /\ full' = Merge(Repair(raw))
                 /\ ctx' = Optimize(raw)
                 /\ phase' = IF Tokens(ctx') > Budget THEN "too_large" ELSE "model"
    BY <1>5 DEF ToolRound
  <2>2. PICK sizes \in [1..n -> Sizes] :
          LET raw == Append(ctx, Msg("assistant", "structured", 0)) \o [i \in 1..n |-> Msg("tool", "none", sizes[i])] IN
          IF Tokens(raw) <= Budget
            THEN ctx' = raw /\ full' = raw /\ phase' = "model"
            ELSE /\ full' = Merge(Repair(raw))
                 /\ ctx' = Optimize(raw)
                 /\ phase' = IF Tokens(ctx') > Budget THEN "too_large" ELSE "model"
    BY <2>1
  <2>3. phase = "model" /\ round' = round + 1 BY <1>5 DEF ToolRound
  <2> DEFINE request == Msg("assistant", "structured", 0)
             results == [i \in 1..n |-> Msg("tool", "none", sizes[i])]
             raw == Append(ctx, request) \o results
  <2>4. request \in Message /\ request.calls = "structured" /\ request.role = "assistant" BY DEF Msg, Message
  <2>5. results \in [1..n -> Message] /\ (\A i \in 1..n : results[i].role = "tool") /\ n \in Nat
    <3>1. n \in Nat BY ContextConstants
    <3>2. \A i \in 1..n : sizes[i] \in Nat BY ContextConstants
    <3>3. \A i \in 1..n : Msg("tool", "none", sizes[i]) \in Message /\ Msg("tool", "none", sizes[i]).role = "tool"
      BY <3>2 DEF Msg, Message
    <3> QED BY <3>1, <3>3
  <2>6. Local(ctx) BY <2>3 DEF ContextInv
  <2>7. raw \in Seq(Message) /\ Local(raw)
    <3> HIDE DEF request, results
    <3> QED BY <1>1, <2>4, <2>5, <2>6, RoundIs
  <2>8. \/ ctx' = raw /\ full' = raw /\ phase' = "model"
        \/ full' = Merge(Repair(raw)) /\ ctx' = Optimize(raw) /\ phase' \in {"too_large", "model"}
    BY <2>2
  <2> HIDE DEF raw
  <2>9. /\ Optimize(raw) \in Seq(Message) /\ Local(Optimize(raw))
        /\ IsSuffix(Body(Optimize(raw)), Merge(Repair(raw))) \/ IsSuffix(Optimize(raw), Merge(Repair(raw)))
    BY <2>7, OptimizeIs
  <2>10. IsSuffix(raw, raw)
    <3>1. SubSeq(raw, 1, Len(raw)) = raw /\ 1 \in 1..(Len(raw) + 1) BY <2>7
    <3> QED BY <2>7, <3>1, EndIsSuffix
  <2>11. ContextInv' BY <1>1, <2>3, <2>7, <2>8, <2>9 DEF ContextInv
  <2>12. ToolResultsAnchored' BY <1>2, <2>7, <2>8, <2>9
  <2>13. OldestDroppedFirst' BY <2>8, <2>9, <2>10 DEF OldestDroppedFirst
  <2>14. QuestionSent' BY <1>1, <2>3 DEF QuestionSent
  <2>15. SummarisedOnce' BY <2>8 DEF SummarisedOnce
  <2> QED BY <2>11, <2>12, <2>13, <2>14, <2>15 DEF ContextSound
<1>6. CASE Answer
  <2>1. phase = "model" /\ phase' = "answered" /\ UNCHANGED <<ctx, full, round, summary>> BY <1>6 DEF Answer
  <2>2. ContextInv' BY <2>1 DEF ContextInv
  <2>3. ToolResultsAnchored' BY <2>1 DEF ContextSound, ToolResultsAnchored, Sent
  <2>4. OldestDroppedFirst' BY <2>1 DEF ContextSound, OldestDroppedFirst, Sent
  <2>5. QuestionSent' /\ SummarisedOnce' BY <2>1 DEF QuestionSent, SummarisedOnce
  <2> QED BY <2>2, <2>3, <2>4, <2>5 DEF ContextSound
<1>7. CASE UNCHANGED vars
  <2>1. ContextInv' BY <1>7 DEF ContextInv, vars
  <2>2. ToolResultsAnchored' BY <1>7 DEF ContextSound, ToolResultsAnchored, Sent, vars
  <2>3. OldestDroppedFirst' BY <1>7 DEF ContextSound, OldestDroppedFirst, Sent, vars
  <2>4. QuestionSent' BY <1>7 DEF ContextSound, QuestionSent, vars
  <2>5. SummarisedOnce' BY <1>7 DEF ContextSound, SummarisedOnce, vars
  <2> QED BY <2>1, <2>2, <2>3, <2>4, <2>5 DEF ContextSound
<1> QED BY <1>3, <1>4, <1>5, <1>6, <1>7 DEF Next, Done

THEOREM ContextIsSound == Spec => []ContextSound
<1> QED BY ContextIndInit, ContextIndNext, PTL DEF Spec

----------------------------------------------------------------------------
(* The memory index. The folds of Others and of chunk_text first, then the *)
(* batches of embeddings, then the sync.                                   *)

\* The fold of Others, value by value.
OthersSteps(f, S, s, values) ==
  /\ f \in [0..Len(s) -> Seq(S)] /\ f[0] = <<>> /\ f[Len(s)] = Others(s, values)
  /\ \A n \in 1..Len(s) : f[n] = IF s[n] \in values THEN f[n - 1] ELSE Append(f[n - 1], s[n])

LEMMA OthersFolds ==
  ASSUME NEW S, NEW s \in Seq(S), NEW values
  PROVE  \E f : OthersSteps(f, S, s, values)
<1> DEFINE N == Len(s)
           T == Seq(S)
           b == <<>>
           Op(kept, x) == IF x \in values THEN kept ELSE Append(kept, x)
           G == [x \in T \X (1..N) |-> Op(x[1], s[x[2]])]
           Eq(h) == h = [p \in SUBSET (DOMAIN s) |-> IF p = {} THEN b ELSE Op(h[p \ {Max(p)}], s[Max(p)])]
           h == CHOOSE h : Eq(h)
           v == FoldLeft(Op, b, s)
<1>1. N \in Nat /\ DOMAIN s = 1..N OBVIOUS
<1>2. b \in T /\ G \in [T \X (1..N) -> T]
  <2>1. ASSUME NEW kept \in T, NEW k \in 1..N PROVE Op(kept, s[k]) \in T
    <3>1. s[k] \in S BY <1>1
    <3>2. Append(kept, s[k]) \in T BY <3>1
    <3> QED BY <3>2
  <2>2. \A x \in T \X (1..N) : x[1] \in T /\ x[2] \in 1..N OBVIOUS
  <2>3. b \in T OBVIOUS
  <2> HIDE DEF T, Op
  <2>4. \A x \in T \X (1..N) : Op(x[1], s[x[2]]) \in T BY <2>1, <2>2
  <2> QED BY <2>3, <2>4
<1>3. \A p \in SUBSET (1..N) : p # {} => Max(p) \in 1..N
  <2> HIDE DEF N
  <2>1. \A p \in SUBSET (1..N) : p \in SUBSET (0..N) BY <1>1
  <2> QED BY <1>1, <2>1, FirstAndLast
<1>4. \E g : Eq(g)
  <2>1. PICK g : Iterates(g, N, T, b, G)
    <3> HIDE DEF G, T, N, b
    <3> QED BY <1>1, <1>2, FoldIterates
  <2> HIDE DEF Op
  <2>2. \A p \in SUBSET (1..N) : p # {} => g[p] = Op(g[p \ {Max(p)}], s[Max(p)]) BY <1>3, <2>1 DEF Iterates
  <2> QED BY <1>1, <2>1, <2>2 DEF Iterates
<1>5. Eq(h) BY <1>4
<1>6. v = h[1..N] BY <1>1 DEF FoldLeft, MapThenFoldSet
<1> HIDE DEF h, v
<1>7. Recurs(h, N, T, b, G, v)
  <2> HIDE DEF Op
  <2> QED BY <1>1, <1>3, <1>5, <1>6 DEF Recurs
<1>8. PICK f : Stepwise(f, N, T, b, G, v)
  <2> HIDE DEF G, T, N, b, Eq
  <2>1. N \in Nat /\ b \in T /\ G \in [T \X (1..N) -> T] /\ Recurs(h, N, T, b, G, v) BY <1>1, <1>2, <1>7
  <2>2. \E f : Stepwise(f, N, T, b, G, v) BY <2>1, FoldSteps
  <2> QED BY <2>2
<1>9. ASSUME NEW n \in 1..N PROVE f[n] = Op(f[n - 1], s[n])
  <2> HIDE DEF Op
  <2>1. n - 1 \in 0..N BY <1>1
  <2>2. f[n - 1] \in T BY <1>8, <2>1 DEF Stepwise
  <2> QED BY <1>8, <2>2 DEF Stepwise
<1>10. v = Others(s, values) BY DEF Others, v
<1> QED BY <1>8, <1>9, <1>10 DEF Stepwise, OthersSteps

\* The places of what is left, up to a place.
Left(s, values, n) == {k \in 1..n : s[k] \notin values}

\* The n-th value that is left is the one with n places left up to its own.
LEMMA OthersIs ==
  ASSUME NEW S, NEW s \in Seq(S), NEW values
  PROVE  /\ Others(s, values) \in Seq(S)
         /\ \A i \in 1..Len(Others(s, values)) : Others(s, values)[i] \notin values
         /\ \A i \in 1..Len(s) : s[i] \notin values =>
              /\ Cardinality(Left(s, values, i)) \in 1..Len(Others(s, values))
              /\ Others(s, values)[Cardinality(Left(s, values, i))] = s[i]
<1> DEFINE N == Len(s)
           J(i) == Cardinality(Left(s, values, i))
<1>0. PICK f : OthersSteps(f, S, s, values) BY OthersFolds
<1>1. /\ f \in [0..N -> Seq(S)] /\ f[0] = <<>> /\ f[N] = Others(s, values)
      /\ \A n \in 1..N : f[n] = IF s[n] \in values THEN f[n - 1] ELSE Append(f[n - 1], s[n])
  BY <1>0 DEF OthersSteps
<1>2. N \in Nat /\ \A n \in 1..N : s[n] \in S OBVIOUS
<1> DEFINE Fine(n) ==
             /\ Len(f[n]) = J(n)
             /\ \A i \in 1..Len(f[n]) : f[n][i] \notin values
             /\ \A i \in 1..n : s[i] \notin values => J(i) \in 1..Len(f[n]) /\ f[n][J(i)] = s[i]
           H == {n \in 0..N : Fine(n)}
<1>3. \A n \in 0..N : IsFiniteSet(Left(s, values, n)) /\ J(n) \in Nat
  <2> SUFFICES ASSUME NEW n \in 0..N PROVE IsFiniteSet(Left(s, values, n)) /\ J(n) \in Nat OBVIOUS
  <2>1. IsFiniteSet(1..n) BY <1>2, FS_Interval
  <2>2. IsFiniteSet(Left(s, values, n)) BY <2>1, FS_Subset DEF Left
  <2> QED BY <2>2, FS_CardinalityType
<1>4. ASSUME NEW n \in 0..(N - 1)
      PROVE  /\ s[n + 1] \in values => J(n + 1) = J(n)
             /\ s[n + 1] \notin values => J(n + 1) = J(n) + 1
  <2>1. 1..(n + 1) = (1..n) \cup {n + 1} /\ n + 1 \notin 1..n /\ n \in 0..N BY <1>2
  <2>2. s[n + 1] \in values => Left(s, values, n + 1) = Left(s, values, n) BY <2>1 DEF Left
  <2>3. /\ s[n + 1] \notin values => Left(s, values, n + 1) = Left(s, values, n) \cup {n + 1}
        /\ n + 1 \notin Left(s, values, n)
    BY <2>1 DEF Left
  <2>4. Cardinality(Left(s, values, n) \cup {n + 1}) = Cardinality(Left(s, values, n)) + 1
    BY <1>3, <2>1, <2>3, FS_AddElement
  <2> QED BY <2>2, <2>3, <2>4
<1> HIDE DEF J
<1>5. 0 \in H
  <2>1. J(0) = 0
    <3>1. Left(s, values, 0) = {} BY DEF Left
    <3> QED BY <3>1, FS_EmptySet DEF J
  <2>2. Len(f[0]) = 0 /\ 1..0 = {} BY <1>1
  <2> QED BY <1>2, <2>1, <2>2
<1>6. ASSUME NEW n \in 0..(N - 1), n \in H PROVE n + 1 \in H
  <2>1. n + 1 \in 1..N /\ n + 1 - 1 = n /\ n \in 0..N /\ n + 1 \in 0..N BY <1>2
  <2>2. f[n] \in Seq(S) /\ Fine(n) /\ s[n + 1] \in S /\ J(n) \in Nat BY <1>1, <1>2, <1>3, <1>6, <2>1
  <2>3. f[n + 1] = IF s[n + 1] \in values THEN f[n] ELSE Append(f[n], s[n + 1]) BY <1>1, <2>1
  <2>4. \A i \in 1..(n + 1) : i \in 1..n \/ i = n + 1 BY <2>1
  <2>5. CASE s[n + 1] \in values
    <3>1. Fine(n + 1) BY <1>4, <2>2, <2>3, <2>4, <2>5
    <3> QED BY <2>1, <3>1
  <2>6. CASE s[n + 1] \notin values
    <3> DEFINE app == Append(f[n], s[n + 1])
    <3>1. J(n + 1) = J(n) + 1 /\ Len(f[n]) = J(n) BY <1>4, <2>2, <2>6
    <3>2. /\ Len(app) = J(n) + 1 /\ app[J(n) + 1] = s[n + 1]
          /\ \A i \in 1..J(n) : app[i] = f[n][i]
      <4> HIDE DEF Fine
      <4> QED BY <2>2, <3>1
    <3>3. f[n + 1] = app BY <2>3, <2>6
    <3> HIDE DEF app
    <3>4. \A i \in 1..(J(n) + 1) : i \in 1..J(n) \/ i = J(n) + 1 BY <2>2
    <3>5. \A i \in 1..Len(app) : app[i] \notin values BY <2>2, <2>6, <3>1, <3>2, <3>4
    <3>6. \A i \in 1..n : s[i] \notin values => J(i) \in 1..J(n) /\ app[J(i)] = s[i] BY <2>2, <3>1, <3>2
    <3>7. J(n + 1) \in 1..(J(n) + 1) BY <2>2, <3>1
    <3>8. \A i \in 1..(n + 1) : s[i] \notin values => J(i) \in 1..Len(app) /\ app[J(i)] = s[i]
      <4>1. \A i \in 1..n : s[i] \notin values => J(i) \in 1..(J(n) + 1) /\ app[J(i)] = s[i]
        <5>1. 1..J(n) \subseteq 1..(J(n) + 1) BY <2>2
        <5> QED BY <3>6, <5>1
      <4> QED BY <2>4, <3>1, <3>2, <3>7, <4>1
    <3>9. Fine(n + 1) BY <3>1, <3>2, <3>3, <3>5, <3>8
    <3> QED BY <2>1, <3>9
  <2> QED BY <2>5, <2>6
<1>7. \A n \in 0..N : n \in H
  <2> HIDE DEF H, N
  <2> QED BY <1>2, <1>5, <1>6, InductionUpTo
<1>8. Fine(N)
  <2>1. N \in 0..N BY <1>2
  <2> HIDE DEF Fine, N
  <2> QED BY <1>7, <2>1
<1>9. f[N] \in Seq(S) /\ f[N] = Others(s, values) /\ J(N) \in Nat /\ Len(f[N]) = J(N)
  <2>1. N \in 0..N BY <1>2
  <2> QED BY <1>1, <1>3, <1>8, <2>1
<1> HIDE DEF N
<1>10. /\ \A i \in 1..Len(f[N]) : f[N][i] \notin values
       /\ \A i \in 1..N : s[i] \notin values => J(i) \in 1..Len(f[N]) /\ f[N][J(i)] = s[i]
  BY <1>8
<1> QED BY <1>9, <1>10 DEF J, N

Uncached(texts, cache) == {i \in 1..Len(texts) : texts[i] \notin cache}

\* Answers that were short at the end only come in the places of their texts.
LEMMA ConcatenatedIs ==
  ASSUME NEW S, NEW asked \in Seq(S), NEW places \in Answers(asked), 1..(Len(asked) - 1) \subseteq places
  PROVE  LET fresh == Concatenated(asked, places)
         IN /\ Len(fresh) \in 0..Len(asked) /\ fresh \in Seq(S)
            /\ \A j \in 1..Len(fresh) : fresh[j] = asked[j]
<1> DEFINE L == Len(asked)
           fresh == Concatenated(asked, places)
           Place(j) == CHOOSE i \in places : Cardinality({k \in places : k <= i}) = j
<1>1. L \in Nat /\ places \subseteq 1..L BY DEF Answers
<1>2. PICK n \in 0..L : places = 1..n
  <2>1. CASE L \in places
    <3>1. \A i \in 1..L : i \in 1..(L - 1) \/ i = L BY <1>1
    <3>2. places = 1..L BY <1>1, <2>1, <3>1
    <3> QED BY <1>1, <3>2
  <2>2. CASE L \notin places
    <3>1. \A i \in 1..L : i # L => i \in 1..(L - 1) BY <1>1
    <3>2. places = 1..(L - 1) BY <1>1, <2>2, <3>1
    <3>3. L = 0 => 1..(L - 1) = 1..0 BY <1>1
    <3>4. L # 0 => L - 1 \in 0..L BY <1>1
    <3>5. 0 \in 0..L BY <1>1
    <3> HIDE DEF L
    <3> QED BY <3>2, <3>3, <3>4, <3>5
  <2> QED BY <2>1, <2>2
<1>3. \A i \in 0..n : Cardinality(1..i) = i
  <2> SUFFICES ASSUME NEW i \in 0..n PROVE Cardinality(1..i) = i OBVIOUS
  <2>1. i \in Nat BY <1>1, <1>2
  <2>2. Cardinality(1..i) = IF 1 > i THEN 0 ELSE i - 1 + 1 BY <2>1, FS_Interval
  <2> QED BY <2>1, <2>2
<1>4. \A j \in 1..n : Place(j) = j
  <2> SUFFICES ASSUME NEW j \in 1..n PROVE Place(j) = j OBVIOUS
  <2>1. \A i \in 1..n : {k \in 1..n : k <= i} = 1..i /\ i \in 0..n BY <1>1, <1>2
  <2>2. \A i \in 1..n : Cardinality({k \in places : k <= i}) = i BY <1>2, <1>3, <2>1
  <2>3. \E i \in places : Cardinality({k \in places : k <= i}) = j BY <1>2, <2>2
  <2>4. \A i \in places : Cardinality({k \in places : k <= i}) = j => i = j BY <1>2, <2>2
  <2> QED BY <2>3, <2>4
<1>5. Cardinality(places) = n /\ n \in Nat BY <1>1, <1>2, <1>3
<1>6. fresh = [j \in 1..n |-> asked[Place(j)]] BY <1>5 DEF Concatenated
<1>7. \A j \in 1..n : fresh[j] = asked[j] BY <1>4, <1>6
<1>8. Len(fresh) = n BY <1>5, <1>6
<1> HIDE DEF fresh, Place
<1>9. fresh \in Seq(S)
  <2>1. \A j \in 1..n : asked[Place(j)] \in S
    <3>1. \A j \in 1..n : j \in 1..L BY <1>1, <1>2
    <3> QED BY <1>4, <3>1
  <2> QED BY <1>5, <1>6, <2>1
<1> QED BY <1>2, <1>7, <1>8, <1>9 DEF fresh

\* The cache gives a text its own embedding.
Faithful(cache) == \A t \in DOMAIN cache : cache[t] = t

\* It still does once such answers are put into it.
LEMMA PutCachedIs ==
  ASSUME NEW S, NEW asked \in Seq(S), NEW places \in Answers(asked), 1..(Len(asked) - 1) \subseteq places,
         Faithful(mxCache)
  PROVE  Faithful(put_cached(asked, Concatenated(asked, places)))
<1> DEFINE fresh == Concatenated(asked, places)
           n == Len(fresh)
           last(t) == Max({j \in 1..n : asked[j] = t})
           new == DOMAIN mxCache \cup {asked[j] : j \in 1..n}
<1>1. n \in Nat /\ \A j \in 1..n : fresh[j] = asked[j]
  <2>1. Len(fresh) \in 0..Len(asked) /\ \A j \in 1..Len(fresh) : fresh[j] = asked[j] BY ConcatenatedIs
  <2> QED BY <2>1
<1> HIDE DEF n
<1>2. ASSUME NEW t \in new, t \notin DOMAIN mxCache PROVE fresh[last(t)] = t
  <2> DEFINE these == {j \in 1..n : asked[j] = t}
  <2>1. these \in SUBSET (0..n) /\ these # {} BY <1>1, <1>2
  <2>2. last(t) \in these
    <3> HIDE DEF these
    <3>1. Max(these) \in these BY <1>1, <2>1, FirstAndLast
    <3> QED BY <3>1 DEF these
  <2> QED BY <1>1, <2>2
<1>3. put_cached(asked, fresh) = [t \in new |-> IF t \in DOMAIN mxCache THEN mxCache[t] ELSE fresh[last(t)]]
  BY DEF put_cached, n
<1> HIDE DEF new, last, fresh
<1>4. \A t \in new : put_cached(asked, fresh)[t] = t BY <1>2, <1>3 DEF Faithful
<1>5. DOMAIN put_cached(asked, fresh) = new BY <1>3
<1>6. Faithful(put_cached(asked, fresh)) BY <1>4, <1>5 DEF Faithful
<1> QED BY <1>6 DEF fresh

\* A text gets its own embedding, or none, if the answers were short at the end only.
LEMMA EmbedBatchIs ==
  ASSUME NEW S, NEW texts \in Seq(S), NEW places \in Answers(Others(texts, DOMAIN mxCache)),
         1..(Len(Others(texts, DOMAIN mxCache)) - 1) \subseteq places, Faithful(mxCache)
  PROVE  LET fresh == Concatenated(Others(texts, DOMAIN mxCache), places)
         IN \A i \in 1..Len(texts) :
              embed_batch(texts, fresh, Uncached(texts, DOMAIN mxCache))[i] \in {<<>>, texts[i]}
<1> DEFINE cache == DOMAIN mxCache
           asked == Others(texts, cache)
           fresh == Concatenated(asked, places)
           uncached == Uncached(texts, cache)
<1>1. \A i \in 1..Len(texts) : i \notin uncached => texts[i] \in cache BY DEF Uncached
<1>2. asked \in Seq(S) BY OthersIs
<1> HIDE DEF uncached, asked
<1>3. Len(fresh) \in 0..Len(asked) /\ \A j \in 1..Len(fresh) : fresh[j] = asked[j]
  BY <1>2, ConcatenatedIs DEF asked
<1> HIDE DEF fresh
<1> SUFFICES ASSUME NEW i \in 1..Len(texts) PROVE embed_batch(texts, fresh, uncached)[i] \in {<<>>, texts[i]}
  BY DEF fresh, asked, uncached
<1> DEFINE j == Cardinality({k \in uncached : k <= i})
<1>4. embed_batch(texts, fresh, uncached)[i] =
        IF i \notin uncached THEN mxCache[texts[i]] ELSE IF j <= Len(fresh) THEN fresh[j] ELSE <<>>
  BY DEF embed_batch
<1>5. CASE i \notin uncached BY <1>1, <1>4, <1>5 DEF Faithful
<1>6. CASE i \in uncached
  <2>1. texts[i] \notin cache BY <1>6 DEF Uncached, uncached
  <2>2. {k \in uncached : k <= i} = Left(texts, cache, i) BY DEF Left, Uncached, uncached
  <2>3. j \in 1..Len(asked) /\ asked[j] = texts[i]
    <3> DEFINE l == Cardinality(Left(texts, cache, i))
    <3>1. l \in 1..Len(asked) /\ asked[l] = texts[i] BY <2>1, OthersIs DEF asked
    <3>2. j = l BY <2>2
    <3> HIDE DEF j, l
    <3> QED BY <3>1, <3>2
  <2> HIDE DEF j
  <2>4. j <= Len(fresh) => j \in 1..Len(fresh) BY <1>3, <2>3
  <2> QED BY <1>3, <1>4, <1>6, <2>3, <2>4
<1> QED BY <1>5, <1>6

\* A chunk of a file: some of its lines, and their text.
Pieces(lines) == {[index |-> i, from |-> a, to |-> b, text |-> Trimmed(lines, a, b)] : i, a, b \in Nat}

\* Chunks in their order, none of which reaches beyond the line n.
WellCut(chunks, lines, n) ==
  /\ chunks \in Seq(Pieces(lines))
  /\ \A i \in 1..Len(chunks) : chunks[i].index = i - 1 /\ chunks[i].to <= n
  /\ \A i, j \in 1..Len(chunks) : i < j => chunks[i].to < chunks[j].from

Covered(chunks, m) == \E i \in 1..Len(chunks) : chunks[i].from <= m /\ m <= chunks[i].to

\* What has been collected of the first n lines.
Collected(acc, lines, n) ==
  /\ acc.from \in 0..n /\ WellCut(acc.chunks, lines, n)
  /\ acc.from > 0 => \A i \in 1..Len(acc.chunks) : acc.chunks[i].to < acc.from
  /\ \A m \in 1..n : ~Blank(lines[m]) => (acc.from > 0 /\ m >= acc.from) \/ Covered(acc.chunks, m)

Collecting(lines) == [from : Nat, chunks : Seq(Pieces(lines))]

LEMMA PieceIs ==
  ASSUME NEW lines, NEW p \in Pieces(lines)
  PROVE  /\ p.index \in Nat /\ p.from \in Nat /\ p.to \in Nat /\ p.text = Trimmed(lines, p.from, p.to)
         /\ p = [index |-> p.index, from |-> p.from, to |-> p.to, text |-> p.text]
<1>1. PICK i \in Nat, a \in Nat, b \in Nat : p = [index |-> i, from |-> a, to |-> b, text |-> Trimmed(lines, a, b)]
  BY DEF Pieces
<1> HIDE DEF Trimmed
<1> QED BY <1>1

\* The chunk being collected is finished.
LEMMA ChunkIs ==
  ASSUME NEW lines, NEW acc \in Collecting(lines), NEW to \in Nat, WellCut(acc.chunks, lines, to),
         \A i \in 1..Len(acc.chunks) : acc.chunks[i].to < acc.from
  PROVE  LET chunks == Append(acc.chunks, Chunk(lines, acc, to))
         IN /\ Chunk(lines, acc, to) \in Pieces(lines) /\ WellCut(chunks, lines, to)
            /\ \A m \in Nat : Covered(chunks, m) <=> Covered(acc.chunks, m) \/ (acc.from <= m /\ m <= to)
<1> DEFINE c == Chunk(lines, acc, to)
           L == Len(acc.chunks)
           chunks == Append(acc.chunks, c)
<1>1. acc.chunks \in Seq(Pieces(lines)) /\ acc.from \in Nat /\ L \in Nat BY DEF Collecting
<1>2. c \in Pieces(lines) /\ c.index = L /\ c.from = acc.from /\ c.to = to
  <2> HIDE DEF Trimmed
  <2> QED BY <1>1 DEF Chunk, Pieces
<1> HIDE DEF c
<1>3. /\ chunks \in Seq(Pieces(lines)) /\ Len(chunks) = L + 1 /\ chunks[L + 1] = c
      /\ \A i \in 1..L : chunks[i] = acc.chunks[i]
  BY <1>1, <1>2
<1> HIDE DEF chunks
<1>4. \A i \in 1..(L + 1) : i \in 1..L \/ i = L + 1 BY <1>1
<1>5. L + 1 \in 1..(L + 1) /\ 1..L \subseteq 1..(L + 1) /\ (L + 1) - 1 = L BY <1>1
<1>6. \A i \in 1..(L + 1) : chunks[i].index = i - 1 /\ chunks[i].to <= to
  <2>1. \A i \in 1..L : chunks[i].index = i - 1 /\ chunks[i].to <= to BY <1>3 DEF WellCut
  <2>2. to <= to OBVIOUS
  <2> QED BY <1>2, <1>3, <1>4, <1>5, <2>1, <2>2
<1>7. ASSUME NEW i \in 1..(L + 1), NEW j \in 1..(L + 1), i < j PROVE chunks[i].to < chunks[j].from
  <2>1. i \in 1..L BY <1>1, <1>7
  <2>2. CASE j \in 1..L BY <1>3, <1>7, <2>1, <2>2 DEF WellCut
  <2>3. CASE j = L + 1 BY <1>2, <1>3, <2>1, <2>3
  <2> QED BY <1>4, <2>2, <2>3
<1>8. WellCut(chunks, lines, to) BY <1>3, <1>6, <1>7 DEF WellCut
<1>9. ASSUME NEW m \in Nat PROVE Covered(chunks, m) <=> Covered(acc.chunks, m) \/ (acc.from <= m /\ m <= to)
  BY <1>2, <1>3, <1>4, <1>5 DEF Covered
<1> QED BY <1>2, <1>8, <1>9 DEF chunks, c

\* One more line.
LEMMA LineIs ==
  ASSUME NEW lines, NEW n \in Nat \ {0}, NEW acc \in Collecting(lines)
  PROVE  /\ Line(lines, acc, n) \in Collecting(lines)
         /\ Collected(acc, lines, n - 1) => Collected(Line(lines, acc, n), lines, n)
<1>1. acc.chunks \in Seq(Pieces(lines)) /\ acc.from \in Nat /\ Len(acc.chunks) \in Nat /\ n - 1 \in Nat
  BY DEF Collecting
<1>2. Chunk(lines, acc, n - 1) \in Pieces(lines)
  <2> HIDE DEF Trimmed
  <2> QED BY <1>1 DEF Chunk, Pieces
<1>3. \A m \in 1..n : m \in 1..(n - 1) \/ m = n OBVIOUS
<1>4. ASSUME Collected(acc, lines, n - 1)
      PROVE  WellCut(acc.chunks, lines, n) /\ acc.from \in 0..n
  <2>1. WellCut(acc.chunks, lines, n - 1) /\ acc.from \in 0..(n - 1) BY <1>4 DEF Collected
  <2>2. \A i \in 1..Len(acc.chunks) : acc.chunks[i] \in Pieces(lines) BY <1>1
  <2>3. \A i \in 1..Len(acc.chunks) : acc.chunks[i].to \in Nat BY <2>2, PieceIs
  <2>4. \A i \in 1..Len(acc.chunks) : acc.chunks[i].to <= n BY <1>1, <2>1, <2>3 DEF WellCut
  <2>5. acc.from \in 0..n BY <2>1
  <2> QED BY <2>1, <2>4, <2>5 DEF WellCut
<1>5. CASE Cut(lines, acc, n)
  <2> DEFINE chunks == Append(acc.chunks, Chunk(lines, acc, n - 1))
             new == [from |-> 0, chunks |-> chunks]
  <2>1. Line(lines, acc, n) = new BY <1>5 DEF Line
  <2>2. chunks \in Seq(Pieces(lines)) BY <1>1, <1>2
  <2>3. new \in Collecting(lines)
    <3> HIDE DEF chunks
    <3> QED BY <2>2 DEF Collecting
  <2>4. ASSUME Collected(acc, lines, n - 1) PROVE Collected(new, lines, n)
    <3>1. acc.from > 0 /\ Blank(lines[n]) BY <1>5 DEF Cut
    <3>2. \A i \in 1..Len(acc.chunks) : acc.chunks[i].to < acc.from BY <2>4, <3>1 DEF Collected
    <3>3. WellCut(acc.chunks, lines, n - 1) BY <2>4 DEF Collected
    <3>4. /\ WellCut(chunks, lines, n - 1)
          /\ \A m \in Nat : Covered(chunks, m) <=> Covered(acc.chunks, m) \/ (acc.from <= m /\ m <= n - 1)
      BY <1>1, <3>2, <3>3, ChunkIs
    <3> HIDE DEF chunks
    <3>5. \A i \in 1..Len(chunks) : chunks[i].to \in Nat
      <4>1. \A i \in 1..Len(chunks) : chunks[i] \in Pieces(lines) BY <2>2
      <4> QED BY <4>1, PieceIs
    <3>6. WellCut(chunks, lines, n) BY <1>1, <3>4, <3>5 DEF WellCut
    <3>7. \A m \in 1..(n - 1) : ~Blank(lines[m]) => (m >= acc.from) \/ Covered(acc.chunks, m) BY <2>4 DEF Collected
    <3>8. \A m \in 1..(n - 1) : ~Blank(lines[m]) => Covered(chunks, m) BY <1>1, <3>4, <3>7
    <3>9. \A m \in 1..n : ~Blank(lines[m]) => Covered(chunks, m) BY <1>3, <3>1, <3>8
    <3>10. new.from = 0 /\ new.chunks = chunks OBVIOUS
    <3> HIDE DEF new
    <3> QED BY <3>6, <3>9, <3>10 DEF Collected
  <2> QED BY <2>1, <2>3, <2>4
<1>6. CASE ~Cut(lines, acc, n) /\ acc.from = 0 /\ ~Blank(lines[n])
  <2> DEFINE new == [acc EXCEPT !.from = n]
  <2>1. Line(lines, acc, n) = new BY <1>6 DEF Line
  <2>2. new \in Collecting(lines) /\ new.from = n /\ new.chunks = acc.chunks BY DEF Collecting
  <2> HIDE DEF new
  <2>3. ASSUME Collected(acc, lines, n - 1) PROVE Collected(new, lines, n)
    <3>1. WellCut(new.chunks, lines, n) BY <1>4, <2>2, <2>3
    <3>2. \A i \in 1..Len(acc.chunks) : acc.chunks[i] \in Pieces(lines) BY <1>1
    <3>3. \A i \in 1..Len(acc.chunks) : acc.chunks[i].to \in Nat BY <3>2, PieceIs
    <3>4. \A i \in 1..Len(acc.chunks) : acc.chunks[i].to <= n - 1 BY <2>3 DEF Collected, WellCut
    <3>5. \A i \in 1..Len(new.chunks) : new.chunks[i].to < new.from BY <1>1, <2>2, <3>3, <3>4
    <3>6. \A m \in 1..(n - 1) : ~Blank(lines[m]) => Covered(acc.chunks, m) BY <1>6, <2>3 DEF Collected
    <3>7. \A m \in 1..n : ~Blank(lines[m]) => (new.from > 0 /\ m >= new.from) \/ Covered(new.chunks, m)
      BY <1>3, <2>2, <3>6
    <3> QED BY <2>2, <3>1, <3>5, <3>7 DEF Collected
  <2> QED BY <2>1, <2>2, <2>3
<1>7. CASE ~Cut(lines, acc, n) /\ ~(acc.from = 0 /\ ~Blank(lines[n]))
  <2>1. Line(lines, acc, n) = acc BY <1>7 DEF Line
  <2>2. ASSUME Collected(acc, lines, n - 1) PROVE Collected(acc, lines, n)
    <3>1. \A m \in 1..(n - 1) : ~Blank(lines[m]) => (acc.from > 0 /\ m >= acc.from) \/ Covered(acc.chunks, m)
      BY <2>2 DEF Collected
    <3>2. ~Blank(lines[n]) => acc.from > 0 /\ n >= acc.from BY <1>1, <1>4, <1>7, <2>2
    <3>3. \A m \in 1..n : ~Blank(lines[m]) => (acc.from > 0 /\ m >= acc.from) \/ Covered(acc.chunks, m)
      BY <1>3, <3>1, <3>2
    <3>4. acc.from > 0 => \A i \in 1..Len(acc.chunks) : acc.chunks[i].to < acc.from BY <2>2 DEF Collected
    <3> QED BY <1>4, <2>2, <3>3, <3>4 DEF Collected
  <2> QED BY <2>1, <2>2
<1> QED BY <1>5, <1>6, <1>7

\* The lines of a file one after the other.
LineSteps(f, lines, v) ==
  /\ f \in [0..Len(lines) -> Collecting(lines)] /\ f[0] = [from |-> 0, chunks |-> <<>>] /\ f[Len(lines)] = v
  /\ \A n \in 1..Len(lines) : f[n] = Line(lines, f[n - 1], n)

LEMMA LineFolds ==
  ASSUME NEW S, NEW lines \in Seq(S)
  PROVE  \E f : LineSteps(f, lines, FoldLeft(LAMBDA acc, n : Line(lines, acc, n), [from |-> 0, chunks |-> <<>>],
                                             [n \in 1..Len(lines) |-> n]))
<1> DEFINE N == Len(lines)
           s == [n \in 1..N |-> n]
           T == Collecting(lines)
           b == [from |-> 0, chunks |-> <<>>]
           Op(acc, n) == Line(lines, acc, n)
           G == [x \in T \X (1..N) |-> Op(x[1], s[x[2]])]
           Eq(h) == h = [p \in SUBSET (DOMAIN s) |-> IF p = {} THEN b ELSE Op(h[p \ {Max(p)}], s[Max(p)])]
           h == CHOOSE h : Eq(h)
           v == FoldLeft(Op, b, s)
<1>1. N \in Nat /\ DOMAIN s = 1..N /\ \A n \in 1..N : s[n] = n /\ n \in Nat \ {0} OBVIOUS
<1>2. b \in T /\ G \in [T \X (1..N) -> T]
  <2>1. ASSUME NEW acc \in T, NEW k \in 1..N PROVE Op(acc, s[k]) \in T BY <1>1, LineIs
  <2>2. \A x \in T \X (1..N) : x[1] \in T /\ x[2] \in 1..N OBVIOUS
  <2>3. b \in T BY DEF Collecting
  <2> HIDE DEF T, Op, s
  <2>4. \A x \in T \X (1..N) : Op(x[1], s[x[2]]) \in T BY <2>1, <2>2
  <2> QED BY <2>3, <2>4
<1> HIDE DEF s
<1>3. \A p \in SUBSET (1..N) : p # {} => Max(p) \in 1..N
  <2> HIDE DEF N
  <2>1. \A p \in SUBSET (1..N) : p \in SUBSET (0..N) BY <1>1
  <2> QED BY <1>1, <2>1, FirstAndLast
<1>4. \E g : Eq(g)
  <2>1. PICK g : Iterates(g, N, T, b, G)
    <3> HIDE DEF G, T, N, b
    <3> QED BY <1>1, <1>2, FoldIterates
  <2> HIDE DEF Op
  <2>2. \A p \in SUBSET (1..N) : p # {} => g[p] = Op(g[p \ {Max(p)}], s[Max(p)]) BY <1>3, <2>1 DEF Iterates
  <2>3. g = [p \in SUBSET (1..N) |-> g[p]] BY <2>1 DEF Iterates
  <2>4. \A p \in SUBSET (1..N) : g[p] = IF p = {} THEN b ELSE Op(g[p \ {Max(p)}], s[Max(p)])
    BY <2>1, <2>2 DEF Iterates
  <2> HIDE DEF b, N, T, G
  <2>5. g = [p \in SUBSET (1..N) |-> IF p = {} THEN b ELSE Op(g[p \ {Max(p)}], s[Max(p)])] BY <2>3, <2>4
  <2> QED BY <1>1, <2>5
<1>5. Eq(h) BY <1>4
<1>6. v = h[1..N] BY <1>1 DEF FoldLeft, MapThenFoldSet
<1> HIDE DEF h, v
<1>7. Recurs(h, N, T, b, G, v)
  <2> HIDE DEF Op
  <2> QED BY <1>1, <1>3, <1>5, <1>6 DEF Recurs
<1>8. PICK f : Stepwise(f, N, T, b, G, v)
  <2> HIDE DEF G, T, N, b, Eq
  <2>1. N \in Nat /\ b \in T /\ G \in [T \X (1..N) -> T] /\ Recurs(h, N, T, b, G, v) BY <1>1, <1>2, <1>7
  <2>2. \E f : Stepwise(f, N, T, b, G, v) BY <2>1, FoldSteps
  <2> QED BY <2>2
<1>9. ASSUME NEW n \in 1..N PROVE f[n] = Op(f[n - 1], n)
  <2> HIDE DEF Op
  <2>1. n - 1 \in 0..N BY <1>1
  <2>2. f[n - 1] \in T BY <1>8, <2>1 DEF Stepwise
  <2> QED BY <1>1, <1>8, <2>2 DEF Stepwise
<1>10. LineSteps(f, lines, v) BY <1>8, <1>9 DEF Stepwise, LineSteps
<1> QED BY <1>10 DEF v, s

\* chunk_text: chunks in order that hold every line with text once.
LEMMA ChunkTextIs ==
  ASSUME NEW S, NEW lines \in Seq(S)
  PROVE  /\ WellCut(chunk_text(lines), lines, Len(lines))
         /\ \A m \in 1..Len(lines) : ~Blank(lines[m]) => Covered(chunk_text(lines), m)
<1> DEFINE N == Len(lines)
           end == FoldLeft(LAMBDA acc, n : Line(lines, acc, n), [from |-> 0, chunks |-> <<>>],
                           [n \in 1..Len(lines) |-> n])
<1>1. PICK f : LineSteps(f, lines, end) BY LineFolds
<1>2. N \in Nat OBVIOUS
<1>3. chunk_text(lines) = IF end.from = 0 THEN end.chunks ELSE Append(end.chunks, Chunk(lines, end, N))
  BY DEF chunk_text
<1> HIDE DEF end
<1> DEFINE H == {n \in 0..N : Collected(f[n], lines, n)}
<1>4. 0 \in H
  <2>1. f[0].from = 0 /\ f[0].chunks = <<>> BY <1>1 DEF LineSteps
  <2>2. WellCut(<<>>, lines, 0) BY DEF WellCut
  <2>3. 1..0 = {} OBVIOUS
  <2> QED BY <1>2, <2>1, <2>2, <2>3 DEF Collected
<1>5. ASSUME NEW n \in 0..(N - 1), n \in H PROVE n + 1 \in H
  <2>1. n + 1 \in Nat \ {0} /\ n + 1 \in 1..N /\ n + 1 - 1 = n /\ n \in 0..N /\ n + 1 \in 0..N BY <1>2
  <2>2. f[n] \in Collecting(lines) /\ Collected(f[n], lines, n + 1 - 1) /\ f[n + 1] = Line(lines, f[n], n + 1)
    BY <1>1, <1>5, <2>1 DEF LineSteps
  <2>3. Collected(Line(lines, f[n], n + 1), lines, n + 1) BY <2>1, <2>2, LineIs
  <2> QED BY <2>1, <2>2, <2>3
<1>6. \A n \in 0..N : n \in H
  <2> HIDE DEF H, N
  <2> QED BY <1>2, <1>4, <1>5, InductionUpTo
<1>7. end \in Collecting(lines) /\ Collected(end, lines, N)
  <2>1. N \in 0..N BY <1>2
  <2> QED BY <1>1, <1>6, <2>1 DEF LineSteps
<1>8. CASE end.from = 0
  <2>1. chunk_text(lines) = end.chunks BY <1>3, <1>8
  <2> QED BY <1>7, <1>8, <2>1 DEF Collected
<1>9. CASE end.from # 0
  <2>1. end.from \in Nat /\ end.from > 0 BY <1>7, <1>9 DEF Collecting
  <2>2. /\ WellCut(end.chunks, lines, N) /\ \A i \in 1..Len(end.chunks) : end.chunks[i].to < end.from
        /\ \A m \in 1..N : ~Blank(lines[m]) => m >= end.from \/ Covered(end.chunks, m)
    BY <1>7, <2>1 DEF Collected
  <2> DEFINE chunks == Append(end.chunks, Chunk(lines, end, N))
  <2>3. /\ WellCut(chunks, lines, N)
        /\ \A m \in Nat : Covered(chunks, m) <=> Covered(end.chunks, m) \/ (end.from <= m /\ m <= N)
    <3> HIDE DEF N
    <3> QED BY <1>2, <1>7, <2>2, ChunkIs
  <2>4. chunk_text(lines) = chunks BY <1>3, <1>9
  <2> HIDE DEF chunks
  <2>5. \A m \in 1..N : m \in Nat /\ m <= N BY <1>2
  <2>6. \A m \in 1..N : ~Blank(lines[m]) => Covered(chunks, m) BY <2>1, <2>2, <2>3, <2>5
  <2> QED BY <2>3, <2>4, <2>6
<1> QED BY <1>8, <1>9

----------------------------------------------------------------------------
\* The embedding a chunk may have.
Fits(of, text, short) == of \in {<<>>, text} \/ short

\* Of a file's chunks the first n are stored and nothing else, the first e with an embedding.
PartOf(chunks, emb, f, pieces, n, e, short) ==
  /\ \A c \in chunks : c.source = f =>
       \E i \in 1..n : c = [source |-> f, index |-> pieces[i].index, from |-> pieces[i].from, to |-> pieces[i].to,
                            text |-> pieces[i].text]
  /\ \A i \in 1..n : [source |-> f, index |-> pieces[i].index, from |-> pieces[i].from, to |-> pieces[i].to,
                      text |-> pieces[i].text] \in chunks
  /\ \A i \in 1..e : \E r \in emb : r.source = f /\ r.index = pieces[i].index /\ Fits(r.of, pieces[i].text, short)

\* The chunks that wait to be stored, from the k-th on.
Remains(pending, pieces, k, short) ==
  /\ \E T : pending \in Seq(T)
  /\ Len(pending) = Len(pieces) + 1 - k
  /\ \A i \in 1..Len(pending) :
       pending[i].chunk = pieces[k + i - 1] /\ Fits(pending[i].of, pieces[k + i - 1].text, short)

LEMMA PartKept ==
  ASSUME NEW f, NEW pieces, NEW n, NEW e, NEW chunks, NEW emb, NEW short, PartOf(chunks, emb, f, pieces, n, e, short),
         NEW chunks2, NEW emb2, \A c : c.source = f => (c \in chunks <=> c \in chunks2),
         \A r \in emb : r.source = f => r \in emb2, NEW short2, short => short2
  PROVE  PartOf(chunks2, emb2, f, pieces, n, e, short2)
<1> DEFINE Row(i) == [source |-> f, index |-> pieces[i].index, from |-> pieces[i].from, to |-> pieces[i].to,
                      text |-> pieces[i].text]
<1>1. /\ \A c \in chunks : c.source = f => \E i \in 1..n : c = Row(i)
      /\ \A i \in 1..n : Row(i) \in chunks
      /\ \A i \in 1..e : \E r \in emb : r.source = f /\ r.index = pieces[i].index /\ Fits(r.of, pieces[i].text, short)
  BY DEF PartOf
<1>2. \A i : Row(i).source = f OBVIOUS
<1> HIDE DEF Row
<1>3. /\ \A c \in chunks2 : c.source = f => \E i \in 1..n : c = Row(i)
      /\ \A i \in 1..n : Row(i) \in chunks2
  BY <1>1, <1>2
<1>4. \A i \in 1..e : \E r \in emb2 : r.source = f /\ r.index = pieces[i].index /\ Fits(r.of, pieces[i].text, short2)
  BY <1>1 DEF Fits
<1> QED BY <1>3, <1>4 DEF PartOf, Row

\* The first chunk that waits is taken.
LEMMA RemainsTail ==
  ASSUME NEW S, NEW pieces \in Seq(S), NEW k \in 1..Len(pieces), NEW pending, NEW short,
         Remains(pending, pieces, k, short)
  PROVE  /\ pending # <<>> /\ Head(pending).chunk = pieces[k] /\ Fits(Head(pending).of, pieces[k].text, short)
         /\ IF Len(pending) > 1 THEN k + 1 \in 1..Len(pieces) /\ Remains(Tail(pending), pieces, k + 1, short)
            ELSE k = Len(pieces)
<1> DEFINE L == Len(pieces)
           n == Len(pending)
<1>0. PICK T : pending \in Seq(T) BY DEF Remains
<1>1. L \in Nat /\ pending \in Seq(T) /\ n = L + 1 - k /\ n \in Nat
      /\ \A i \in 1..n : pending[i].chunk = pieces[k + i - 1] /\ Fits(pending[i].of, pieces[k + i - 1].text, short)
  BY <1>0 DEF Remains
<1>2. pending # <<>> /\ n >= 1 /\ 1 \in 1..n /\ k + 1 - 1 = k BY <1>1
<1>3. Head(pending) = pending[1] BY <1>1, <1>2, HeadTailProperties
<1>4. pending[1].chunk = pieces[k] /\ Fits(pending[1].of, pieces[k].text, short) BY <1>1, <1>2
<1>5. ASSUME n > 1 PROVE k + 1 \in 1..L /\ Remains(Tail(pending), pieces, k + 1, short)
  <2> DEFINE t == Tail(pending)
  <2>1. t \in Seq(T) /\ Len(t) = n - 1 /\ \A i \in 1..(n - 1) : t[i] = pending[i + 1]
    BY <1>1, <1>2, HeadTailProperties
  <2> HIDE DEF t
  <2>2. n - 1 = L + 1 - (k + 1) /\ k + 1 \in 1..L BY <1>1, <1>5
  <2>3. \A i \in 1..(n - 1) : i + 1 \in 1..n /\ k + (i + 1) - 1 = (k + 1) + i - 1 BY <1>1
  <2>4. \A i \in 1..(n - 1) : /\ t[i].chunk = pieces[(k + 1) + i - 1]
                              /\ Fits(t[i].of, pieces[(k + 1) + i - 1].text, short)
    BY <1>1, <2>1, <2>3
  <2>5. Remains(t, pieces, k + 1, short) BY <2>1, <2>2, <2>4 DEF Remains
  <2> QED BY <2>2, <2>5 DEF t
<1>6. ~(n > 1) => k = L BY <1>1, <1>2
<1> QED BY <1>2, <1>3, <1>4, <1>5, <1>6

\* What the provider's answer makes of a file's chunks.
LEMMA EmbedIs ==
  ASSUME NEW S, NEW pieces \in Seq(S), NEW texts, texts = [i \in 1..Len(pieces) |-> pieces[i].text],
         NEW places \in Answers(Others(texts, DOMAIN mxCache)), NEW short \in BOOLEAN,
         ~short => Faithful(mxCache) /\ 1..(Len(Others(texts, DOMAIN mxCache)) - 1) \subseteq places
  PROVE  LET fresh == Concatenated(Others(texts, DOMAIN mxCache), places)
             answer == embed_batch(texts, fresh, Uncached(texts, DOMAIN mxCache))
         IN Remains([i \in 1..Len(pieces) |-> [chunk |-> pieces[i], of |-> answer[i]]], pieces, 1, short)
<1> DEFINE L == Len(pieces)
           X == {pieces[i].text : i \in 1..L}
           fresh == Concatenated(Others(texts, DOMAIN mxCache), places)
           answer == embed_batch(texts, fresh, Uncached(texts, DOMAIN mxCache))
           pending == [i \in 1..L |-> [chunk |-> pieces[i], of |-> answer[i]]]
<1>1. L \in Nat /\ texts \in Seq(X) /\ Len(texts) = L /\ \A i \in 1..L : texts[i] = pieces[i].text OBVIOUS
<1>2. \A i \in 1..L : Fits(answer[i], pieces[i].text, short)
  <2> SUFFICES ASSUME ~short PROVE \A i \in 1..L : answer[i] \in {<<>>, pieces[i].text} BY DEF Fits
  <2> HIDE DEF X, L
  <2>1. \A i \in 1..Len(texts) : answer[i] \in {<<>>, texts[i]} BY <1>1, EmbedBatchIs
  <2> QED BY <1>1, <2>1
<1> HIDE DEF answer, fresh
<1>3. pending \in Seq({[chunk |-> pieces[i], of |-> answer[i]] : i \in 1..L}) /\ Len(pending) = L BY <1>1
<1>4. \A i \in 1..L : 1 + i - 1 = i /\ pending[i].chunk = pieces[i] /\ pending[i].of = answer[i] BY <1>1
<1>5. L = L + 1 - 1 BY <1>1
<1> HIDE DEF pending, L
<1>6. Remains(pending, pieces, 1, short) BY <1>2, <1>3, <1>4, <1>5 DEF Remains, L
<1> QED BY <1>6 DEF pending, answer, fresh, L

\* Everything a sync read of f is stored.
Whole(f) == LET pieces == chunk_text(mxRead[f])
            IN PartOf(mxChunks, mxEmb, f, pieces, Len(pieces), Len(pieces), mxShort)

\* The file at hand is being replaced, or taken out.
AtWork == {"delete embeddings", "delete chunks", "delete hash", "embed", "store chunk", "store embedding"}

\* The inductive invariant: files that were read and are not at hand are stored as a whole; of the
\* file at hand those chunks are stored that no longer wait.
MxTypeOK ==
  /\ mxDisk \in [Sources -> MxContents \cup {Gone}] /\ mxRead \in [Sources -> MxContents \cup {Gone}]
  /\ mxSeen \subseteq Sources /\ mxKnown \subseteq Sources /\ mxTodo \in Seq(Sources)
  /\ \A c \in mxChunks : c.source \in Sources
  /\ mxPc \in {"file"} \cup AtWork => mxTodo # <<>>

MxDone == \A f \in mxSeen : mxRead[f] # Gone => (mxPc \in AtWork /\ Current = f) \/ Whole(f)

MxAtHand ==
  /\ mxPc \in AtWork /\ Current \in mxSeen => mxRead[Current] # Gone
  /\ mxPc \in {"embed", "store chunk", "store embedding"} => Current \in mxSeen
  /\ mxPc = "delete chunks" => \A r \in mxEmb : r.source # Current
  /\ mxPc \in {"delete hash", "embed"} => \A c \in mxChunks : c.source # Current
  /\ mxPc = "store chunk" =>
       LET pieces == chunk_text(mxRead[Current])
       IN \E k \in 1..Len(pieces) :
            Remains(mxPending, pieces, k, mxShort) /\ PartOf(mxChunks, mxEmb, Current, pieces, k - 1, k - 1, mxShort)
  /\ mxPc = "store embedding" =>
       LET pieces == chunk_text(mxRead[Current])
       IN \E k \in 1..Len(pieces) :
            Remains(mxPending, pieces, k, mxShort) /\ PartOf(mxChunks, mxEmb, Current, pieces, k, k - 1, mxShort)

\* An embedding belongs to a chunk.
MxSearch == \A r \in mxEmb : \E c \in mxChunks : c.source = r.source /\ c.index = r.index

MxInv == MxTypeOK /\ MxDone /\ MxAtHand /\ MxSearch

LEMMA FileIs ==
  ASSUME MxTypeOK, NEW f \in Sources, mxRead[f] # Gone
  PROVE  /\ mxRead[f] \in Seq(STRING) /\ chunk_text(mxRead[f]) \in Seq(Pieces(mxRead[f]))
         /\ WellCut(chunk_text(mxRead[f]), mxRead[f], Len(mxRead[f]))
         /\ \A m \in 1..Len(mxRead[f]) : ~Blank(mxRead[f][m]) => Covered(chunk_text(mxRead[f]), m)
<1>1. mxRead[f] \in Seq(STRING) BY MemoryConstants DEF MxTypeOK
<1>2. /\ WellCut(chunk_text(mxRead[f]), mxRead[f], Len(mxRead[f]))
      /\ \A m \in 1..Len(mxRead[f]) : ~Blank(mxRead[f][m]) => Covered(chunk_text(mxRead[f]), m)
  BY <1>1, ChunkTextIs
<1> QED BY <1>1, <1>2 DEF WellCut

LEMMA MxSound == MxInv => IndexSound
<1> SUFFICES ASSUME MxInv PROVE IndexSound OBVIOUS
<1>1. SearchLoads
  <2>1. \A r \in mxEmb : <<r.source, r.index>> \in {<<c.source, c.index>> : c \in mxChunks} BY DEF MxInv, MxSearch
  <2> QED BY <2>1 DEF SearchLoads, search_hybrid
<1>2. SyncRepairs
  <2> SUFFICES ASSUME mxPc = "done", NEW f \in mxSeen, mxRead[f] # Gone
               PROVE  /\ \A n \in 1..Len(mxRead[f]) : ~Blank(mxRead[f][n]) => Cardinality(Holding(f, n)) = 1
                      /\ \A c \in mxChunks : c.source = f =>
                           /\ c.text = Trimmed(mxRead[f], c.from, c.to)
                           /\ \E e \in mxEmb : e.source = f /\ e.index = c.index /\ (e.of \in {<<>>, c.text} \/ mxShort)
    BY DEF SyncRepairs
  <2> DEFINE lines == mxRead[f]
             pieces == chunk_text(lines)
             L == Len(pieces)
             Row(i) == [source |-> f, index |-> pieces[i].index, from |-> pieces[i].from, to |-> pieces[i].to,
                        text |-> pieces[i].text]
  <2>1. f \in Sources BY DEF MxInv, MxTypeOK
  <2>2. /\ lines \in Seq(STRING) /\ pieces \in Seq(Pieces(lines)) /\ WellCut(pieces, lines, Len(lines))
        /\ \A m \in 1..Len(lines) : ~Blank(lines[m]) => Covered(pieces, m)
    BY <2>1, FileIs DEF MxInv
  <2>3. PartOf(mxChunks, mxEmb, f, pieces, L, L, mxShort) BY DEF MxInv, MxDone, AtWork, Whole
  <2> HIDE DEF pieces, lines
  <2>4. \A i \in 1..L : /\ pieces[i].from \in Nat /\ pieces[i].to \in Nat
                        /\ pieces[i].text = Trimmed(lines, pieces[i].from, pieces[i].to)
    <3>1. \A i \in 1..L : pieces[i] \in Pieces(lines) BY <2>2
    <3> QED BY <3>1, PieceIs
  <2>5. /\ \A c \in mxChunks : c.source = f => \E i \in 1..L : c = Row(i)
        /\ \A i \in 1..L : Row(i) \in mxChunks
        /\ \A i \in 1..L : \E r \in mxEmb : r.source = f /\ r.index = pieces[i].index /\ Fits(r.of, pieces[i].text, mxShort)
    BY <2>3 DEF PartOf
  <2>6. \A i : /\ Row(i).source = f /\ Row(i).index = pieces[i].index /\ Row(i).from = pieces[i].from
               /\ Row(i).to = pieces[i].to /\ Row(i).text = pieces[i].text
    OBVIOUS
  <2> HIDE DEF Row
  <2>7. ASSUME NEW n \in 1..Len(lines), ~Blank(lines[n]) PROVE Cardinality(Holding(f, n)) = 1
    <3>0. n \in Nat /\ L \in Nat BY <2>2
    <3>1. PICK i \in 1..L : pieces[i].from <= n /\ n <= pieces[i].to BY <2>2, <2>7 DEF Covered
    <3>2. \A j \in 1..L : pieces[j].from <= n /\ n <= pieces[j].to => j = i
      <4> SUFFICES ASSUME NEW j \in 1..L, pieces[j].from <= n, n <= pieces[j].to, j # i PROVE FALSE OBVIOUS
      <4>1. i < j => pieces[i].to < pieces[j].from BY <2>2 DEF WellCut
      <4>2. j < i => pieces[j].to < pieces[i].from BY <2>2 DEF WellCut
      <4>3. i < j \/ j < i BY <3>0
      <4> QED BY <2>4, <3>0, <3>1, <4>1, <4>2, <4>3
    <3>3. Row(i) \in Holding(f, n) BY <2>5, <2>6, <3>1 DEF Holding
    <3>4. ASSUME NEW c \in Holding(f, n) PROVE c = Row(i)
      <4>1. c \in mxChunks /\ c.source = f /\ c.from <= n /\ n <= c.to BY <3>4 DEF Holding
      <4>2. PICK j \in 1..L : c = Row(j) BY <2>5, <4>1
      <4>3. j = i BY <2>6, <3>2, <4>1, <4>2
      <4> QED BY <4>2, <4>3
    <3>5. Holding(f, n) = {Row(i)} BY <3>3, <3>4
    <3> QED BY <3>5, FS_Singleton
  <2>8. ASSUME NEW c \in mxChunks, c.source = f
        PROVE  /\ c.text = Trimmed(lines, c.from, c.to)
               /\ \E e \in mxEmb : e.source = f /\ e.index = c.index /\ (e.of \in {<<>>, c.text} \/ mxShort)
    <3>1. PICK i \in 1..L : c = Row(i) BY <2>5, <2>8
    <3>2. c.index = pieces[i].index /\ c.from = pieces[i].from /\ c.to = pieces[i].to /\ c.text = pieces[i].text
      BY <2>6, <3>1
    <3> HIDE DEF Trimmed
    <3> QED BY <2>4, <2>5, <3>2 DEF Fits
  <2> QED BY <2>7, <2>8 DEF lines
<1> QED BY <1>1, <1>2 DEF IndexSound

LEMMA WholeKept ==
  ASSUME NEW f, Whole(f), mxRead'[f] = mxRead[f],
         \A c : c.source = f => (c \in mxChunks <=> c \in mxChunks'),
         \A r \in mxEmb : r.source = f => r \in mxEmb', mxShort => mxShort'
  PROVE  Whole(f)'
<1> DEFINE pieces == chunk_text(mxRead[f])
<1>1. PartOf(mxChunks, mxEmb, f, pieces, Len(pieces), Len(pieces), mxShort) BY DEF Whole
<1> HIDE DEF pieces
<1>2. PartOf(mxChunks', mxEmb', f, pieces, Len(pieces), Len(pieces), mxShort') BY <1>1, PartKept
<1>3. PartOf(mxChunks', mxEmb', f, chunk_text(mxRead'[f]), Len(chunk_text(mxRead'[f])), Len(chunk_text(mxRead'[f])), mxShort')
  BY <1>2 DEF pieces
<1> QED BY <1>3 DEF Whole

LEMMA NextFileIs ==
  ASSUME MxTypeOK, mxTodo # <<>>, NextFile
  PROVE  mxTodo' \in Seq(Sources) /\ mxPc' \in {"file", "remove"} /\ (mxPc' = "file" => mxTodo' # <<>>)
<1>1. mxTodo \in Seq(Sources) /\ mxTodo' = Tail(mxTodo) /\ mxPc' = IF Len(mxTodo) > 1 THEN "file" ELSE "remove"
  BY DEF MxTypeOK, NextFile
<1>2. Tail(mxTodo) \in Seq(Sources) /\ Len(Tail(mxTodo)) = Len(mxTodo) - 1 BY <1>1, HeadTailProperties
<1>3. ASSUME Len(mxTodo) > 1 PROVE Tail(mxTodo) # <<>>
  <2>1. Len(mxTodo) \in Nat /\ Len(<<>>) = 0 BY <1>1
  <2>2. Len(Tail(mxTodo)) # 0
    <3>1. \A n \in Nat : n > 1 => n - 1 # 0 OBVIOUS
    <3> QED BY <1>2, <1>3, <2>1, <3>1
  <2> QED BY <2>1, <2>2
<1> QED BY <1>1, <1>2, <1>3

LEMMA ScanKeeps == MxInv /\ scan_files => MxInv'
<1> SUFFICES ASSUME MxInv, scan_files PROVE MxInv' OBVIOUS
<1>1. /\ mxTodo' = Others(MxFiles, {f \in Sources : mxDisk[f] = Gone})
      /\ mxSeen' = {f \in Sources : mxDisk[f] # Gone} /\ mxKnown' = list_sources
      /\ mxRead' = [f \in Sources |-> Gone] /\ mxPc' = (IF mxTodo' = <<>> THEN "remove" ELSE "file")
      /\ UNCHANGED <<mxDisk, mxChunks, mxEmb, mxShort>>
  BY DEF scan_files, mxRows
<1>2. mxTodo' \in Seq(Sources)
  <2>1. MxFiles \in Seq(Sources)
    <3>1. MxFiles \in Seq(STRING) BY MemoryConstants
    <3>2. \A i \in 1..Len(MxFiles) : MxFiles[i] \in Sources BY <3>1 DEF Sources, ToSet
    <3> QED BY <3>1, <3>2
  <2> QED BY <1>1, <2>1, OthersIs
<1>3. MxTypeOK' BY <1>1, <1>2 DEF MxInv, MxTypeOK, list_sources, AtWork
<1>4. MxDone' BY <1>1 DEF MxDone
<1>5. MxAtHand' BY <1>1 DEF MxAtHand, AtWork
<1>6. MxSearch' BY <1>1 DEF MxInv, MxSearch
<1> QED BY <1>3, <1>4, <1>5, <1>6 DEF MxInv

LEMMA SyncFileKeeps == MxInv /\ sync_file => MxInv'
<1> SUFFICES ASSUME MxInv, sync_file PROVE MxInv' OBVIOUS
<1>1. mxPc = "file" /\ UNCHANGED <<mxDisk, mxChunks, mxEmb, mxSeen, mxKnown, mxShort>> BY DEF sync_file, mxRows
<1>2. mxTodo \in Seq(Sources) /\ mxTodo # <<>> /\ Current \in Sources /\ MxTypeOK
  <2>1. mxTodo \in Seq(Sources) /\ mxTodo # <<>> BY <1>1 DEF MxInv, MxTypeOK
  <2> QED BY <2>1, HeadTailProperties DEF MxInv, Current
<1>3. \A f \in mxSeen : mxRead[f] # Gone => Whole(f) BY <1>1 DEF MxInv, MxDone, AtWork
<1>4. CASE NextFile /\ UNCHANGED mxRead
  <2>1. mxTodo' \in Seq(Sources) /\ mxPc' \in {"file", "remove"} /\ (mxPc' = "file" => mxTodo' # <<>>)
    BY <1>2, <1>4, NextFileIs
  <2>2. MxTypeOK' BY <1>1, <1>4, <2>1 DEF MxInv, MxTypeOK, AtWork
  <2>3. MxDone' BY <1>1, <1>3, <1>4 DEF MxDone, Whole
  <2>4. MxAtHand' BY <2>1 DEF MxAtHand, AtWork
  <2>5. MxSearch' BY <1>1 DEF MxInv, MxSearch
  <2> QED BY <2>2, <2>3, <2>4, <2>5 DEF MxInv
<1>5. CASE /\ mxDisk[Current] # Gone /\ mxRead' = [mxRead EXCEPT ![Current] = mxDisk[Current]]
           /\ mxPc' = "delete embeddings" /\ UNCHANGED mxTodo
  <2>1. Current' = Current BY <1>5 DEF Current
  <2>2. /\ mxRead' \in [Sources -> MxContents \cup {Gone}] /\ mxRead'[Current] = mxDisk[Current]
        /\ \A f \in Sources : f # Current => mxRead'[f] = mxRead[f]
    BY <1>2, <1>5 DEF MxTypeOK
  <2>3. MxTypeOK' BY <1>1, <1>2, <1>5, <2>2 DEF MxTypeOK
  <2>4. ASSUME NEW f \in mxSeen, mxRead'[f] # Gone, f # Current PROVE Whole(f)'
    <3>1. mxRead'[f] = mxRead[f] BY <1>2, <2>2, <2>4 DEF MxTypeOK
    <3>2. Whole(f) BY <1>3, <2>4, <3>1
    <3> QED BY <1>1, <3>1, <3>2, WholeKept
  <2>5. MxDone' BY <1>1, <1>5, <2>1, <2>4 DEF MxDone, AtWork
  <2>6. MxAtHand' BY <1>5, <2>1, <2>2 DEF MxAtHand
  <2>7. MxSearch' BY <1>1 DEF MxInv, MxSearch
  <2> QED BY <2>3, <2>5, <2>6, <2>7 DEF MxInv
<1> QED BY <1>4, <1>5 DEF sync_file

LEMMA DeletesKeep == MxInv /\ Deletes => MxInv'
<1> SUFFICES ASSUME MxInv, Deletes PROVE MxInv' OBVIOUS
<1>1. mxTodo # <<>> /\ UNCHANGED <<mxDisk, mxTodo, mxSeen, mxKnown, mxRead, mxPending, mxShort>> BY DEF Deletes
<1>2. Current' = Current BY <1>1 DEF Current
<1>3. \A f \in mxSeen : mxRead[f] # Gone /\ f # Current => Whole(f) BY DEF MxInv, MxDone
<1>4. ASSUME \A c : c.source # Current => (c \in mxChunks <=> c \in mxChunks'),
             \A r : r.source # Current => (r \in mxEmb <=> r \in mxEmb')
      PROVE  \A f \in mxSeen : mxRead[f] # Gone /\ f # Current => Whole(f)'
  BY <1>1, <1>3, <1>4, WholeKept
<1>5. CASE /\ mxPc = "delete embeddings" /\ mxEmb' = Without(mxEmb, Current) /\ mxPc' = "delete chunks"
           /\ UNCHANGED <<mxChunks, mxHashes>>
  <2>1. \A r : r \in mxEmb' <=> r \in mxEmb /\ r.source # Current BY <1>5 DEF Without
  <2>2. \A f \in mxSeen : mxRead[f] # Gone /\ f # Current => Whole(f)' BY <1>4, <1>5, <2>1
  <2>3. MxTypeOK' BY <1>1, <1>5 DEF MxInv, MxTypeOK
  <2>4. MxDone' BY <1>1, <1>2, <1>5, <2>2 DEF MxDone, AtWork
  <2>5. MxAtHand' BY <1>1, <1>2, <1>5, <2>1 DEF MxInv, MxAtHand, AtWork
  <2>6. MxSearch' BY <1>5, <2>1 DEF MxInv, MxSearch
  <2> QED BY <2>3, <2>4, <2>5, <2>6 DEF MxInv
<1>6. CASE /\ mxPc = "delete chunks" /\ mxChunks' = Without(mxChunks, Current) /\ mxPc' = "delete hash"
           /\ UNCHANGED <<mxEmb, mxHashes>>
  <2>1. \A c : c \in mxChunks' <=> c \in mxChunks /\ c.source # Current BY <1>6 DEF Without
  <2>2. \A f \in mxSeen : mxRead[f] # Gone /\ f # Current => Whole(f)' BY <1>4, <1>6, <2>1
  <2>3. MxTypeOK' BY <1>1, <1>6, <2>1 DEF MxInv, MxTypeOK
  <2>4. MxDone' BY <1>1, <1>2, <1>6, <2>2 DEF MxDone, AtWork
  <2>5. MxAtHand' BY <1>1, <1>2, <1>6, <2>1 DEF MxInv, MxAtHand, AtWork
  <2>6. MxSearch'
    <3>1. \A r \in mxEmb : r.source # Current BY <1>6 DEF MxInv, MxAtHand
    <3> QED BY <1>6, <2>1, <3>1 DEF MxInv, MxSearch
  <2> QED BY <2>3, <2>4, <2>5, <2>6 DEF MxInv
<1>7. CASE /\ mxPc = "delete hash" /\ mxPc' = (IF Current \in mxSeen THEN "embed" ELSE "remove")
           /\ UNCHANGED <<mxChunks, mxEmb>>
  <2>1. \A f \in mxSeen : mxRead[f] # Gone /\ f # Current => Whole(f)' BY <1>4, <1>7
  <2>2. MxTypeOK' BY <1>1, <1>7 DEF MxInv, MxTypeOK, AtWork
  <2>3. MxDone' BY <1>1, <1>2, <1>7, <2>1 DEF MxDone, AtWork
  <2>4. MxAtHand' BY <1>1, <1>2, <1>7 DEF MxInv, MxAtHand, AtWork
  <2>5. MxSearch' BY <1>7 DEF MxInv, MxSearch
  <2> QED BY <2>2, <2>3, <2>4, <2>5 DEF MxInv
<1> QED BY <1>5, <1>6, <1>7 DEF Deletes, delete_by_source

\* The cache is faithful until a request in the middle is answered short.
MxCached == ~mxShort => Faithful(mxCache)

\* The answers to a file's texts take their places.
Embedded(chunks, texts, asked, places) ==
  LET fresh == Concatenated(asked, places)
      answer == embed_batch(texts, fresh, Uncached(texts, DOMAIN mxCache))
  IN /\ mxPending' = [i \in 1..Len(chunks) |-> [chunk |-> chunks[i], of |-> answer[i]]]
     /\ mxCache' = put_cached(asked, fresh)
     /\ mxShort' = (mxShort \/ ~(1..(Len(asked) - 1) \subseteq places))

LEMMA EmbedKeeps == MxInv /\ MxCached /\ embed => MxInv' /\ MxCached'
<1> SUFFICES ASSUME MxInv, MxCached, embed PROVE MxInv' /\ MxCached' OBVIOUS
<1> DEFINE chunks == chunk_text(mxRead[Current])
           texts == [i \in 1..Len(chunks) |-> chunks[i].text]
           asked == Others(texts, DOMAIN mxCache)
<1>1. mxPc = "embed" /\ UNCHANGED <<mxDisk, mxChunks, mxEmb, mxSeen, mxKnown, mxRead>> BY DEF embed, mxRows
<1>2. /\ mxTodo \in Seq(Sources) /\ mxTodo # <<>> /\ Current \in Sources /\ Current \in mxSeen
      /\ mxRead[Current] # Gone /\ \A c \in mxChunks : c.source # Current
  <2>1. mxTodo \in Seq(Sources) /\ mxTodo # <<>> BY <1>1 DEF MxInv, MxTypeOK, AtWork
  <2>2. Current \in Sources BY <2>1, HeadTailProperties DEF Current
  <2> QED BY <1>1, <2>1, <2>2 DEF MxInv, MxAtHand, AtWork
<1>3. chunks \in Seq(Pieces(mxRead[Current])) BY <1>2, FileIs DEF MxInv
<1>4. \A f \in mxSeen : mxRead[f] # Gone => f = Current \/ Whole(f) BY DEF MxInv, MxDone
<1>5. MxSearch' BY <1>1 DEF MxInv, MxSearch
<1>6. CASE chunks = <<>> /\ NextFile /\ UNCHANGED <<mxCache, mxShort>>
  <2>1. mxTodo' \in Seq(Sources) /\ mxPc' \in {"file", "remove"} /\ (mxPc' = "file" => mxTodo' # <<>>)
    BY <1>2, <1>6, NextFileIs DEF MxInv
  <2>2. Whole(Current)
    <3>1. Len(<<>>) = 0 /\ 1..0 = {} OBVIOUS
    <3>2. PartOf(mxChunks, mxEmb, Current, <<>>, 0, 0, mxShort) BY <1>2, <3>1 DEF PartOf
    <3> QED BY <1>6, <3>1, <3>2 DEF Whole
  <2>3. \A f \in mxSeen : mxRead[f] # Gone => Whole(f) BY <1>4, <2>2
  <2>4. MxTypeOK' BY <1>1, <2>1 DEF MxInv, MxTypeOK, AtWork
  <2>5. MxDone' BY <1>1, <1>6, <2>3 DEF MxDone, Whole
  <2>6. MxAtHand' BY <2>1 DEF MxAtHand, AtWork
  <2>7. MxCached' BY <1>6 DEF MxCached
  <2> QED BY <1>5, <2>4, <2>5, <2>6, <2>7 DEF MxInv
<1>7. ASSUME chunks # <<>>, mxPc' = "store chunk", mxTodo' = mxTodo,
             NEW places \in Answers(asked), Embedded(chunks, texts, asked, places)
      PROVE  MxInv' /\ MxCached'
  <2>1. /\ mxPending' = [i \in 1..Len(chunks) |->
             [chunk |-> chunks[i],
              of |-> embed_batch(texts, Concatenated(asked, places), Uncached(texts, DOMAIN mxCache))[i]]]
        /\ mxCache' = put_cached(asked, Concatenated(asked, places))
        /\ mxShort' = (mxShort \/ ~(1..(Len(asked) - 1) \subseteq places))
    BY <1>7 DEF Embedded
  <2>2. Len(chunks) \in Nat /\ 1 \in 1..Len(chunks) /\ 1 - 1 = 0 /\ 1..0 = {}
    <3> HIDE DEF chunks
    <3>1. chunks # <<>> BY <1>7
    <3>2. Len(chunks) \in Nat /\ Len(chunks) # 0 BY <1>3, <3>1
    <3> QED BY <3>2
  <2>3. Current' = Current BY <1>7 DEF Current
  <2>4. (mxShort => mxShort') /\ (~mxShort' => Faithful(mxCache) /\ 1..(Len(asked) - 1) \subseteq places)
    BY <2>1 DEF MxCached
  <2>5. MxCached'
    <3> SUFFICES ASSUME ~mxShort' PROVE Faithful(mxCache') BY DEF MxCached, Faithful
    <3> DEFINE X == {chunks[i].text : i \in 1..Len(chunks)}
    <3>1. texts \in Seq(X) BY <2>2
    <3> HIDE DEF X
    <3>2. asked \in Seq(X)
      <4> HIDE DEF texts
      <4> QED BY <3>1, OthersIs
    <3> HIDE DEF texts, asked
    <3>3. Faithful(put_cached(asked, Concatenated(asked, places))) BY <1>7, <2>4, <3>2, PutCachedIs
    <3> QED BY <2>1, <3>3
  <2> HIDE DEF chunks
  <2>6. Remains(mxPending', chunks, 1, mxShort') BY <1>3, <1>7, <2>1, <2>4, EmbedIs
  <2>7. PartOf(mxChunks, mxEmb, Current, chunks, 0, 0, mxShort') BY <1>2, <2>2 DEF PartOf
  <2>8. \E k \in 1..Len(chunks) :
          /\ Remains(mxPending', chunks, k, mxShort')
          /\ PartOf(mxChunks, mxEmb, Current, chunks, k - 1, k - 1, mxShort')
    BY <2>2, <2>6, <2>7
  <2>9. MxTypeOK' BY <1>1, <1>2, <1>7 DEF MxInv, MxTypeOK
  <2>10. MxDone'
    <3>1. ASSUME NEW f \in mxSeen, mxRead[f] # Gone, f # Current PROVE Whole(f)'
      BY <1>1, <1>4, <2>4, <3>1, WholeKept
    <3> QED BY <1>1, <1>7, <2>3, <3>1 DEF MxDone, AtWork
  <2>11. MxAtHand'
    <3>1. chunk_text(mxRead'[Current']) = chunks BY <1>1, <2>3 DEF chunks
    <3> QED BY <1>1, <1>2, <1>7, <2>3, <2>8, <3>1 DEF MxAtHand
  <2> QED BY <1>5, <2>5, <2>9, <2>10, <2>11 DEF MxInv
<1>8. /\ \A a : openai_batch(a) \cup gemini_batch(a) \cup voyage_batch(a) \cup ollama_batch(a) = Answers(a)
      /\ Uncached(texts, DOMAIN mxCache) = {i \in 1..Len(texts) : texts[i] \notin DOMAIN mxCache}
  <2>1. \A a : 1..Len(a) \in Answers(a) BY DEF Answers
  <2>2. \A a : openai_batch(a) = Answers(a) /\ gemini_batch(a) = Answers(a) /\ voyage_batch(a) = Answers(a)
               /\ ollama_batch(a) = {1..Len(a)}
    BY DEF openai_batch, gemini_batch, voyage_batch, ollama_batch
  <2> QED BY <2>1, <2>2 DEF Uncached
<1>9. \/ chunks = <<>> /\ NextFile /\ UNCHANGED <<mxCache, mxShort>>
      \/ /\ chunks # <<>> /\ mxPc' = "store chunk" /\ mxTodo' = mxTodo
         /\ \E places \in openai_batch(asked) \cup gemini_batch(asked) \cup voyage_batch(asked) \cup ollama_batch(asked) :
              Embedded(chunks, texts, asked, places)
  BY DEF embed, Embedded, Uncached
<1> HIDE DEF texts, asked, chunks
<1>10. \/ chunks = <<>> /\ NextFile /\ UNCHANGED <<mxCache, mxShort>>
       \/ /\ chunks # <<>> /\ mxPc' = "store chunk" /\ mxTodo' = mxTodo
          /\ \E places \in Answers(asked) : Embedded(chunks, texts, asked, places)
  BY <1>8, <1>9
<1> QED BY <1>6, <1>7, <1>10

\* The two halves of store_chunk.
AtChunk == mxPc = "store chunk"
AtEmbedding == mxPc = "store embedding"

\* The row of a chunk.
StoredRow(f, p) == [source |-> f, index |-> p.index, from |-> p.from, to |-> p.to, text |-> p.text]

LEMMA StoreChunkKeeps == MxInv /\ store_chunk /\ AtChunk => MxInv'
<1> SUFFICES ASSUME MxInv, store_chunk, AtChunk PROVE MxInv' OBVIOUS
<1> DEFINE pieces == chunk_text(mxRead[Current])
           row == StoredRow(Current, Head(mxPending).chunk)
<1>1. /\ mxChunks' = mxChunks \cup {row} /\ mxPc' = "store embedding"
      /\ UNCHANGED <<mxDisk, mxEmb, mxPending, mxTodo, mxSeen, mxKnown, mxRead, mxShort>>
  BY DEF store_chunk, StoredRow, AtChunk
<1>2. mxTodo \in Seq(Sources) /\ mxTodo # <<>> /\ Current \in Sources /\ Current \in mxSeen /\ mxRead[Current] # Gone
  <2>1. mxTodo \in Seq(Sources) /\ mxTodo # <<>> BY DEF MxInv, MxTypeOK, AtWork, AtChunk
  <2>2. Current \in Sources BY <2>1, HeadTailProperties DEF Current
  <2> QED BY <2>1, <2>2 DEF MxInv, MxAtHand, AtWork, AtChunk
<1>3. pieces \in Seq(Pieces(mxRead[Current])) BY <1>2, FileIs DEF MxInv
<1>4. PICK k \in 1..Len(pieces) : /\ Remains(mxPending, pieces, k, mxShort)
                                  /\ PartOf(mxChunks, mxEmb, Current, pieces, k - 1, k - 1, mxShort)
  BY DEF MxInv, MxAtHand, AtChunk
<1>5. Current' = Current /\ pieces' = pieces BY <1>1 DEF Current
<1>6. \A f \in mxSeen : mxRead[f] # Gone => f = Current \/ Whole(f) BY DEF MxInv, MxDone
<1>7. row.source = Current BY DEF StoredRow
<1> HIDE DEF pieces
<1>8. Len(pieces) \in Nat /\ k \in 1..Len(pieces) /\ k - 1 \in Nat /\ k \in Nat BY <1>3, <1>4
<1>9. row = StoredRow(Current, pieces[k])
  <2>1. Head(mxPending).chunk = pieces[k] BY <1>3, <1>4, <1>8, RemainsTail
  <2> QED BY <2>1
<1> HIDE DEF row
<1>10. PartOf(mxChunks', mxEmb, Current, pieces, k, k - 1, mxShort)
  <2>1. /\ \A c \in mxChunks : c.source = Current => \E i \in 1..(k - 1) : c = StoredRow(Current, pieces[i])
        /\ \A i \in 1..(k - 1) : StoredRow(Current, pieces[i]) \in mxChunks
        /\ \A i \in 1..(k - 1) :
             \E r \in mxEmb : r.source = Current /\ r.index = pieces[i].index /\ Fits(r.of, pieces[i].text, mxShort)
    BY <1>4 DEF PartOf, StoredRow
  <2>2. \A i \in 1..k : i \in 1..(k - 1) \/ i = k BY <1>8
  <2>3. 1..(k - 1) \subseteq 1..k /\ k \in 1..k BY <1>8
  <2>4. \A c \in mxChunks' : c.source = Current => \E i \in 1..k : c = StoredRow(Current, pieces[i])
    BY <1>1, <1>9, <2>1, <2>3
  <2>5. \A i \in 1..k : StoredRow(Current, pieces[i]) \in mxChunks' BY <1>1, <1>9, <2>1, <2>2
  <2> QED BY <2>1, <2>4, <2>5 DEF PartOf, StoredRow
<1>11. MxTypeOK'
  <2>1. \A c \in mxChunks' : c.source \in Sources BY <1>1, <1>2, <1>7 DEF MxInv, MxTypeOK
  <2> QED BY <1>1, <1>2, <2>1 DEF MxInv, MxTypeOK
<1>12. MxDone'
  <2>1. ASSUME NEW f \in mxSeen, mxRead[f] # Gone, f # Current PROVE Whole(f)'
    <3>1. Whole(f) BY <1>6, <2>1
    <3>2. \A c : c.source = f => (c \in mxChunks <=> c \in mxChunks') BY <1>1, <1>7, <2>1
    <3> QED BY <1>1, <3>1, <3>2, WholeKept
  <2> QED BY <1>1, <1>5, <2>1 DEF MxDone, AtWork
<1>13. MxAtHand'
  <2>1. \E j \in 1..Len(pieces) : Remains(mxPending, pieces, j, mxShort) /\ PartOf(mxChunks', mxEmb, Current, pieces, j, j - 1, mxShort)
    BY <1>4, <1>10
  <2>2. chunk_text(mxRead'[Current']) = pieces BY <1>1, <1>5 DEF pieces
  <2> QED BY <1>1, <1>2, <1>5, <2>1, <2>2 DEF MxAtHand
<1>14. MxSearch' BY <1>1 DEF MxInv, MxSearch
<1> QED BY <1>11, <1>12, <1>13, <1>14 DEF MxInv

LEMMA StoreEmbeddingKeeps == MxInv /\ store_chunk /\ AtEmbedding => MxInv'
<1> SUFFICES ASSUME MxInv, store_chunk, AtEmbedding PROVE MxInv' OBVIOUS
<1> DEFINE pieces == chunk_text(mxRead[Current])
           p == Head(mxPending)
           emb == [source |-> Current, index |-> p.chunk.index, of |-> p.of]
<1>1. /\ mxEmb' = mxEmb \cup {emb} /\ mxPending' = Tail(mxPending)
      /\ IF Len(mxPending) > 1 THEN mxPc' = "store chunk" /\ UNCHANGED mxTodo ELSE NextFile
      /\ UNCHANGED <<mxDisk, mxChunks, mxSeen, mxKnown, mxRead, mxShort>>
  BY DEF store_chunk, AtEmbedding
<1>2. mxTodo \in Seq(Sources) /\ mxTodo # <<>> /\ Current \in Sources /\ Current \in mxSeen /\ mxRead[Current] # Gone
  <2>1. mxTodo \in Seq(Sources) /\ mxTodo # <<>> BY DEF MxInv, MxTypeOK, AtWork, AtEmbedding
  <2>2. Current \in Sources BY <2>1, HeadTailProperties DEF Current
  <2> QED BY <2>1, <2>2 DEF MxInv, MxAtHand, AtWork, AtEmbedding
<1>3. pieces \in Seq(Pieces(mxRead[Current])) BY <1>2, FileIs DEF MxInv
<1>4. PICK k \in 1..Len(pieces) : /\ Remains(mxPending, pieces, k, mxShort)
                                  /\ PartOf(mxChunks, mxEmb, Current, pieces, k, k - 1, mxShort)
  BY DEF MxInv, MxAtHand, AtEmbedding
<1>5. \A f \in mxSeen : mxRead[f] # Gone => f = Current \/ Whole(f) BY DEF MxInv, MxDone
<1>7. emb.source = Current /\ emb.index = p.chunk.index /\ emb.of = p.of OBVIOUS
<1> HIDE DEF pieces
<1>6. Len(pieces) \in Nat /\ k \in 1..Len(pieces) /\ k - 1 \in Nat /\ k \in Nat /\ k \in 1..k BY <1>3, <1>4
<1>9. /\ p.chunk = pieces[k] /\ Fits(p.of, pieces[k].text, mxShort)
      /\ IF Len(mxPending) > 1 THEN k + 1 \in 1..Len(pieces) /\ Remains(Tail(mxPending), pieces, k + 1, mxShort)
         ELSE k = Len(pieces)
  BY <1>3, <1>4, <1>6, RemainsTail
<1> HIDE DEF p, emb
<1>10. PartOf(mxChunks, mxEmb', Current, pieces, k, k, mxShort)
  <2>1. /\ \A c \in mxChunks : c.source = Current => \E i \in 1..k : c = StoredRow(Current, pieces[i])
        /\ \A i \in 1..k : StoredRow(Current, pieces[i]) \in mxChunks
        /\ \A i \in 1..(k - 1) :
             \E r \in mxEmb : r.source = Current /\ r.index = pieces[i].index /\ Fits(r.of, pieces[i].text, mxShort)
    BY <1>4 DEF PartOf, StoredRow
  <2>2. \A i \in 1..k : i \in 1..(k - 1) \/ i = k BY <1>6
  <2>3. \A i \in 1..k :
          \E r \in mxEmb' : r.source = Current /\ r.index = pieces[i].index /\ Fits(r.of, pieces[i].text, mxShort)
    BY <1>1, <1>7, <1>9, <2>1, <2>2
  <2> QED BY <2>1, <2>3 DEF PartOf, StoredRow
<1>11. \A f \in mxSeen : mxRead[f] # Gone /\ f # Current => Whole(f)'
  <2> SUFFICES ASSUME NEW f \in mxSeen, mxRead[f] # Gone, f # Current PROVE Whole(f)' OBVIOUS
  <2>1. Whole(f) BY <1>5
  <2> QED BY <1>1, <2>1, WholeKept
<1>12. MxSearch'
  <2>1. StoredRow(Current, pieces[k]) \in mxChunks BY <1>6, <1>10 DEF PartOf, StoredRow
  <2>2. StoredRow(Current, pieces[k]).source = emb.source /\ StoredRow(Current, pieces[k]).index = emb.index
    BY <1>7, <1>9 DEF StoredRow
  <2> QED BY <1>1, <2>1, <2>2 DEF MxInv, MxSearch
<1>13. CASE Len(mxPending) > 1
  <2>1. mxPc' = "store chunk" /\ mxTodo' = mxTodo /\ Current' = Current BY <1>1, <1>13 DEF Current
  <2>2. MxTypeOK' BY <1>1, <1>2, <2>1 DEF MxInv, MxTypeOK
  <2>3. MxDone' BY <1>1, <1>11, <2>1 DEF MxDone, AtWork
  <2>4. MxAtHand'
    <3>1. k + 1 - 1 = k BY <1>6
    <3>2. \E j \in 1..Len(pieces) :
            Remains(mxPending', pieces, j, mxShort) /\ PartOf(mxChunks', mxEmb', Current, pieces, j - 1, j - 1, mxShort')
      <4>1. k + 1 \in 1..Len(pieces) /\ Remains(mxPending', pieces, k + 1, mxShort) BY <1>1, <1>9, <1>13
      <4>2. PartOf(mxChunks', mxEmb', Current, pieces, k + 1 - 1, k + 1 - 1, mxShort') BY <1>1, <1>10, <3>1
      <4> QED BY <4>1, <4>2
    <3>3. chunk_text(mxRead'[Current']) = pieces BY <1>1, <2>1 DEF pieces
    <3> QED BY <1>1, <1>2, <2>1, <3>2, <3>3 DEF MxAtHand
  <2> QED BY <1>12, <2>2, <2>3, <2>4 DEF MxInv
<1>14. CASE ~(Len(mxPending) > 1)
  <2>1. NextFile /\ k = Len(pieces) BY <1>1, <1>9, <1>14
  <2>2. mxTodo' \in Seq(Sources) /\ mxPc' \in {"file", "remove"} /\ (mxPc' = "file" => mxTodo' # <<>>)
    BY <1>2, <2>1, NextFileIs DEF MxInv
  <2>3. \A f \in mxSeen : mxRead[f] # Gone => Whole(f)'
    <3> SUFFICES ASSUME NEW f \in mxSeen, mxRead[f] # Gone, f = Current PROVE Whole(f)' BY <1>11
    <3>1. PartOf(mxChunks', mxEmb', f, chunk_text(mxRead'[f]), Len(chunk_text(mxRead'[f])), Len(chunk_text(mxRead'[f])), mxShort')
      BY <1>1, <1>10, <2>1 DEF pieces
    <3> QED BY <3>1 DEF Whole
  <2>4. MxTypeOK' BY <1>1, <2>2 DEF MxInv, MxTypeOK, AtWork
  <2>5. MxDone' BY <1>1, <2>3 DEF MxDone
  <2>6. MxAtHand' BY <2>2 DEF MxAtHand, AtWork
  <2> QED BY <1>12, <2>4, <2>5, <2>6 DEF MxInv
<1> QED BY <1>13, <1>14

LEMMA RemoveKeeps == MxInv /\ remove_gone => MxInv'
<1> SUFFICES ASSUME MxInv, remove_gone PROVE MxInv' OBVIOUS
<1>1. mxPc = "remove" /\ UNCHANGED <<mxDisk, mxChunks, mxEmb, mxSeen, mxRead, mxShort>> BY DEF remove_gone, mxRows
<1>2. \A f \in mxSeen : mxRead[f] # Gone => Whole(f) BY <1>1 DEF MxInv, MxDone, AtWork
<1>3. MxDone' BY <1>1, <1>2 DEF MxDone, Whole
<1>4. MxSearch' BY <1>1 DEF MxInv, MxSearch
<1>5. CASE mxPc' = "done" /\ UNCHANGED <<mxTodo, mxKnown>>
  <2>1. MxTypeOK' BY <1>1, <1>5 DEF MxInv, MxTypeOK, AtWork
  <2>2. MxAtHand' BY <1>5 DEF MxAtHand, AtWork
  <2> QED BY <1>3, <1>4, <2>1, <2>2 DEF MxInv
<1>6. ASSUME NEW f \in mxKnown \ mxSeen, mxTodo' = <<f>>, mxKnown' = mxKnown \ {f}, mxPc' = "delete embeddings"
      PROVE  MxInv'
  <2>1. f \in Sources BY <1>6 DEF MxInv, MxTypeOK
  <2>2. mxTodo' \in Seq(Sources) /\ mxTodo' # <<>> /\ Current' = f
    <3> HIDE DEF Sources
    <3>1. <<f>> \in Seq(Sources) /\ <<f>> # <<>> /\ Head(<<f>>) = f BY <2>1
    <3> QED BY <1>6, <3>1 DEF Current
  <2>3. MxTypeOK'
    <3> HIDE DEF Sources
    <3> QED BY <1>1, <1>6, <2>2 DEF MxInv, MxTypeOK
  <2>4. MxAtHand' BY <1>1, <1>6, <2>2 DEF MxAtHand
  <2> QED BY <1>3, <1>4, <2>3, <2>4 DEF MxInv
<1> QED BY <1>5, <1>6 DEF remove_gone

LEMMA ReturnedKeeps == MxInv /\ Returned => MxInv'
<1> SUFFICES ASSUME MxInv, Returned PROVE MxInv' OBVIOUS
<1>1. /\ mxPc' = "idle" /\ mxTodo' = <<>> /\ mxSeen' = {} /\ mxKnown' = {}
      /\ UNCHANGED <<mxDisk, mxChunks, mxEmb, mxRead, mxShort>>
  BY DEF Returned, mxRows
<1>2. MxTypeOK'
  <2>1. mxTodo' \in Seq(Sources) /\ ~(mxPc' \in {"file"} \cup AtWork) BY <1>1 DEF AtWork
  <2> QED BY <1>1, <2>1 DEF MxInv, MxTypeOK
<1>3. MxDone' BY <1>1 DEF MxDone
<1>4. MxAtHand' BY <1>1 DEF MxAtHand, AtWork
<1>5. MxSearch' BY <1>1 DEF MxInv, MxSearch
<1> QED BY <1>2, <1>3, <1>4, <1>5 DEF MxInv

\* A step that changes at most what is on the disk.
LEMMA EditedKeeps == MxInv /\ (Edited_file \/ UNCHANGED mxVars) => MxInv'
<1> SUFFICES ASSUME MxInv, Edited_file \/ UNCHANGED mxVars PROVE MxInv' OBVIOUS
<1>1. UNCHANGED <<mxChunks, mxEmb, mxPc, mxTodo, mxSeen, mxKnown, mxRead, mxPending, mxShort>>
  BY DEF Edited_file, mxVars, mxRows, mxSync
<1>2. mxDisk' \in [Sources -> MxContents \cup {Gone}] BY DEF MxInv, MxTypeOK, Edited_file, mxVars
<1>3. Current' = Current BY <1>1 DEF Current
<1>4. MxTypeOK' BY <1>1, <1>2 DEF MxInv, MxTypeOK
<1>5. MxDone' BY <1>1, <1>3 DEF MxInv, MxDone, Whole
<1>6. MxAtHand' BY <1>1, <1>3 DEF MxInv, MxAtHand
<1>7. MxSearch' BY <1>1 DEF MxInv, MxSearch
<1> QED BY <1>4, <1>5, <1>6, <1>7 DEF MxInv

\* A sync that comes to its end leaves the index whole, every line of every file it read in one
\* chunk, with its own embedding or none unless a batch before the last came short, whatever the syncs before it were cut off in; and no
\* search meets an embedding without its chunk (sync.rs, chunking.rs, store.rs).
THEOREM IndexIsSound == MxSpec => []IndexSound
<1>1. MxInit => MxInv /\ MxCached
  <2> SUFFICES ASSUME MxInit PROVE MxInv /\ MxCached OBVIOUS
  <2>1. /\ mxDisk = [f \in Sources |-> Gone] /\ mxRead = [f \in Sources |-> Gone] /\ mxChunks = {} /\ mxEmb = {}
        /\ mxPc = "idle" /\ mxTodo = <<>> /\ mxSeen = {} /\ mxKnown = {}
    BY DEF MxInit
  <2>2. MxTypeOK BY <2>1 DEF MxTypeOK, AtWork
  <2>3. MxCached BY DEF MxInit, MxCached, Faithful
  <2> QED BY <2>1, <2>2, <2>3 DEF MxInv, MxDone, MxAtHand, MxSearch, AtWork
<1>2. MxInv /\ MxCached /\ [MxNext]_mxVars => MxInv' /\ MxCached'
  <2> SUFFICES ASSUME MxInv, MxCached, [MxNext]_mxVars PROVE MxInv' /\ MxCached' OBVIOUS
  <2>9. ASSUME UNCHANGED <<mxCache, mxShort>> PROVE MxCached' BY <2>9 DEF MxCached, Faithful
  <2>1. CASE scan_files BY <2>1, <2>9, ScanKeeps DEF scan_files
  <2>2. CASE sync_file BY <2>2, <2>9, SyncFileKeeps DEF sync_file
  <2>3. CASE Deletes BY <2>3, <2>9, DeletesKeep DEF Deletes
  <2>4. CASE embed BY <2>4, EmbedKeeps
  <2>5. CASE store_chunk
    <3>1. mxPc \in {"store chunk", "store embedding"} BY <2>5 DEF store_chunk
    <3>2. UNCHANGED <<mxCache, mxShort>> BY <2>5 DEF store_chunk
    <3> QED BY <2>5, <2>9, <3>1, <3>2, StoreChunkKeeps, StoreEmbeddingKeeps DEF AtChunk, AtEmbedding
  <2>6. CASE remove_gone BY <2>6, <2>9, RemoveKeeps DEF remove_gone
  <2>7. CASE Returned BY <2>7, <2>9, ReturnedKeeps DEF Returned
  <2>8. CASE Edited_file \/ UNCHANGED mxVars BY <2>8, <2>9, EditedKeeps DEF Edited_file, mxVars
  <2> QED BY <2>1, <2>2, <2>3, <2>4, <2>5, <2>6, <2>7, <2>8 DEF MxNext
<1> QED BY <1>1, <1>2, MxSound, PTL DEF MxSpec
=============================================================================
