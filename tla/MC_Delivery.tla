----------------------------- MODULE MC_Delivery -----------------------------
(* What users get to see. A behaviour is about one reply (part "reply"), one    *)
(* call of an adapter ("call"), one streamed turn ("front"), the canvas         *)
(* ("canvas"), the web console ("console") or the media store ("media").        *)
(* Replies: every text of up to five characters, against limits below and above *)
(* its words and no limit to speak of, and every short list of attachments.     *)
(* Calls: every platform, up to two files of all kinds.                         *)
EXTENDS Delivery, ChannelSend, StreamFronts, Canvas, WebConsole, MediaFiles

MCTexts == UNION {[1..n -> {"a", WS, Punct}] : n \in 1..5}
MCFiles == UNION {[1..n -> Kinds] : n \in 1..3}
MCReplies ==
  [text : MCTexts, files : {<<>>}, max : {2, 3, 9}, batch : {"whole"}, live : {TRUE}]
    \cup [text : {<<"a">>}, files : MCFiles, max : {9},
          batch : {"kinds", "single", "whole"}, live : {FALSE}]

MCSends ==
  [files : UNION {[1..n -> {"image", "video", "audio", "empty"}] : n \in 0..2}, parts : 0..2,
   account : BOOLEAN, user : {FALSE}, direct : {TRUE}]
    \cup [files : {<<>>, <<"image">>}, parts : {1}, account : {TRUE}, user : {TRUE}, direct : {FALSE}]

VARIABLE part

others == <<vars, csVars, sfVars, cvVars, wcVars, mfVars>>
allVars == <<others, part>>

MCInit ==
  /\ Init /\ CsInit /\ SfInit /\ CvInit /\ WcInit /\ open_media_store
  /\ part \in {"reply", "call", "front", "canvas", "console", "media"}
  /\ part # "reply" => reply.text = <<"a">> /\ reply.files = <<>> /\ reply.max = 9
  /\ part # "front" => sfFront = "json" /\ sfSession = "none"
  /\ part # "media" => ~mfScanner

\* What has come to its end stays as it is.
Ended ==
  \/ part = "reply" /\ Terminated
  \/ part = "call" /\ csOut # "none"
  \/ part \in {"front", "canvas", "console", "media"}

MCNext ==
  \/ part = "reply" /\ Next /\ UNCHANGED <<csVars, sfVars, cvVars, wcVars, mfVars, part>>
  \/ part = "call" /\ CsNext /\ UNCHANGED <<vars, sfVars, cvVars, wcVars, mfVars, part>>
  \/ part = "front" /\ SfNext /\ UNCHANGED <<vars, csVars, cvVars, wcVars, mfVars, part>>
  \/ part = "canvas" /\ CvNext /\ UNCHANGED <<vars, csVars, sfVars, wcVars, mfVars, part>>
  \/ part = "console" /\ WcNext /\ UNCHANGED <<vars, csVars, sfVars, cvVars, mfVars, part>>
  \/ part = "media" /\ MfNext /\ UNCHANGED <<vars, csVars, sfVars, cvVars, wcVars, part>>
  \/ Ended /\ UNCHANGED allVars

MCSpec ==
  /\ MCInit /\ [][MCNext]_allVars
  /\ WF_allVars(part = "reply" /\ Next /\ UNCHANGED <<csVars, sfVars, cvVars, wcVars, mfVars, part>>)
  /\ WF_allVars(part = "front" /\ SfWork /\ UNCHANGED <<vars, csVars, cvVars, wcVars, mfVars, part>>)

\* Every delivery comes to its end (deliver_outbound_message returns), however often
\* chunks are refused, limited or lost; so does every streamed turn, whose front end may
\* stop reading at any event, unless its client neither reads nor leaves.
RepliesEnd == (part = "reply" => DeliveryEnds) /\ (part = "front" => FrontsReturn)
=============================================================================
