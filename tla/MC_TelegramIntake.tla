-------------------------- MODULE MC_TelegramIntake --------------------------
(* A behaviour is about Telegram or about one of the other platforms.            *)
(* Telegram: four updates; the second and the third are not messages, and fill   *)
(* an answer. Others: four events, the second not a person's.                     *)
EXTENDS TelegramIntake, ChannelIntake

MCMessages == {1, 4}
MCEvents == <<"talk", "own", "long", "filed">>

VARIABLE part

mcVars == <<tgVars, ciVars, part>>

MCInit == TgInit /\ CiInit /\ part \in {"telegram", "others"}

Telegram(A) == part = "telegram" /\ A /\ UNCHANGED <<ciVars, part>>
Others(A) == part = "others" /\ A /\ UNCHANGED <<tgVars, part>>

MCNext == Telegram(TgNext) \/ Others(CiNext)

MCSpec ==
  /\ MCInit /\ [][MCNext]_mcVars
  /\ WF_mcVars(Telegram(Send)) /\ WF_mcVars(Telegram(Consume))
  /\ WF_mcVars(Telegram(Poll("main"))) /\ SF_mcVars(Telegram(Answer("main")))
  /\ WF_mcVars(Telegram(Take("main"))) /\ WF_mcVars(Telegram(BatchDone("main")))
  /\ WF_mcVars(Others(CiWork)) /\ WF_mcVars(Others(MakePost)) /\ WF_mcVars(Others(HookMessage))
  /\ WF_mcVars(Others(HookAnswer)) /\ \A e \in DOMAIN CiEvents : SF_mcVars(Others(PostOf(e)))
=============================================================================
