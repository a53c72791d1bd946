-------------------------- MODULE MC_SessionStore --------------------------
(* On Telegram, Alice directly and in a group, Bob in the same group and in a topic of it; *)
(* on Signal, Alice directly; and the console of a second agent.                          *)
EXTENDS SessionStore

Talk(channel, from, place, topic, group) ==
  [agent |-> SrAgent, channel |-> channel, from |-> from, place |-> place, topic |-> topic,
   group |-> group]
MCReplies == [chunks: 1..2, id: BOOLEAN]
MCOneReply == {[chunks |-> 1, id |-> TRUE]}
MCConvs ==
  {Talk("telegram", "alice", "alice", "", FALSE), Talk("telegram", "alice", "g", "", TRUE),
   Talk("telegram", "bob", "g", "", TRUE), Talk("telegram", "bob", "g", "t", TRUE),
   Talk("signal", "alice", "", "", FALSE),
   [Talk("console", "", "", "", FALSE) EXCEPT !.agent = "b"]}
=============================================================================
