------------------------------- MODULE Pairing -------------------------------
(***************************************************************************)
(* Who may start a turn: the sender gate of the inbound path (server.rs)   *)
(* and the pairing store behind it (pairing.rs), shared through one file   *)
(* by the running gateway and the pairing-approve command of the CLI.      *)
(*                                                                         *)
(* A peer is an account with a sender. A code is drawn without a look at   *)
(* those in use, and an approval takes the first request with the code it  *)
(* is given, so any pending request may be the one it finds: the model     *)
(* keeps who is pending and leaves the codes out. A save truncates the     *)
(* file, then writes it; the gateway holds the store's mutex for both.     *)
(***************************************************************************)
EXTENDS Naturals

CONSTANTS
  Accounts, Senders,
  AllowFrom,   \* the channel's allow_from: senders let in without pairing
  MaxCrashes   \* bound: crashes of the gateway

Peers == Accounts \X Senders

ASSUME PairingConstants ==
  /\ AllowFrom \subseteq Senders /\ MaxCrashes \in Nat

NoOne == <<>>
Http == <<"http">>

VARIABLES
  up,                \* the gateway runs
  approved, pending, \* its PairingState: peers let in, peers with a request
  saver,             \* whose handler is inside save_state: NoOne, Http, or the peer whose message it is
  fileOK, fileApproved, filePending,  \* pairings.json; fileOK: it parses
  cli,               \* the CLI: "idle", "read" the file, "truncated" it
  cliApproved, cliPending,  \* its own copy of the state
  granted,           \* peers whose request an operator's code found, whatever became of it
  verdict,           \* what became of each peer's latest message
  crashes

mem == <<approved, pending>>
file == <<fileOK, fileApproved, filePending>>
cliVars == <<cli, cliApproved, cliPending>>
vars == <<up, mem, saver, file, cliVars, granted, verdict, crashes>>

\* PairingStore::open on a fresh state directory; the empty file stands for no file.
Init ==
  /\ up = TRUE /\ approved = {} /\ pending = {} /\ saver = NoOne
  /\ fileOK = TRUE /\ fileApproved = {} /\ filePending = {}
  /\ cli = "idle" /\ cliApproved = {} /\ cliPending = {}
  /\ granted = {} /\ verdict = [p \in Peers |-> "none"] /\ crashes = 0

-----------------------------------------------------------------------------
(* The store.                                                              *)

\* The handler has the mutex.
Ready == up /\ saver = NoOne

\* Seeded bug: approvals are looked up by sender, whatever the account.
IsApprovedAnyAccount(p) == \E q \in approved : q[2] = p[2]

\* is_approved: approvals are kept per channel and account.
IsApproved(p) == p \in approved

SenderAllowed(p) == p[2] \in AllowFrom \/ IsApproved(p)

\* save_state begins: std::fs::write truncates the file.
BeginSave(who) ==
  /\ saver' = who
  /\ fileOK' = FALSE /\ UNCHANGED <<fileApproved, filePending>>

\* The handler ends: a message that made a request is answered with its code, or
\* with an error.
Answer(v) ==
  /\ saver' = NoOne
  /\ verdict' = IF saver \in Peers THEN [verdict EXCEPT ![saver] = v] ELSE verdict
  /\ UNCHANGED <<up, mem, cliVars, granted, crashes>>

\* ... and ends: the whole state as the gateway knows it.
EndSave ==
  /\ up /\ saver # NoOne
  /\ Answer("asked")
  /\ fileOK' = TRUE /\ fileApproved' = approved /\ filePending' = pending

\* The write fails: the file is as it was or is left truncated; the gateway keeps
\* what it changed.
SaveFails ==
  /\ up /\ saver # NoOne
  /\ Answer("error")
  /\ fileOK' \in BOOLEAN /\ UNCHANGED <<fileApproved, filePending>>

-----------------------------------------------------------------------------
(* process_inbound_message_with_target: a direct message under             *)
(* dm_policy = pairing.                                                    *)

\* The channel puts a message into the inbound queue.
Arrive(p) ==
  /\ verdict[p] # "queued"
  /\ verdict' = [verdict EXCEPT ![p] = "queued"]
  /\ UNCHANGED <<up, mem, saver, file, cliVars, granted, crashes>>

Turn(p) ==
  /\ SenderAllowed(p)
  /\ verdict' = [verdict EXCEPT ![p] = "turn"]
  /\ UNCHANGED <<mem, saver, file>>

\* ensure_pending: one pending request per peer, saved when it is new.
Ask(p) ==
  /\ ~SenderAllowed(p)
  /\ \/ /\ p \in pending
        /\ verdict' = [verdict EXCEPT ![p] = "asked"]
        /\ UNCHANGED <<mem, saver, file>>
     \/ /\ p \notin pending
        /\ pending' = pending \cup {p} /\ UNCHANGED <<approved, verdict>>
        /\ BeginSave(p)

\* The consumer takes p's message.
Message(p) ==
  /\ Ready /\ verdict[p] = "queued"
  /\ Turn(p) \/ Ask(p)
  /\ UNCHANGED <<up, cliVars, granted, crashes>>

\* pairing_approve_handler: approve on the gateway's state, with a code that finds
\* p's request.
HttpApprove(p) ==
  /\ Ready /\ p \in pending
  /\ pending' = pending \ {p}
  /\ approved' = approved \cup {p}
  /\ granted' = granted \cup {p}
  /\ BeginSave(Http)
  /\ UNCHANGED <<up, cliVars, verdict, crashes>>

-----------------------------------------------------------------------------
(* pairing-approve: another process opens the same file, approves, saves.  *)

CliOpen(p) ==
  /\ cli = "idle" /\ fileOK /\ p \in filePending
  /\ cli' = "read"
  /\ cliApproved' = fileApproved \cup {p}
  /\ cliPending' = filePending \ {p}
  /\ granted' = granted \cup {p}
  /\ UNCHANGED <<up, mem, saver, file, verdict, crashes>>

CliTruncate ==
  /\ cli = "read" /\ cli' = "truncated"
  /\ fileOK' = FALSE
  /\ UNCHANGED <<up, mem, saver, fileApproved, filePending, cliApproved, cliPending,
                 granted, verdict, crashes>>

\* ... and then write what the command holds.
CliWrite ==
  /\ cli = "truncated" /\ cli' = "idle"
  /\ fileOK' = TRUE /\ fileApproved' = cliApproved /\ filePending' = cliPending
  /\ UNCHANGED <<up, mem, saver, cliApproved, cliPending, granted, verdict, crashes>>

-----------------------------------------------------------------------------

\* The gateway ends, perhaps inside a save.
Crash ==
  /\ up /\ crashes < MaxCrashes
  /\ up' = FALSE /\ crashes' = crashes + 1 /\ saver' = NoOne
  /\ verdict' = [p \in Peers |-> IF verdict[p] = "queued" THEN "none" ELSE verdict[p]]
  /\ UNCHANGED <<mem, file, cliVars, granted>>

\* PairingStore::open: a file that does not parse refuses the start.
Restart ==
  /\ ~up /\ fileOK
  /\ up' = TRUE /\ approved' = fileApproved /\ pending' = filePending
  /\ UNCHANGED <<saver, file, cliVars, granted, verdict, crashes>>

Next ==
  \/ EndSave \/ SaveFails \/ CliTruncate \/ CliWrite \/ Crash \/ Restart
  \/ \E p \in Peers : Arrive(p) \/ Message(p) \/ HttpApprove(p) \/ CliOpen(p)

Spec == Init /\ [][Next]_vars

-----------------------------------------------------------------------------
(* Properties.                                                             *)

\* Nobody starts a turn whose request no operator's code found, neither after stale
\* saves of two processes over one file nor after crashes: an approval holds for its
\* account only.
OnlyGranted ==
  \A p \in Peers : verdict[p] = "turn" => p \in granted \/ p[2] \in AllowFrom
=============================================================================
