--------------------------- MODULE DeliveryPromise ---------------------------
(***************************************************************************)
(* What delivering one reply promises, without attempts, retries and       *)
(* drafts: its pieces come to be shown one after the other, without a      *)
(* hole, nothing is shown after the result, and the result "sent" means    *)
(* that none is missing. A piece is shown by its full text or, in batches  *)
(* of files, by its files: a text that goes with files may be lost, files  *)
(* that go with a text too. Delivery implements it; Inbound uses it.       *)
(***************************************************************************)
EXTENDS Naturals

CONSTANT MaxPieces     \* bound: pieces of a reply

ASSUME PromiseConstants == MaxPieces \in Nat \ {0}

VARIABLES
  missing,     \* how many pieces the recipient does not have, see above
  result       \* "none" yet, "sent", "partial" (a record that is not sent), "error" (no record)

promiseVars == <<missing, result>>

PromiseInit == missing \in 1..MaxPieces /\ result = "none"

\* A step of delivery: the next piece may come to be shown, the result may be known;
\* only a complete reply is reported as sent.
Deliver ==
  /\ result = "none"
  /\ missing' \in {n \in 0..missing : n + 1 >= missing}
  /\ result' \in {"none", "sent", "partial", "error"}
  /\ result' = "sent" => missing' = 0

PromiseSpec == PromiseInit /\ [][Deliver]_promiseVars
=============================================================================
