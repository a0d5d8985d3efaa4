----------------------------- MODULE RepoChannel -----------------------------
(***************************************************************************)
(* What one slot of the tensor repository promises to the tensor_reposink  *)
(* and tensor_reposrc that share it: a channel of capacity one that hands  *)
(* over every buffer once and in order, and that can be closed.  A closed  *)
(* channel accepts nothing more but still gives out the buffer it holds.   *)
(* A channel appears and disappears with its slot.                         *)
(***************************************************************************)
EXTENDS Sequences

CONSTANTS
  Slots,     \* slot indices
  Payloads   \* what a channel carries

VARIABLES
  open,      \* [Slots -> {"none", "open", "closed"}]
  sent,      \* [Slots -> Seq(Payloads)]: accepted by the channel so far
  received   \* [Slots -> Seq(Payloads)]: handed out by the channel so far

chanVars == <<open, sent, received>>

(* The buffers a channel holds: those sent and not yet received. *)
Holds(s, q) == sent[s] = received[s] \o q

ChanInit ==
  /\ open = [s \in Slots |-> "none"]
  /\ sent = [s \in Slots |-> <<>>]
  /\ received = [s \in Slots |-> <<>>]

Create(s) ==
  /\ open[s] = "none"
  /\ open' = [open EXCEPT ![s] = "open"]
  /\ sent' = [sent EXCEPT ![s] = <<>>]
  /\ received' = [received EXCEPT ![s] = <<>>]

Destroy(s) ==
  /\ open[s] # "none"
  /\ open' = [open EXCEPT ![s] = "none"]
  /\ UNCHANGED <<sent, received>>

Send(s, p) ==
  /\ open[s] = "open"
  /\ Holds(s, <<>>)
  /\ sent' = [sent EXCEPT ![s] = Append(@, p)]
  /\ UNCHANGED <<open, received>>

Receive(s, p) ==
  /\ open[s] # "none"
  /\ Holds(s, <<p>>)
  /\ received' = [received EXCEPT ![s] = Append(@, p)]
  /\ UNCHANGED <<open, sent>>

Close(s) ==
  /\ open[s] = "open"
  /\ open' = [open EXCEPT ![s] = "closed"]
  /\ UNCHANGED <<sent, received>>

ChanNext ==
  \E s \in Slots :
    \/ Create(s) \/ Destroy(s) \/ Close(s)
    \/ \E p \in Payloads : Send(s, p) \/ Receive(s, p)

ChanSpec == ChanInit /\ [][ChanNext]_chanVars
==============================================================================
