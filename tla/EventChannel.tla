---------------------------- MODULE EventChannel -----------------------------
(***************************************************************************)
(* What thread::Queue and the thread that empties it promise together: a   *)
(* channel that takes events while it is open, hands them on one at a time *)
(* in the order they came, and forgets the rest only when it was closed    *)
(* without asking for them to be drained.                                  *)
(***************************************************************************)
EXTENDS Sequences

CONSTANT Event

VARIABLES pending, delivered, open, drain

vars == <<pending, delivered, open, drain>>

Init == pending = <<>> /\ delivered = <<>> /\ open = TRUE /\ drain = TRUE

Accept(e) ==
  /\ open
  /\ pending' = Append(pending, e)
  /\ UNCHANGED <<delivered, open, drain>>

Deliver ==
  /\ pending # <<>>
  /\ delivered' = Append(delivered, Head(pending))
  /\ pending' = Tail(pending)
  /\ UNCHANGED <<open, drain>>

Close(d) ==
  /\ open
  /\ open' = FALSE /\ drain' = d
  /\ UNCHANGED <<pending, delivered>>

Forget ==
  /\ ~open /\ ~drain
  /\ pending' = <<>>
  /\ UNCHANGED <<delivered, open, drain>>

Next ==
  \/ \E e \in Event : Accept(e)
  \/ Deliver
  \/ \E d \in BOOLEAN : Close(d)
  \/ Forget

Spec == Init /\ [][Next]_vars
=============================================================================
