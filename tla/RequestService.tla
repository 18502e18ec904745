--------------------------- MODULE RequestService ---------------------------
(***************************************************************************)
(* What ImapManager promises to its callers, whatever the network does: a  *)
(* submitted item (request, prefetch request, action or server search) is  *)
(* either refused on the spot or becomes pending; a pending item is        *)
(* answered through its handler at most once, with a success or a failure; *)
(* the destructor may drop pending items, and a dropped or refused item is *)
(* never answered.                                                         *)
(***************************************************************************)

CONSTANT Items

VARIABLE status

Status == {"new", "refused", "pending", "ok", "failed", "dropped"}

Init == status = [i \in Items |-> "new"]

Refuse(i) ==
  /\ status[i] = "new"
  /\ status' = [status EXCEPT ![i] = "refused"]

Submit(i) ==
  /\ status[i] = "new"
  /\ status' = [status EXCEPT ![i] = "pending"]

Answer(i, result) ==
  /\ status[i] = "pending"
  /\ status' = [status EXCEPT ![i] = result]

Drop(S) ==
  /\ \A i \in S : status[i] = "pending"
  /\ status' = [i \in Items |-> IF i \in S THEN "dropped" ELSE status[i]]

Next ==
  \/ \E i \in Items : Refuse(i) \/ Submit(i)
  \/ \E i \in Items, result \in {"ok", "failed"} : Answer(i, result)
  \/ \E S \in SUBSET Items : Drop(S)

Spec == Init /\ [][Next]_status

=============================================================================
