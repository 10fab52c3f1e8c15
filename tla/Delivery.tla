------------------------------ MODULE Delivery ------------------------------
(***************************************************************************)
(* What an export of a processing worker promises (internal/services/      *)
(* storage/transfer_transaction_manager.go): an order is placed as a       *)
(* whole, with all it is for; what is left of it is handed to its targets  *)
(* in pieces, each of them once; and it is closed when nothing is left.    *)
(* Who does that and how often, and what fails in between, is left open.   *)
(***************************************************************************)
EXTENDS Sums

CONSTANTS
  Orders,   \* what is ordered: place -> [uid, amount, target]
  Uids,     \* items and fluids
  NoUid,
  Targets   \* who gets them

VARIABLES
  placed,   \* the number of the newest order
  open,     \* orders that are not closed: [id, order, left], what is left in each place
  owed      \* what targets have not been handed of what was ordered for them

vars == <<placed, open, owed>>

NothingLeft == [uid |-> NoUid, amount |-> 0]

Init ==
  /\ placed = 0 /\ open = {}
  /\ owed = [t \in Targets |-> [u \in Uids |-> 0]]

Place(order) ==
  /\ placed' = placed + 1
  /\ open' = open \union
       {[id |-> placed + 1, order |-> order,
         left |-> [c \in DOMAIN order |-> [uid |-> order[c].uid, amount |-> order[c].amount]]]}
  /\ owed' = [t \in Targets |-> [u \in Uids |-> owed[t][u] +
       SumOver([c \in DOMAIN order |-> order[c].amount],
         {c \in DOMAIN order : order[c].target = t /\ order[c].uid = u})]]

\* A target takes n of what is left in a place.
HandOver(o, c, n) ==
  LET rest == IF n = o.left[c].amount THEN NothingLeft
              ELSE [o.left[c] EXCEPT !.amount = @ - n]
  IN  /\ open' = (open \ {o}) \union {[o EXCEPT !.left = [@ EXCEPT ![c] = rest]]}
      /\ owed' = [owed EXCEPT ![o.order[c].target][o.left[c].uid] = @ - n]
      /\ UNCHANGED placed

Close(o) ==
  /\ \A c \in DOMAIN o.left : o.left[c] = NothingLeft
  /\ open' = open \ {o}
  /\ UNCHANGED <<placed, owed>>

Next ==
  \/ \E order \in Orders : Place(order)
  \/ \E o \in open :
       \/ \E c \in DOMAIN o.left : \E n \in 1..o.left[c].amount : HandOver(o, c, n)
       \/ Close(o)

Spec == Init /\ [][Next]_vars
=============================================================================
