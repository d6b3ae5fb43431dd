---------------------------- MODULE PayinPromise ----------------------------
(***************************************************************************)
(* What a pay-in order promises the merchant, whatever order the           *)
(* confirmations, the expiry sweep and the status readers run in: an open  *)
(* order may be closed (failed or expired), any order that is not paid may *)
(* be paid, a paid order never changes again, and one bank reference pays  *)
(* one live order.  PayinOrder is shown to implement this module.          *)
(***************************************************************************)
CONSTANTS Order,        \* the pay-in orders
          LiveOrder,    \* those that move real money
          Ref,          \* bank references (UTR / RRN)
          NoRef         \* the reference of an order that was never paid

VARIABLES status,       \* what each order's status is
          paidWith      \* the bank reference that paid it

promiseVars == <<status, paidWith>>

Init == /\ status = [o \in Order |-> "PENDING"]
        /\ paidWith = [o \in Order |-> NoRef]

Close(o, s) == /\ status[o] = "PENDING"
               /\ status' = [status EXCEPT ![o] = s]
               /\ UNCHANGED paidWith

\* The live orders other than o that reference r has already paid.
PaidBy(r, o) == {p \in LiveOrder \ {o} : status[p] = "SUCCESS" /\ paidWith[p] = r}

Pay(o, r) == /\ status[o] # "SUCCESS"
             /\ o \in LiveOrder => PaidBy(r, o) = {}
             /\ status' = [status EXCEPT ![o] = "SUCCESS"]
             /\ paidWith' = [paidWith EXCEPT ![o] = r]

Next == \E o \in Order : \/ \E s \in {"FAILED", "EXPIRED"} : Close(o, s)
                         \/ \E r \in Ref : Pay(o, r)

Spec == Init /\ [][Next]_promiseVars

\* One bank reference settles at most one live order (unique index, vendorGateway 0035).
OneReferenceOneOrder ==
  \A o, p \in LiveOrder :
    status[o] = "SUCCESS" /\ status[p] = "SUCCESS" /\ paidWith[o] = paidWith[p] => o = p

\* A paid order never changes again: SUCCESS is the one hard final status.
StaysPaid == \A o \in Order : status[o] = "SUCCESS" =>
                                status'[o] = "SUCCESS" /\ paidWith'[o] = paidWith[o]
PaidIsFinal == [][StaysPaid]_promiseVars
=============================================================================
