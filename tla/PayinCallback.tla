---------------------------- MODULE PayinCallback ----------------------------
(***************************************************************************)
(* Telling the merchant: PayinOrder composed with sendPayinCallback        *)
(* (lib/merchant-callback), the callback backstop of the status sweep, and *)
(* the webhook outbox, seen here as a list of rows that are attempted until*)
(* one attempt is accepted (module WebhookOutbox has its retries).         *)
(*                                                                         *)
(* A worker whose write made an order final sends its callback one         *)
(* statement at a time: read the order, queue the row, stamp meta.callback.*)
(***************************************************************************)
EXTENDS PayinOrder, Sequences

CONSTANTS HasTarget,    \* the merchant has a callback address
          Subscribed    \* the status words it wants ("paid only" wants Captured)

ASSUME CallbackAssumption == HasTarget \in BOOLEAN /\ Subscribed \subseteq Word

VARIABLES send,      \* how far each worker's sendPayinCallback is, and the stamp it will leave
          outbox,    \* webhook_outbox
          lastTold,  \* the last status word the merchant's server accepted, per order
          paidTold   \* the orders it was told "Captured" for

callbackVars == <<send, outbox, lastTold, paidTold>>
allVars == <<vars, callbackVars>>

OutboxRow == [order : Order, word : Word, status : {"PENDING", "DELIVERED"}]

Unsent == [at |-> "start", stamp |-> NoStamp]

CallbackInit == /\ Init
                /\ send = [w \in Worker |-> Unsent]
                /\ outbox = <<>>
                /\ lastTold = [o \in Order |-> "none"]
                /\ paidTold = {}

\* Mutant: a status without a word of its own is sent as it is.
RawStatus(status) == IF status = "SUCCESS" THEN "Captured" ELSE status

callbackStatus(status) == CASE status = "SUCCESS" -> "Captured"
                            [] status = "FAILED"  -> "Failed"
                            [] OTHER -> "Expired"

SentAtAll(stamp, status) == stamp.kind = "sent"          \* mutant: whatever was sent, it is told

\* Sent once per status; after "Captured" nothing.  (An old stamp without a word, which no handler
\* writes any more, blocks everything in the code and is left out.)
payinCallbackSent(stamp, status) ==
  stamp.kind = "sent" /\ stamp.word \in {"Captured", callbackStatus(status)}

Sending(w) == call[w].pc = "notify"
Finished(w) == Over(w) /\ send' = [send EXCEPT ![w] = Unsent]
Goes(w, at, kind, word) ==
  /\ send' = [send EXCEPT ![w] = [at |-> at, stamp |-> [kind |-> kind, word |-> word]]]
  /\ UNCHANGED call

SendRead(w) ==
  LET o == call[w].order
      word == callbackStatus(row[o].status)
      told == payinCallbackSent(row[o].meta.callback, row[o].status)
  IN  /\ Sending(w) /\ send[w].at = "start"
      /\ \/ (~Final(o) \/ told) /\ Finished(w)
         \/ Final(o) /\ ~told /\ ~HasTarget /\ Goes(w, "stamp", "skipped", "none")
         \/ Final(o) /\ ~told /\ HasTarget /\ word \notin Subscribed
            /\ Goes(w, "stamp", "skipped", word)
         \/ Final(o) /\ ~told /\ HasTarget /\ word \in Subscribed
            /\ Goes(w, "queue", "sent", word)
      /\ UNCHANGED <<row, due, faults, outbox, lastTold, paidTold>>

\* Mutant: a callback that could not be queued is stamped as sent.
SendQueueBlind(w) ==
  /\ Sending(w) /\ send[w].at = "queue"
  /\ \/ outbox' = Append(outbox, [order |-> call[w].order, word |-> send[w].stamp.word,
                                  status |-> "PENDING"]) /\ UNCHANGED faults
     \/ faults < MaxFaults /\ faults' = faults + 1 /\ UNCHANGED outbox
  /\ Goes(w, "stamp", "sent", send[w].stamp.word)
  /\ UNCHANGED <<row, due, lastTold, paidTold>>

SendQueue(w) ==
  /\ Sending(w) /\ send[w].at = "queue"
  /\ \/ /\ outbox' = Append(outbox, [order |-> call[w].order, word |-> send[w].stamp.word,
                                     status |-> "PENDING"])
        /\ Goes(w, "stamp", "sent", send[w].stamp.word)
        /\ UNCHANGED faults
     \/ /\ faults < MaxFaults /\ faults' = faults + 1
        /\ Goes(w, "stamp", "not queued", "none")
        /\ UNCHANGED outbox
  /\ UNCHANGED <<row, due, lastTold, paidTold>>

\* The stamp is merged into meta under no guard, and its failure is swallowed.
SendStamp(w) ==
  /\ Sending(w) /\ send[w].at = "stamp"
  /\ \/ /\ row' = [row EXCEPT ![call[w].order].meta.callback = send[w].stamp]
        /\ UNCHANGED faults
     \/ /\ faults < MaxFaults /\ faults' = faults + 1
        /\ UNCHANGED row
  /\ Finished(w)
  /\ UNCHANGED <<due, outbox, lastTold, paidTold>>

Send(w) == SendRead(w) \/ SendQueue(w) \/ SendStamp(w)

(***************************************************************************)
(* The backstop: final orders whose merchant was not told.  Orders final   *)
(* for under a minute are left to the inline send, so a backstop that      *)
(* overlaps another send of the order (one that took longer than that, or  *)
(* another sweep's) counts as a fault.                                     *)
(***************************************************************************)
\* Mutant: an order paid after it had lapsed is not looked for.
OwedIfUntold(o) == Final(o) /\ row[o].meta.callback.kind \in {"none", "not queued"}

Owed(o) == /\ Final(o)
           /\ \/ row[o].meta.callback.kind \in {"none", "not queued"}
              \/ Paid(o) /\ row[o].meta.callback.word \in {"Expired", "Failed"}

BeingSent(o) == \E w \in Worker : Sending(w) /\ call[w].order = o

Backstop(w, o) ==
  /\ call[w].pc = "idle" /\ Owed(o)
  /\ call' = [call EXCEPT ![w] = [Idle EXCEPT !.pc = "notify", !.order = o]]
  /\ \/ ~BeingSent(o) /\ UNCHANGED faults
     \/ BeingSent(o) /\ faults < MaxFaults /\ faults' = faults + 1
  /\ UNCHANGED <<row, due, callbackVars>>

(***************************************************************************)
(* An attempt at a PENDING row that the merchant's server accepts; the     *)
(* attempts it refuses change nothing here.  The write that marks the row  *)
(* may be lost, and then the row is attempted again.                       *)
(***************************************************************************)
Accepted(i) ==
  /\ outbox[i].status = "PENDING"
  /\ lastTold' = [lastTold EXCEPT ![outbox[i].order] = outbox[i].word]
  /\ paidTold' = paidTold \cup (IF outbox[i].word = "Captured" THEN {outbox[i].order} ELSE {})

Deliver(i) == /\ Accepted(i)
              /\ outbox' = [outbox EXCEPT ![i].status = "DELIVERED"]
              /\ UNCHANGED <<vars, send>>

DeliverUnmarked(i) == /\ Accepted(i)
                      /\ faults < MaxFaults /\ faults' = faults + 1
                      /\ UNCHANGED <<row, due, call, send, outbox>>

-----------------------------------------------------------------------------
CallbackNext ==
  \/ OrderNext /\ UNCHANGED <<outbox, lastTold, paidTold>>
     /\ send' = [w \in Worker |-> IF call'[w].pc = "notify" THEN send[w] ELSE Unsent]
  \/ \E w \in Worker : Send(w)
  \/ \E w \in Worker, o \in Order : Backstop(w, o)
  \/ \E i \in DOMAIN outbox : Deliver(i) \/ DeliverUnmarked(i)

CallbackSpec == CallbackInit /\ [][CallbackNext]_allVars

(***************************************************************************)
(* Fairness of PayinOrder, and: a send under way goes on unless its        *)
(* process dies, every sweep gets to the orders it owes a callback for     *)
(* (within the day it looks back), and the merchant's server accepts a     *)
(* callback before its retries are used up.                                *)
(***************************************************************************)
CallbackFairness ==
  /\ \A o \in Order : /\ WF_allVars(Aging(o) /\ UNCHANGED callbackVars)
                      /\ SF_allVars(\E w \in Worker : ResolveRead(w, o) /\ UNCHANGED callbackVars)
                      /\ SF_allVars(\E w \in Worker : Backstop(w, o))
  /\ \A w \in Worker : /\ WF_allVars(Step(w) /\ UNCHANGED callbackVars)
                       /\ WF_allVars(Send(w))
  /\ WF_allVars(\E i \in DOMAIN outbox : Deliver(i))

CallbackFairSpec == CallbackSpec /\ CallbackFairness

-----------------------------------------------------------------------------
Told(o) == \E i \in DOMAIN outbox : outbox[i].order = o
                                    /\ outbox[i].word = callbackStatus(row[o].status)

\* Type correctness of the callback state.
CallbackTypeOK ==
  /\ send \in [Worker -> [at : {"start", "queue", "stamp"}, stamp : Stamp]]
  /\ outbox \in Seq(OutboxRow)
  /\ lastTold \in [Order -> Word \cup {"none"}]
  /\ paidTold \in SUBSET Order

\* Whatever became stale while a callback was on its way, "Captured" is only ever said of a
\* paid order: by a queued row, by a sender about to queue one, by what the merchant heard.
CapturedIsTrue ==
  /\ \A i \in DOMAIN outbox : outbox[i].word = "Captured" => Paid(outbox[i].order)
  /\ \A w \in Worker : Sending(w) /\ send[w].stamp.word = "Captured" => Paid(call[w].order)
  /\ \A o \in paidTold : Paid(o)

\* meta.callback says "sent" only when a row with that word was really queued.
SentMeansQueued ==
  \A o \in Order : row[o].meta.callback.kind = "sent" =>
    \E i \in DOMAIN outbox : outbox[i].order = o /\ outbox[i].word = row[o].meta.callback.word

\* No final order is forgotten, at any moment: its current status was queued for the merchant, or
\* the sweep's backstop selects it, whoever else may be on the way to send it.
NothingForgotten ==
  \A o \in Order : Final(o) /\ HasTarget /\ callbackStatus(row[o].status) \in Subscribed =>
    Told(o) \/ Owed(o)

\* A paid order is announced: the merchant's server accepts "Captured", whatever died, failed
\* or was written over on the way.
PaidIsAnnounced == \A o \in Order : Paid(o) ~> o \in paidTold

\* lib/katana-pay payinCallbackSent: "Captured" is hard final, "once a merchant has been told
\* it, nothing else is ever sent".
CapturedIsTheLastWord == \A o \in paidTold : lastTold[o] = "Captured"
=============================================================================
