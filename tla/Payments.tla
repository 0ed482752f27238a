------------------------------ MODULE Payments ------------------------------
(***************************************************************************)
(* Proof of payment (app/payments.py) in front of a deep report: a         *)
(* purchase, recorded as used in a table on disk, or a signed message of a *)
(* pass holder, which may be shown again while it is fresh.  ScanService   *)
(* takes each of verify_and_consume's transaction and verify_pass as one   *)
(* step; here the transaction can fail, and the process can die in it.     *)
(***************************************************************************)
EXTENDS Integers, FiniteSets

CONSTANTS
    Workers,       \* pool threads
    Purchases,     \* ScanPurchased events of the gate
    PaymentId,     \* PaymentId[p]; two chains count their ids separately
    Messages,      \* signed pass messages
    Issued,        \* Issued[m]: the time written in m
    PASS_MAX_AGE,  \* in ticks
    MaxNow,        \* bound: the last tick
    MaxRestarts,   \* bound: deaths of the process
    MaxRedeploys,  \* bound: deaths that lose the disk too
    NoRequest, Nobody

ASSUME PurchasesAssumption == PaymentId \in [Purchases -> Nat]
ASSUME MessagesAssumption == Issued \in [Messages -> Int] /\ PASS_MAX_AGE \in Nat
ASSUME BoundsAssumption == MaxNow \in Nat /\ MaxRestarts \in Nat /\ MaxRedeploys \in Nat
ASSUME NobodyAssumption == Nobody \notin Workers

\* A per-scan request names a purchase by its id, written as the chain's client
\* writes it or in another way ("007").
Spellings == {"usual", "other"}
ScanProofs == [purchase : Purchases, spelling : Spellings]
PassProofs == [message : Messages]

ASSUME ProofsAssumption == NoRequest \notin ScanProofs \cup PassProofs

VARIABLES
    now,
    used,     \* the payment_id column, committed
    row,      \* INSERTs not committed yet: at most one payment_id
    lock,     \* the owner of _lock
    pc, req,
    readAt    \* readAt[w]: when verify_pass looked at the clock

\* Not in the code: how often a purchase let a request through, when each
\* message did, the ids whose request died with the process, and the faults.
VARIABLES accepted, shown, cut, restarts, redeploys

ghosts == <<accepted, shown, cut, restarts, redeploys>>
vars == <<now, used, row, lock, pc, req, readAt, ghosts>>

IsScan(r) == r \in ScanProofs

\* The text that is compared and stored.
Key(r) == <<PaymentId[r.purchase], r.spelling>>

Init ==
    /\ now = 0
    /\ used = {} /\ row = {} /\ lock = Nobody
    /\ pc = [w \in Workers |-> "idle"]
    /\ req = [w \in Workers |-> NoRequest]
    /\ readAt = [w \in Workers |-> 0]
    /\ accepted = [p \in Purchases |-> 0]
    /\ shown = [m \in Messages |-> {}]
    /\ cut = {}
    /\ restarts = 0 /\ redeploys = 0

----------------------------------------------------------------------------
GoTo(w, step) == pc' = [pc EXCEPT ![w] = step] /\ UNCHANGED req

\* The answer goes out, and the request's local state with it.
Leave(w) ==
    /\ pc' = [pc EXCEPT ![w] = "idle"]
    /\ req' = [req EXCEPT ![w] = NoRequest]
    /\ readAt' = [readAt EXCEPT ![w] = 0]

Arrive(w) ==
    /\ pc[w] = "idle"
    /\ \E r \in ScanProofs \cup PassProofs :
        /\ req' = [req EXCEPT ![w] = r]
        /\ pc' = [pc EXCEPT ![w] = IF IsScan(r) THEN "find_payment" ELSE "freshness"]
    /\ UNCHANGED <<now, used, row, lock, readAt, ghosts>>

(***************************************************************************)
(* verify_and_consume                                                      *)
(***************************************************************************)

\* Faulty variant: the ids are compared as numbers.
MatchesAsNumber(r) == TRUE

\* The ids are compared as texts.
Matches(r) == r.spelling = "usual"

\* No such event, another target or contract, no receipt: 402.
FindPayment(w) ==
    /\ pc[w] = "find_payment"
    /\ \/ Matches(req[w]) /\ GoTo(w, "wait") /\ UNCHANGED readAt
       \/ Leave(w)
    /\ UNCHANGED <<now, used, row, lock, ghosts>>

Lock(w) ==
    /\ pc[w] = "wait" /\ lock = Nobody
    /\ lock' = w
    /\ GoTo(w, "insert")
    /\ UNCHANGED <<now, used, row, readAt, ghosts>>

\* Faulty variant: INSERT OR REPLACE.
InsertOrReplace(w) ==
    /\ pc[w] = "insert"
    /\ row' = {Key(req[w])}
    /\ GoTo(w, "commit")
    /\ UNCHANGED <<now, used, lock, readAt, ghosts>>

Insert(w) ==
    /\ pc[w] = "insert"
    /\ Key(req[w]) \notin used
    /\ row' = {Key(req[w])}
    /\ GoTo(w, "commit")
    /\ UNCHANGED <<now, used, lock, readAt, ghosts>>

\* Faulty variant: the conflict is taken for a busy database, and tried again.
AlreadyUsedTriesAgain(w) ==
    /\ pc[w] = "insert"
    /\ Key(req[w]) \in used
    /\ lock' = Nobody
    /\ GoTo(w, "wait")
    /\ UNCHANGED <<now, used, row, readAt, ghosts>>

\* IntegrityError: 402.
AlreadyUsed(w) ==
    /\ pc[w] = "insert"
    /\ Key(req[w]) \in used
    /\ lock' = Nobody
    /\ Leave(w)
    /\ UNCHANGED <<now, used, row, ghosts>>

\* Faulty variant: autocommit; an error comes after the row was stored.
DatabaseFailsLate(w) ==
    /\ pc[w] \in {"insert", "commit"}
    /\ used' = used \cup row
    /\ row' = {} /\ lock' = Nobody
    /\ Leave(w)
    /\ UNCHANGED <<now, ghosts>>

\* Any other sqlite error; close() rolls back: 500.
DatabaseFails(w) ==
    /\ pc[w] \in {"insert", "commit"}
    /\ row' = {} /\ lock' = Nobody
    /\ Leave(w)
    /\ UNCHANGED <<now, used, ghosts>>

\* From here on the row survives the process.
Commit(w) ==
    /\ pc[w] = "commit"
    /\ used' = used \cup row
    /\ row' = {} /\ lock' = Nobody
    /\ GoTo(w, "consumed")
    /\ UNCHANGED <<now, readAt, ghosts>>

\* verify_and_consume returns: the report goes on.
Accept(w) ==
    /\ pc[w] = "consumed"
    /\ accepted' = [accepted EXCEPT ![req[w].purchase] = @ + 1]
    /\ Leave(w)
    /\ UNCHANGED <<now, used, row, lock, shown, cut, restarts, redeploys>>

(***************************************************************************)
(* verify_pass                                                             *)
(***************************************************************************)

\* Faulty variant: only messages that are too old are refused.
FreshIfNotOld(m) == now - Issued[m] <= PASS_MAX_AGE

Fresh(m) == now - Issued[m] <= PASS_MAX_AGE /\ now - Issued[m] >= -PASS_MAX_AGE

\* Faulty variant: the message's age is kept where its reading time belongs.
FreshnessByAge(w) ==
    /\ pc[w] = "freshness"
    /\ \/ /\ Fresh(req[w].message)
          /\ GoTo(w, "active_pass")
          /\ readAt' = [readAt EXCEPT ![w] = now - Issued[req[w].message]]
       \/ Leave(w)
    /\ UNCHANGED <<now, used, row, lock, ghosts>>

\* The signature and the clock; bad or old: 402.
Freshness(w) ==
    /\ pc[w] = "freshness"
    /\ \/ /\ Fresh(req[w].message)
          /\ GoTo(w, "active_pass")
          /\ readAt' = [readAt EXCEPT ![w] = now]
       \/ Leave(w)
    /\ UNCHANGED <<now, used, row, lock, ghosts>>

\* hasActivePass on the chain; no, or no answer: 402.
ActivePass(w) ==
    /\ pc[w] = "active_pass"
    /\ shown' \in {shown, [shown EXCEPT ![req[w].message] = @ \cup {readAt[w]}]}
    /\ Leave(w)
    /\ UNCHANGED <<now, used, row, lock, accepted, cut, restarts, redeploys>>

(***************************************************************************)
(* The surroundings                                                        *)
(***************************************************************************)
Tick ==
    /\ now < MaxNow
    /\ now' = now + 1
    /\ UNCHANGED <<used, row, lock, pc, req, readAt, ghosts>>

\* The threads and what was not committed are gone.
Die ==
    /\ row' = {} /\ lock' = Nobody
    /\ pc' = [w \in Workers |-> "idle"]
    /\ req' = [w \in Workers |-> NoRequest]
    /\ readAt' = [w \in Workers |-> 0]
    /\ cut' = cut \cup {Key(req[w]) : w \in {v \in Workers : pc[v] = "consumed"}}
    /\ UNCHANGED <<now, accepted, shown>>

Restart ==
    /\ restarts < MaxRestarts
    /\ restarts' = restarts + 1
    /\ Die
    /\ UNCHANGED <<used, redeploys>>

\* A new container: payments.db is in the old one's file system.
Redeploy ==
    /\ redeploys < MaxRedeploys
    /\ redeploys' = redeploys + 1
    /\ used' = {}
    /\ Die
    /\ UNCHANGED restarts

Handle(w) ==
    \/ FindPayment(w) \/ Lock(w) \/ Insert(w) \/ AlreadyUsed(w) \/ DatabaseFails(w)
    \/ Commit(w) \/ Accept(w)
    \/ Freshness(w) \/ ActivePass(w)

Next ==
    \/ \E w \in Workers : Arrive(w) \/ Handle(w)
    \/ Tick \/ Restart \/ Redeploy

Spec == Init /\ [][Next]_vars

\* A thread keeps running, and one that waits for the lock gets it if it is free
\* again and again: sections under it are short, and few threads wait.
FairSpec == Spec /\ \A w \in Workers : WF_vars(Handle(w)) /\ SF_vars(Lock(w))

----------------------------------------------------------------------------
Keys == {<<PaymentId[p], s>> : p \in Purchases, s \in Spellings}
Steps == {"idle", "find_payment", "wait", "insert", "commit", "consumed",
          "freshness", "active_pass"}

TypeOK ==
    /\ now \in 0..MaxNow
    /\ used \subseteq Keys /\ row \subseteq Keys
    /\ lock \in Workers \cup {Nobody}
    /\ pc \in [Workers -> Steps]
    /\ req \in [Workers -> ScanProofs \cup PassProofs \cup {NoRequest}]
    /\ readAt \in [Workers -> 0..MaxNow]
    /\ accepted \in [Purchases -> Nat]
    /\ shown \in [Messages -> SUBSET (0..MaxNow)]
    /\ cut \subseteq Keys
    /\ restarts \in 0..MaxRestarts /\ redeploys \in 0..MaxRedeploys

(***************************************************************************)
(* A purchase pays for one report in the life of a disk, whatever requests *)
(* show it, in any spelling, at the same time or again, and wherever the   *)
(* process dies.                                                           *)
(***************************************************************************)
PurchaseOnce == \A p \in Purchases : accepted[p] <= redeploys + 1

(***************************************************************************)
(* An id is in the table only for a request that was let through, is about *)
(* to be, or died with the process: no error of the database costs a buyer *)
(* the purchase.                                                           *)
(***************************************************************************)
NothingLost ==
    \A key \in used :
        \/ key \in cut
        \/ \E p \in Purchases : PaymentId[p] = key[1] /\ accepted[p] > 0
        \/ \E w \in Workers : pc[w] = "consumed" /\ Key(req[w]) = key

(***************************************************************************)
(* Whoever shows a signed message, at whatever times: from the first time  *)
(* it is let through to the last no more than twice PASS_MAX_AGE passes,   *)
(* the time of one chain read aside.                                       *)
(***************************************************************************)
ReplayWindow ==
    \A m \in Messages : \A s, t \in shown[m] : t - s <= 2 * PASS_MAX_AGE

\* No request waits for ever, whatever others run into while they own the lock.
PaymentsAnswered == \A w \in Workers : pc[w] # "idle" ~> pc[w] = "idle"

(***************************************************************************)
(* What makes PurchaseOnce inductive: only the owner of the lock is in the *)
(* transaction, its id is not in the table yet, and an id in the table is  *)
(* either spent or in the hands of one request.                            *)
(***************************************************************************)
TransactionInv ==
    /\ \A w \in Workers : pc[w] \in {"insert", "commit"} => lock = w
    /\ \A w \in Workers :
        /\ pc[w] \in {"find_payment", "wait", "insert", "commit", "consumed"} => IsScan(req[w])
        /\ pc[w] \in {"freshness", "active_pass"} => req[w] \in PassProofs
        /\ pc[w] \in {"wait", "insert", "commit", "consumed"} => Matches(req[w])
        /\ pc[w] = "commit" => row = {Key(req[w])} /\ Key(req[w]) \notin used

SpentInv ==
    \A p \in Purchases :
        /\ accepted[p] <= redeploys + 1
        /\ <<PaymentId[p], "usual">> \notin used => accepted[p] <= redeploys
        /\ \A w \in Workers :
              pc[w] = "consumed" /\ PaymentId[req[w].purchase] = PaymentId[p] =>
                /\ <<PaymentId[p], "usual">> \in used
                /\ accepted[p] <= redeploys
                /\ \A v \in Workers : pc[v] = "consumed"
                        /\ PaymentId[req[v].purchase] = PaymentId[p] => v = w
=============================================================================
