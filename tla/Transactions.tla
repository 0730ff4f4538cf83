----------------------------- MODULE Transactions ------------------------------
(* pkg/transaction: the service that sends, resends and cancels transactions    *)
(* and keeps the pending ones across restarts, and the monitor that tells the   *)
(* watches of a transaction whether it was mined or lost its nonce to another.  *)
(*                                                                              *)
(* A transaction is what one call of Send or CancelTransaction signs. The chain *)
(* backend is external: blocks come, are reorganised less deep than             *)
(* cancellationDepth, use a nonce each or none, and other programs may use the  *)
(* key as well. The loop of receipts runs without the lock over maps that       *)
(* WatchTransaction writes to.                                                  *)
EXTENDS Naturals, Sequences, FiniteSets

CONSTANTS
    Tx,                \* the transactions that may be made
    Clients,           \* bound: those of them that others wait for, too
    cancellationDepth, \* confirmations that make a competitor final
    MaxFaults          \* bound: errors, crashes, reorganisations, foreign and lost transactions

ASSUME TxAssumption == IsFiniteSet(Tx) /\ Clients \subseteq Tx
ASSUME DepthAssumption == cancellationDepth \in Nat \ {0} /\ MaxFaults \in Nat

VARIABLES
    doing,     \* doing[t]: the next step of the call that makes t
    cancels,   \* cancels[t]: t was made by CancelTransaction
    nonceOf,   \* nonceOf[t]: the nonce t was signed with
    store,     \* the state store: the next nonce (0: none), known and pending transactions
    chain,     \* chain[n + 1]: what used nonce n, a transaction or Foreign
    usedAt,    \* usedAt[d]: how many nonces were used d blocks ago
    pool,      \* transactions the backend has, not mined
    foreign,   \* nonces that other programs have sent transactions for
    sent,      \* history: transactions the backend ever accepted
    up,        \* is the process running
    watch,     \* watch[w]: where the watch is
    added,     \* a value is in the channel watchAdded
    newBlock,  \* the head is higher than lastBlock
    check,     \* the round of checkPending
    faults     \* faults so far

service == <<doing, cancels, nonceOf, sent>>
backend == <<chain, usedAt, pool, foreign>>
monitor == <<watch, added, newBlock, check>>
vars == <<service, store, backend, up, monitor, faults>>

Foreign == "foreign"

ASSUME ForeignAssumption == Foreign \notin Tx

(* The service watches what it sends by itself; others call WaitForReceipt.     *)
Watch == (Tx \X {"service"}) \cup (Clients \X {"client"})

Depths == 0 .. cancellationDepth

(* Of a round: age is how far the block it looks at lies back, cut off where no  *)
(* reorganisation reaches; reorged, a history, that blocks were replaced since   *)
(* the first look-up of a receipt.                                               *)
NoCheck == [ at |-> "idle", used |-> 0, old |-> 0, groups |-> {}, left |-> {},
             seen |-> {}, confirmed |-> {}, age |-> 0, reorged |-> FALSE ]

Init ==
    /\ doing = [t \in Tx |-> "new"]
    /\ cancels = [t \in Tx |-> FALSE]
    /\ nonceOf = [t \in Tx |-> 0]
    /\ store = [nonce |-> 0, txs |-> {}, pending |-> {}]
    /\ chain = <<>>
    /\ usedAt = [d \in Depths |-> 0]
    /\ pool = {} /\ foreign = {} /\ sent = {}
    /\ up = TRUE
    /\ watch = [w \in Watch |-> "none"]
    /\ added = FALSE /\ newBlock = TRUE
    /\ check = NoCheck
    /\ faults = 0

Fault == faults < MaxFaults /\ faults' = faults + 1

------------------------------------------------------------------------------
(* The service.                                                                 *)

(* t.lock: held by Send from the first to the last step.                        *)
Locked ==
    \E t \in Tx : ~cancels[t] /\ doing[t] \notin {"new", "done", "failed"}

(* Has the backend a transaction for the nonce, mined or not.                   *)
Taken(n) == n < Len(chain) \/ n \in foreign \/ \E t \in pool : nonceOf[t] = n

(* PendingNonceAt: the first nonce that is free for the backend.                *)
PendingNonceAt ==
    CHOOSE n \in 0 .. Len(chain) + Cardinality(pool) + Cardinality(foreign) :
        ~Taken(n) /\ \A k \in 0 .. n - 1 : Taken(k)

(* A mutant of nextNonce: the stored nonce is not looked at.                    *)
nextNonceOnchain == PendingNonceAt

nextNonce == IF PendingNonceAt > store.nonce THEN PendingNonceAt ELSE store.nonce

(* Send takes the lock and reads the nonce, the transaction is signed.          *)
Send(t) ==
    /\ up /\ doing[t] = "new" /\ ~Locked
    /\ doing' = [doing EXCEPT ![t] = "send"]
    /\ nonceOf' = [nonceOf EXCEPT ![t] = nextNonce]
    /\ UNCHANGED <<cancels, sent, store, backend, up, monitor, faults>>

(* A transaction others may name: recorded, and its hash was returned.          *)
Known(t) == t \in store.txs /\ doing[t] # "putPending"

(* CancelTransaction, without the lock: the nonce of a known transaction.       *)
CancelTransaction(t, original) ==
    /\ up /\ doing[t] = "new" /\ Known(original)
    /\ doing' = [doing EXCEPT ![t] = "send"]
    /\ cancels' = [cancels EXCEPT ![t] = TRUE]
    /\ nonceOf' = [nonceOf EXCEPT ![t] = nonceOf[original]]
    /\ UNCHANGED <<sent, store, backend, up, monitor, faults>>

(* backend.SendTransaction: refused when the nonce is used. When the call       *)
(* fails, the backend may have the transaction all the same; signing and the    *)
(* preparation before may fail in the same way.                                 *)
SendTransaction(t) ==
    /\ doing[t] = "send"
    /\ \/ /\ nonceOf[t] < Len(chain)
          /\ doing' = [doing EXCEPT ![t] = "failed"]
          /\ UNCHANGED <<pool, sent, faults>>
       \/ /\ nonceOf[t] >= Len(chain)
          /\ doing' = [doing EXCEPT ![t] = IF cancels[t] THEN "putTx" ELSE "putNonce"]
          /\ pool' = pool \cup {t} /\ sent' = sent \cup {t}
          /\ UNCHANGED faults
       \/ /\ Fault
          /\ doing' = [doing EXCEPT ![t] = "failed"]
          /\ \E taken \in {{}, {t}} :
               /\ taken # {} => nonceOf[t] >= Len(chain)
               /\ pool' = pool \cup taken /\ sent' = sent \cup taken
    /\ UNCHANGED <<cancels, nonceOf, store, chain, usedAt, foreign, up, monitor>>

putNonce(t) ==
    /\ doing[t] = "putNonce"
    /\ doing' = [doing EXCEPT ![t] = "putTx"]
    /\ store' = [store EXCEPT !.nonce = nonceOf[t] + 1]
    /\ UNCHANGED <<cancels, nonceOf, sent, backend, up, monitor, faults>>

(* The record by which the transaction is known.                                *)
putTransaction(t) ==
    /\ doing[t] = "putTx"
    /\ doing' = [doing EXCEPT ![t] = "putPending"]
    /\ store' = [store EXCEPT !.txs = @ \cup {t}]
    /\ UNCHANGED <<cancels, nonceOf, sent, backend, up, monitor, faults>>

(* The pending entry; waitForPendingTx starts the goroutine that watches.       *)
putPending(t) ==
    /\ doing[t] = "putPending"
    /\ doing' = [doing EXCEPT ![t] = "done"]
    /\ store' = [store EXCEPT !.pending = @ \cup {t}]
    /\ watch' = [watch EXCEPT ![<<t, "service">>] = "asked"]
    /\ UNCHANGED <<cancels, nonceOf, sent, backend, up, added, newBlock, check, faults>>

(* The state store fails at one of the three: the call returns the error, the   *)
(* transaction is on its way all the same.                                      *)
putFails(t) ==
    /\ Fault
    /\ doing[t] \in {"putNonce", "putTx", "putPending"}
    /\ doing' = [doing EXCEPT ![t] = "failed"]
    /\ UNCHANGED <<cancels, nonceOf, sent, store, backend, up, monitor>>

(* ResendTransaction: an error of the backend but "already imported" is         *)
(* swallowed.                                                                   *)
ResendTransaction(t) ==
    /\ up /\ Known(t)
    /\ t \notin pool /\ nonceOf[t] >= Len(chain)
    /\ pool' = pool \cup {t}
    /\ UNCHANGED <<service, store, chain, usedAt, foreign, up, monitor, faults>>

(* WatchSentTransaction does not find the record: the goroutine of              *)
(* waitForPendingTx ends, the entry stays until a restart.                      *)
WatchFails(t) ==
    LET w == <<t, "service">> IN
    /\ Fault
    /\ up /\ ~Locked /\ watch[w] = "asked"
    /\ watch' = [watch EXCEPT ![w] = "kept"]
    /\ UNCHANGED <<service, store, backend, up, added, newBlock, check>>

(* The goroutine of waitForPendingTx got its answer: the entry is deleted, or   *)
(* that fails and the entry stays as well.                                      *)
Unregister(t) ==
    LET w == <<t, "service">> IN
    /\ watch[w] \in {"receipt", "cancelled"}
    /\ \/ /\ store' = [store EXCEPT !.pending = @ \ {t}]
          /\ watch' = [watch EXCEPT ![w] = "none"]
          /\ UNCHANGED faults
       \/ /\ Fault
          /\ watch' = [watch EXCEPT ![w] = "kept"]
          /\ UNCHANGED store
    /\ UNCHANGED <<service, backend, up, added, newBlock, check>>

------------------------------------------------------------------------------
(* The monitor.                                                                 *)

Watching(n) == {w \in Watch : watch[w] = "watching" /\ nonceOf[w[1]] = n}

WatchedNonces == {n \in {nonceOf[t] : t \in Tx} : Watching(n) # {}}

(* WatchSentTransaction and WatchTransaction. Of a nonce whose receipts are     *)
(* being looked up, the iteration over the map may meet the new entry or not    *)
(* (if the runtime sees it, the process dies: Crash).                           *)
WatchTransaction(w) ==
    LET t == w[1]
        iterated == \E x \in check.left : nonceOf[x] = nonceOf[t]
    IN
    /\ up /\ ~Locked /\ Known(t)
    /\ watch[w] = IF w[2] = "service" THEN "asked" ELSE "none"
    /\ watch' = [watch EXCEPT ![w] = "watching"]
    /\ added' = TRUE
    /\ \E met \in IF iterated /\ t \notin check.seen THEN {{}, {t}} ELSE {{}} :
         check' = [check EXCEPT !.left = @ \cup met]
    /\ UNCHANGED <<service, store, backend, up, newBlock, faults>>

(* An iteration of watchPending up to the block number: woken by a new watch,   *)
(* or by the timer when there is a new block. The nonces used at that height    *)
(* and cancellationDepth below it are asked for later, but no reorganisation    *)
(* reaches the lower block; for the other one, see Reorganise.                  *)
Poll ==
    /\ up /\ check.at = "idle"
    /\ \/ added /\ added' = FALSE
       \/ newBlock /\ WatchedNonces # {} /\ UNCHANGED added
    /\ check' = IF WatchedNonces = {} THEN check
                ELSE [NoCheck EXCEPT !.at = "polled", !.used = usedAt[0],
                                     !.old = usedAt[cancellationDepth]]
    /\ UNCHANGED <<service, store, backend, up, watch, newBlock, faults>>

(* potentiallyConfirmedTxWatches, of the nonce that NonceAt(block) returned.     *)
potentiallyConfirmedTxWatches ==
    LET groups == {n \in WatchedNonces : n < check.used} IN
    /\ check.at = "polled"
    /\ check' = [check EXCEPT !.at = "receipts", !.groups = groups,
                   !.left = {w[1] : w \in UNION {Watching(n) : n \in groups}}]
    /\ UNCHANGED <<service, store, backend, up, watch, added, newBlock, faults>>

Mined(t) == \E i \in 1 .. Len(chain) : chain[i] = t

(* The receipt of one transaction; the last of a nonce counts.                  *)
TransactionReceipt(t) ==
    /\ check.at = "receipts" /\ t \in check.left
    /\ check' = [check EXCEPT
         !.left = @ \ {t},
         !.seen = @ \cup {t},
         !.confirmed = IF Mined(t)
                       THEN {x \in @ : nonceOf[x] # nonceOf[t]} \cup {t} ELSE @]
    /\ UNCHANGED <<service, store, backend, up, watch, added, newBlock, faults>>

(* A call of the backend fails: no watch is told, lastBlock stays.              *)
CheckFails ==
    /\ Fault
    /\ check.at # "idle"
    /\ check' = NoCheck
    /\ UNCHANGED <<service, store, backend, up, watch, added, newBlock>>

(* A mutant of Answer: no nonce is ever given up.                               *)
AnswerConfirmedOnly(w) ==
    LET n == nonceOf[w[1]]
        receipts == {x \in check.confirmed : nonceOf[x] = n}
    IN
    IF w[1] \in receipts THEN "receipt"
    ELSE IF receipts # {} THEN "cancelled" ELSE watch[w]

(* A mutant of Answer: a nonce that was used is given up at once.               *)
AnswerAtOnce(w) ==
    LET n == nonceOf[w[1]]
        receipts == {x \in check.confirmed : nonceOf[x] = n}
    IN
    IF w[1] \in receipts THEN "receipt" ELSE "cancelled"

(* What a watch of one of the groups is told: the receipt, or that another      *)
(* transaction has a receipt, or has used the nonce cancellationDepth ago.      *)
Answer(w) ==
    LET n == nonceOf[w[1]]
        receipts == {x \in check.confirmed : nonceOf[x] = n}
    IN
    IF w[1] \in receipts THEN "receipt"
    ELSE IF receipts # {} \/ n < check.old THEN "cancelled"
    ELSE watch[w]

(* The end of checkPending, under the lock: also watches that came after the    *)
(* look-ups are told, their map is the same. Then lastBlock = block.            *)
Notify ==
    /\ check.at = "receipts" /\ check.left = {}
    /\ watch' = [w \in Watch |->
         IF watch[w] = "watching" /\ nonceOf[w[1]] \in check.groups
         THEN Answer(w) ELSE watch[w]]
    /\ newBlock' = (check.age > 0)
    /\ check' = NoCheck
    /\ UNCHANGED <<service, store, backend, up, added, faults>>

------------------------------------------------------------------------------
(* The backend and the process.                                                 *)

(* What the next block may hold after the chain c.                              *)
Blocks(c) ==
    {<<>>}
    \cup {<<t>> : t \in {x \in sent : nonceOf[x] = Len(c) /\ (x \in pool \/ Mined(x))}}
    \cup (IF Len(c) \in foreign THEN {<<Foreign>>} ELSE {})

NewBlock ==
    \E b \in Blocks(chain) :
        /\ chain' = chain \o b
        /\ usedAt' = [d \in Depths |-> IF d = 0 THEN Len(chain') ELSE usedAt[d - 1]]
        /\ pool' = {t \in pool : nonceOf[t] >= Len(chain')}
        /\ newBlock' = TRUE
        /\ check' = IF check.at = "idle" \/ check.age = cancellationDepth THEN check
                    ELSE [check EXCEPT !.age = @ + 1]
        /\ UNCHANGED <<service, store, foreign, up, watch, added, faults>>

(* d blocks are replaced by as many, the last of which may hold a transaction.  *)
(* NonceAt(block) may have been called before or sees the new block.            *)
Reorganise(d) ==
    LET kept == SubSeq(chain, 1, usedAt[d])
        asks == check.at = "polled" /\ check.age < d
    IN
    /\ Fault
    /\ \E b \in Blocks(kept) : chain' = kept \o b
    /\ usedAt' = [e \in Depths |-> IF e = 0 THEN Len(chain')
                                   ELSE IF e < d THEN Len(kept) ELSE usedAt[e]]
    /\ pool' = {t \in sent : nonceOf[t] >= Len(chain') /\ (t \in pool \/ Len(kept) <= nonceOf[t])}
    /\ \E used \in {check.used} \cup (IF asks THEN {usedAt'[check.age]} ELSE {}) :
         check' = [check EXCEPT !.used = used, !.reorged = @ \/ check.at = "receipts"]
    /\ UNCHANGED <<service, store, foreign, up, watch, added, newBlock>>

(* Another program that has the key sends a transaction.                        *)
ForeignTransaction ==
    /\ Fault
    /\ \E n \in Len(chain) .. PendingNonceAt : n \notin foreign /\ foreign' = foreign \cup {n}
    /\ UNCHANGED <<service, store, chain, usedAt, pool, up, monitor>>

(* The backend forgets a transaction that is not mined.                         *)
Vanish(t) ==
    /\ Fault
    /\ t \in pool /\ pool' = pool \ {t}
    /\ UNCHANGED <<service, store, chain, usedAt, foreign, up, monitor>>

(* The process stops, by Close or otherwise: the state store is left.           *)
Crash ==
    /\ Fault
    /\ up /\ up' = FALSE
    /\ doing' = [t \in Tx |-> IF doing[t] \in {"new", "done"} THEN doing[t] ELSE "failed"]
    /\ watch' = [w \in Watch |-> "none"]
    /\ added' = FALSE /\ check' = NoCheck
    /\ UNCHANGED <<cancels, nonceOf, sent, store, backend, newBlock>>

(* NewMonitor, NewService: every pending transaction is watched again.          *)
NewService ==
    /\ ~up /\ up' = TRUE
    /\ watch' = [w \in Watch |->
         IF w[2] = "service" /\ w[1] \in store.pending THEN "asked" ELSE "none"]
    /\ newBlock' = TRUE
    /\ UNCHANGED <<service, store, backend, added, check, faults>>

------------------------------------------------------------------------------
Call(t) ==
    \/ SendTransaction(t)
    \/ putNonce(t)
    \/ putTransaction(t)
    \/ putPending(t)

Monitor ==
    \/ Poll
    \/ potentiallyConfirmedTxWatches
    \/ \E t \in Tx : TransactionReceipt(t)
    \/ Notify

Next ==
    \/ \E t \in Tx :
         \/ Send(t)
         \/ \E original \in Tx : CancelTransaction(t, original)
         \/ Call(t)
         \/ putFails(t)
         \/ ResendTransaction(t)
         \/ WatchFails(t)
         \/ Unregister(t)
         \/ Vanish(t)
    \/ \E w \in Watch : WatchTransaction(w)
    \/ Monitor
    \/ CheckFails
    \/ NewBlock
    \/ \E d \in 1 .. cancellationDepth : Reorganise(d)
    \/ ForeignTransaction
    \/ Crash
    \/ NewService

(* Calls and the monitor's goroutine go on, watches that were asked for get the *)
(* lock, blocks come, and a process that has stopped is started again.          *)
Fairness ==
    /\ \A t \in Tx :
         /\ WF_vars(Call(t))
         /\ WF_vars(Unregister(t))
         /\ SF_vars(WatchTransaction(<<t, "service">>))
    /\ WF_vars(Monitor)
    /\ WF_vars(NewBlock)
    /\ WF_vars(NewService)

Spec == Init /\ [][Next]_vars

FairSpec == Spec /\ Fairness

------------------------------------------------------------------------------
(* Properties.                                                                  *)

TypeOK ==
    /\ doing \in [Tx -> {"new", "send", "putNonce", "putTx", "putPending", "done", "failed"}]
    /\ cancels \in [Tx -> BOOLEAN]
    /\ nonceOf \in [Tx -> Nat]
    /\ store \in [nonce : Nat, txs : SUBSET Tx, pending : SUBSET Tx]
    /\ chain \in Seq(Tx \cup {Foreign})
    /\ usedAt \in [Depths -> Nat]
    /\ pool \subseteq Tx /\ sent \subseteq Tx /\ foreign \subseteq Nat
    /\ watch \in [Watch -> {"none", "asked", "watching", "receipt", "cancelled", "kept"}]
    /\ up \in BOOLEAN /\ added \in BOOLEAN /\ newBlock \in BOOLEAN
    /\ check \in [ at : {"idle", "polled", "receipts"}, used : Nat, old : Nat,
                   groups : SUBSET Nat, left : SUBSET Tx, seen : SUBSET Tx,
                   confirmed : SUBSET Tx, age : Depths, reorged : BOOLEAN ]
    /\ faults \in 0 .. MaxFaults

(* Through crashes and errors between its steps, lost, foreign and reorganised  *)
(* transactions: Send never signs two transactions it remembers with the same   *)
(* nonce, and leaves no nonce out that nobody has sent a transaction for.       *)
NoncesInOrder ==
    /\ \A a, b \in store.txs : nonceOf[a] = nonceOf[b] /\ a # b => cancels[a] \/ cancels[b]
    /\ \A n \in 0 .. store.nonce - 1 : n \in foreign \/ \E t \in sent : nonceOf[t] = n

(* When checkPending calls a transaction cancelled, another one has its nonce   *)
(* on the chain: whatever was reorganised meanwhile if the nonce is used since  *)
(* cancellationDepth blocks, and otherwise unless blocks were replaced during   *)
(* the round (one confirmation of a watched competitor is enough, and a later   *)
(* reorganisation may undo it). Not so for a watch that joined after the        *)
(* look-ups: it is told cancelled even if its own transaction has the nonce.    *)
CancelledIsLost ==
    [][\A w \in Watch :
         watch[w] = "watching" /\ watch'[w] = "cancelled" =>
            LET t == w[1] n == nonceOf[t] IN
            \/ n < Len(chain) /\ chain[n + 1] # t
            \/ n >= check.old /\ check.reorged
            \/ n < check.old /\ t \notin check.seen]_vars

(* A pending transaction whose nonce is used for good does not stay pending,    *)
(* through restarts and failed checks, unless its entry could not be deleted or *)
(* its record not be read.                                                      *)
PendingEnds ==
    \A t \in Tx :
        t \in store.pending /\ nonceOf[t] < usedAt[cancellationDepth]
            ~> t \notin store.pending \/ watch[<<t, "service">>] = "kept"
==============================================================================
