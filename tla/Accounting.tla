----------------------------- MODULE Accounting -----------------------------
(* Accounting between two peers (pkg/accounting): credits and debits of the     *)
(* requests they serve each other (pkg/retrieval), time-based settlement        *)
(* (pkg/settlement/pseudosettle) and cheques (pkg/settlement/swap). Each peer   *)
(* is the other one's creditor for the chunks it delivers.                      *)
EXTENDS Integers, FiniteSets, FiniteSetsExt, Functions

CONSTANTS
    Peer,               \* the two peers
    Request,            \* bound: the requests
    From,               \* the peer that makes a request
    Price, Originated,  \* its price; whether the peer asks for itself
    refreshRate, paymentThreshold, earlyPayment, disconnectLimit, minimumPayment,
    failedSettlementInterval,   \* how long a payment that failed is not tried again
    maxDrift,           \* how late, in seconds, a refreshment may be answered (2)
    Start, MaxTime,     \* bound: the times, in seconds, from the connection on
    MaxFaults           \* bound: requests, payments and refreshments that fail

ASSUME PeerAssumption == IsFiniteSet(Peer) /\ Cardinality(Peer) = 2
ASSUME RequestAssumption ==
    /\ IsFiniteSet(Request) /\ From \in [Request -> Peer]
    /\ Price \in [Request -> Nat \ {0}] /\ Originated \subseteq Request
(* The clock is past the zeros that stand for no refreshment and no failed      *)
(* payment yet.                                                                 *)
ASSUME RateAssumption ==
    /\ {refreshRate, paymentThreshold, earlyPayment, minimumPayment} \subseteq Nat \ {0}
    /\ disconnectLimit \in Nat /\ disconnectLimit >= paymentThreshold
    /\ {failedSettlementInterval, maxDrift} \subseteq Nat
    /\ Start \in Nat \ {0} /\ Start > failedSettlementInterval /\ MaxTime \in Nat /\ MaxFaults \in Nat

VARIABLES
    acc,        \* what each peer keeps of the other: accountingPeer and balances
    client,     \* per request, the credit action of the peer that makes it
    server,     \* per request, the debit action of the peer that answers it
    now, faults

vars == <<acc, client, server, now, faults>>

Other(n) == CHOOSE m \in Peer : m # n
To(r) == Other(From[r])
Fault == faults < MaxFaults /\ faults' = faults + 1

(* refresh is a refreshment this peer has begun: sent with an amount, acked with*)
(* the amount accepted at a time, or refused. incoming is one it has acked and  *)
(* not yet entered. cheque is a payment it has begun, and received says whether *)
(* the other peer has entered it.                                               *)
NewPeer ==
    [ balance |-> 0, surplus |-> 0, originated |-> 0,
      reserved |-> 0, shadow |-> 0, refreshReserved |-> 0, ghost |-> 0,
      refreshTime |-> 0, refreshReceived |-> 0, sentTime |-> 0, payFailed |-> 0,
      refresh |-> [pc |-> "none", amount |-> 0, accepted |-> 0, time |-> 0],
      incoming |-> [pending |-> FALSE, amount |-> 0, time |-> 0],
      cheque |-> [pc |-> "none", amount |-> 0], blocks |-> FALSE ]

Init ==
    /\ acc = [n \in Peer |-> NewPeer]
    /\ client = [r \in Request |-> "new"] /\ server = [r \in Request |-> "new"]
    /\ now = Start /\ faults = 0

(* A peer that was blocklisted is disconnected: nothing goes on between them.   *)
Connected == \A n \in Peer : ~acc[n].blocks

Pos(x) == Max({x, 0})
Neg(x) == Min({x, 0})

-----------------------------------------------------------------------------
(* settle: what is owed, less what the other peer may have been credited        *)
(* already, is sent as a refreshment; what is owed for own requests, less what  *)
(* time pays for, as a cheque.                                                  *)
ShadowBalance(a) ==
    IF a.balance >= 0 \/ a.surplus - a.balance < a.shadow THEN 0 ELSE 0 - a.balance - a.shadow

StartRefresh(a) ==
    IF now - a.refreshTime >= 1 /\ a.refresh.pc = "none"
    THEN [a EXCEPT !.refresh = [pc |-> "sent", amount |-> ShadowBalance(a), accepted |-> 0, time |-> 0]]
    ELSE a

(* What may be debited while a refreshment is under way is counted for it.      *)
Potential(a, price) ==
    IF a.refresh.pc = "none" THEN a.refreshReserved ELSE a.refreshReserved + price

StartPay(a) ==
    LET due == 0 - a.balance - (now - a.refreshTime) * refreshRate - a.shadow
        amount == Min({0 - a.originated, due}) IN
    IF a.cheque.pc = "none" /\ now - a.payFailed > failedSettlementInterval
       /\ amount >= minimumPayment
    THEN [a EXCEPT !.cheque = [pc |-> "sent", amount |-> amount], !.shadow = a.shadow + amount,
                   !.refreshReserved = Potential(a, amount)]
    ELSE a

Settle(a) == IF ShadowBalance(a) < refreshRate THEN a ELSE StartPay(StartRefresh(a))

ExpectedDebt(a, price) == Pos(0 - a.balance) + a.reserved + price + a.surplus

(* Mutant: the refreshment due is not capped to one second.                     *)
OverdraftLimitUncapped(a) == paymentThreshold + (now - a.refreshTime) * refreshRate

OverdraftLimit(a) == paymentThreshold + Min({now - a.refreshTime, 1}) * refreshRate

(* PrepareCredit; a request that would overdraw is not made, but what was begun *)
(* to settle the debt stays begun.                                              *)
PrepareCredit(r) ==
    LET n == From[r]
        a == acc[n]
        expected == ExpectedDebt(a, Price[r])
        s == IF expected - a.shadow >= earlyPayment /\ a.balance < 0 THEN Settle(a) ELSE a
        allowed == expected <= OverdraftLimit(s) IN
    /\ Connected /\ client[r] = "new" /\ (allowed \/ s # a)
    /\ acc' = [acc EXCEPT ![n] = IF allowed THEN [s EXCEPT !.reserved = a.reserved + Price[r]] ELSE s]
    /\ client' = IF allowed THEN [client EXCEPT ![r] = "prepared"] ELSE client
    /\ UNCHANGED <<server, now, faults>>

Release(a, price) == [a EXCEPT !.reserved = Pos(a.reserved - price)]

(* Apply of a credit, when the chunk has arrived. The debt that decides whether *)
(* to settle has the price twice.                                               *)
ApplyCredit(r) ==
    LET n == From[r]
        a == acc[n]
        balance == a.balance - Price[r]
        credited == [Release(a, Price[r]) EXCEPT
            !.balance = balance,
            !.originated = IF r \in Originated
                           THEN Max({a.originated - Price[r], Neg(balance)}) ELSE a.originated] IN
    /\ Connected /\ client[r] = "prepared" /\ server[r] \in {"delivered", "applied"}
    /\ acc' = [acc EXCEPT ![n] =
                  IF ExpectedDebt(a, Price[r]) - a.shadow > earlyPayment
                  THEN Settle(credited) ELSE credited]
    /\ client' = [client EXCEPT ![r] = "applied"]
    /\ UNCHANGED <<server, now, faults>>

(* The stream broke, or the time was up: Cleanup of the credit.                 *)
CleanupCredit(r) ==
    /\ Connected /\ client[r] = "prepared" /\ Fault
    /\ acc' = [acc EXCEPT ![From[r]] = Release(acc[From[r]], Price[r])]
    /\ client' = [client EXCEPT ![r] = "failed"]
    /\ UNCHANGED <<server, now>>

-----------------------------------------------------------------------------
(* PrepareDebit, when the request arrives; the delivery is written, and then    *)
(* the debit is applied.                                                        *)
PrepareDebit(r) ==
    LET b == acc[To(r)] IN
    /\ Connected /\ client[r] # "new" /\ server[r] = "new"
    /\ acc' = [acc EXCEPT ![To(r)] = [b EXCEPT !.shadow = b.shadow + Price[r],
                                              !.refreshReserved = Potential(b, Price[r])]]
    /\ server' = [server EXCEPT ![r] = "prepared"]
    /\ UNCHANGED <<client, now, faults>>

Deliver(r) ==
    /\ Connected /\ server[r] = "prepared"
    /\ server' = [server EXCEPT ![r] = "delivered"]
    /\ UNCHANGED <<acc, client, now, faults>>

(* Mutant: nothing but a cheque pays for own requests.                          *)
LimitOriginatedNone(a) == a

(* decreaseOriginatedBalanceTo.                                                 *)
LimitOriginated(a) == [a EXCEPT !.originated = Max({a.originated, Neg(a.balance)})]

(* Mutant of IncreaseBalance: the surplus is spent and the price debited too.   *)
IncreaseBalanceTwice(a, price) ==
    LimitOriginated([a EXCEPT !.surplus = Pos(a.surplus - price), !.balance = a.balance + price])

(* increaseBalance: first from what the other peer has paid ahead.              *)
IncreaseBalance(a, price) ==
    IF a.surplus >= price
    THEN [a EXCEPT !.surplus = a.surplus - price]
    ELSE LimitOriginated([a EXCEPT !.surplus = 0, !.balance = a.balance + price - a.surplus])

(* Apply of a debit; a peer too much in debt is blocklisted.                    *)
ApplyDebit(r) ==
    LET b == IncreaseBalance(acc[To(r)], Price[r])
        limit == disconnectLimit + Min({now - b.refreshReceived, 1}) * refreshRate IN
    /\ Connected /\ server[r] = "delivered"
    /\ acc' = [acc EXCEPT ![To(r)] =
                  [b EXCEPT !.shadow = b.shadow - Price[r], !.blocks = b.balance >= limit]]
    /\ server' = [server EXCEPT ![r] = "applied"]
    /\ UNCHANGED <<client, now, faults>>

(* The delivery could not be made: Cleanup of the debit.                        *)
CleanupDebit(r) ==
    LET b == acc[To(r)] IN
    /\ Connected /\ server[r] = "prepared" /\ Fault
    /\ acc' = [acc EXCEPT ![To(r)] =
                  [b EXCEPT !.shadow = b.shadow - Price[r], !.ghost = b.ghost + Price[r],
                            !.blocks = b.ghost + Price[r] > disconnectLimit]]
    /\ server' = [server EXCEPT ![r] = "failed"]
    /\ UNCHANGED <<client, now>>

-----------------------------------------------------------------------------
(* Mutant: what may be owed is not counted.                                     *)
AcceptedOwed(b, amount) ==
    Min({amount, (now - b.refreshReceived) * refreshRate, Pos(b.balance)})

(* pseudosettle's handler at the peer that is paid: it accepts at most what the *)
(* time since the last refreshment allows, and what it is or may be owed.       *)
Accepted(b, amount) ==
    Min({amount, (now - b.refreshReceived) * refreshRate, Pos(b.balance + b.shadow)})

RefreshAccept(n) ==
    LET m == Other(n)
        attempt == acc[n].refresh.amount
        amount == Accepted(acc[m], attempt)
        answer(pc, accepted, time) == [acc[n] EXCEPT !.refresh =
            [pc |-> pc, amount |-> attempt, accepted |-> accepted, time |-> time]] IN
    /\ Connected /\ acc[n].refresh.pc = "sent" /\ ~acc[m].incoming.pending
    /\ acc' = IF now = acc[m].refreshReceived
              THEN [acc EXCEPT ![n] = answer("refused", 0, 0)]
              ELSE [acc EXCEPT ![n] = answer("acked", amount, now),
                               ![m] = [acc[m] EXCEPT !.incoming =
                                   [pending |-> TRUE, amount |-> amount, time |-> now]]]
    /\ UNCHANGED <<client, server, now, faults>>

(* NotifyRefreshmentReceived: it may put the receiver into debt.                *)
RefreshReceived(m) ==
    LET b == acc[m] IN
    /\ Connected /\ b.incoming.pending
    /\ acc' = [acc EXCEPT ![m] = [b EXCEPT !.balance = b.balance - b.incoming.amount,
                                           !.incoming = NewPeer.incoming,
                                           !.refreshReceived = b.incoming.time]]
    /\ UNCHANGED <<client, server, now, faults>>

(* Mutant: what was reserved during the refreshment is not taken off.           *)
ExpectedAttempted(a) ==
    Min({(a.refresh.time - a.sentTime) * refreshRate, a.refresh.amount})

(* NotifyRefreshmentSent after an answer: an allowance below what time and debt *)
(* let it expect makes it blocklist the other peer.                             *)
Expected(a) ==
    Min({(a.refresh.time - a.sentTime) * refreshRate,
         a.refresh.amount - a.refreshReserved, a.refresh.amount})

(* pseudosettle's Pay does not take an answer that is too old when it is read.  *)
Late(a) == a.refresh.pc = "acked" /\ now - a.refresh.time > maxDrift

RefreshSent(n) ==
    LET a == acc[n]
        ended == [a EXCEPT !.refresh = NewPeer.refresh, !.refreshTime = now] IN
    /\ Connected /\ a.refresh.pc \in {"acked", "refused"} /\ ~Late(a)
    /\ acc' = [acc EXCEPT ![n] =
          IF a.refresh.pc = "refused"
          THEN [ended EXCEPT !.refreshTime = 0, !.blocks = TRUE]
          ELSE IF Expected(a) > a.refresh.accepted
          THEN [ended EXCEPT !.refreshReserved = 0, !.sentTime = a.refresh.time, !.blocks = TRUE]
          ELSE LimitOriginated([ended EXCEPT !.refreshReserved = 0, !.sentTime = a.refresh.time,
                                             !.balance = a.balance + a.refresh.accepted])]
    /\ UNCHANGED <<client, server, now, faults>>

(* The refreshment ends with an error: the stream is not opened, breaks before  *)
(* or after the other peer has accepted, times out, or brings a late answer, or *)
(* a store fails. The time of the last refreshment is lost, and the other peer  *)
(* is blocklisted, whatever it owes, unless it was not found when the stream    *)
(* was opened.                                                                  *)
RefreshFails(n) ==
    LET a == acc[n] IN
    /\ Connected /\ a.refresh.pc # "none" /\ Fault
    /\ \E found \in IF a.refresh.pc = "sent" THEN BOOLEAN ELSE {TRUE} :
          acc' = [acc EXCEPT ![n] = [a EXCEPT !.refresh = NewPeer.refresh, !.refreshTime = 0,
                                              !.blocks = found]]
    /\ UNCHANGED <<client, server, now>>

-----------------------------------------------------------------------------
(* NotifyPaymentReceived: a payment does not put the receiver into debt, what   *)
(* is more than the balance is surplus.                                         *)
PaymentReceived(m) ==
    LET a == acc[Other(m)]
        b == acc[m]
        amount == a.cheque.amount IN
    /\ Connected /\ a.cheque.pc = "sent"
    /\ acc' = [acc EXCEPT ![Other(m)] = [a EXCEPT !.cheque = [pc |-> "received", amount |-> amount]],
                          ![m] = [b EXCEPT !.balance = Min({b.balance, Pos(b.balance - amount)}),
                                           !.surplus = b.surplus + Pos(amount - Pos(b.balance))]]
    /\ UNCHANGED <<client, server, now, faults>>

(* NotifyPaymentSent; FullClose waits until the receiver has closed.            *)
PaymentSent(n) ==
    LET a == acc[n]
        amount == a.cheque.amount IN
    /\ Connected /\ a.cheque.pc = "received"
    /\ acc' = [acc EXCEPT ![n] = [a EXCEPT !.shadow = a.shadow - amount,
                                           !.balance = a.balance + amount,
                                           !.originated = a.originated + amount,
                                           !.cheque = NewPeer.cheque]]
    /\ UNCHANGED <<client, server, now, faults>>

PaymentFails(n) ==
    LET a == acc[n] IN
    /\ Connected /\ a.cheque.pc = "sent" /\ Fault
    /\ acc' = [acc EXCEPT ![n] = [a EXCEPT !.shadow = a.shadow - a.cheque.amount, !.payFailed = now,
                                           !.cheque = NewPeer.cheque]]
    /\ UNCHANGED <<client, server, now>>

Tick == now < Start + MaxTime /\ now' = now + 1 /\ UNCHANGED <<acc, client, server, faults>>

Next ==
    \/ \E r \in Request :
          \/ PrepareCredit(r) \/ ApplyCredit(r) \/ CleanupCredit(r)
          \/ PrepareDebit(r) \/ Deliver(r) \/ ApplyDebit(r) \/ CleanupDebit(r)
    \/ \E n \in Peer :
          \/ RefreshAccept(n) \/ RefreshReceived(n) \/ RefreshSent(n) \/ RefreshFails(n)
          \/ PaymentReceived(n) \/ PaymentSent(n) \/ PaymentFails(n)
    \/ Tick

Spec == Init /\ [][Next]_vars

-----------------------------------------------------------------------------
PeerState ==
    [ balance : Int, surplus : Nat, originated : Int,
      reserved : Nat, shadow : Nat, refreshReserved : Nat, ghost : Nat,
      refreshTime : Nat, refreshReceived : Nat, sentTime : Nat, payFailed : Nat,
      refresh : [pc : {"none", "sent", "acked", "refused"}, amount : Nat, accepted : Nat, time : Nat],
      incoming : [pending : BOOLEAN, amount : Nat, time : Nat],
      cheque : [pc : {"none", "sent", "received"}, amount : Nat], blocks : BOOLEAN ]

(* Balances are integers; what is reserved, in surplus or counted as a ghost is *)
(* never negative.                                                              *)
TypeOK ==
    /\ acc \in [Peer -> PeerState]
    /\ client \in [Request -> {"new", "prepared", "applied", "failed"}]
    /\ server \in [Request -> {"new", "prepared", "delivered", "applied", "failed"}]
    /\ now \in Start .. Start + MaxTime /\ faults \in 0 .. MaxFaults

(* What a set of requests costs.                                                *)
Worth(S) == SumFunctionOnSet(Price, S)

(* What a peer has reserved is the price of its requests under way.             *)
ReservedIsUnderWay(n) ==
    acc[n].reserved = Worth({r \in Request : From[r] = n /\ client[r] = "prepared"})

(* A peer's book of the other one, as if what only one of them has entered were *)
(* entered in both: refreshments and cheques.                                   *)
Book(n) ==
    LET a == acc[n]
        b == acc[Other(n)] IN
    a.balance - a.surplus
    + (IF a.refresh.pc = "acked" /\ ~b.incoming.pending THEN a.refresh.accepted ELSE 0)
    - (IF a.incoming.pending /\ b.refresh.pc # "acked" THEN a.incoming.amount ELSE 0)
    + (IF a.cheque.pc = "received" THEN a.cheque.amount ELSE 0)

(* What is reserved is what is under way, and the books of the two peers cancel *)
(* out but for the requests that one of them has debited and the other has not  *)
(* credited, or the other way round.                                            *)
BooksBalance ==
    /\ \A n \in Peer : ReservedIsUnderWay(n)
    /\ Connected => \A n \in Peer :
          Book(n) + Book(Other(n)) = Worth({r \in Request : server[r] = "applied"})
                                   - Worth({r \in Request : client[r] = "applied"})

(* What a peer has yet to take off another one's debt: its own requests that    *)
(* the other has debited, and a refreshment that it has acknowledged.           *)
InTransit(n) ==
      Worth({r \in Request : From[r] = n /\ client[r] = "prepared" /\ server[r] = "applied"})
    + (IF acc[n].incoming.pending THEN acc[n].incoming.amount ELSE 0)

NeverRefreshed(n) == acc[n].refreshTime = 0 /\ acc[n].refresh.pc = "none"

(* While no request, refreshment or payment fails, what a peer owes in the other*)
(* one's books, but for what is in transit, stays within what it allows itself: *)
(* the payment threshold and one second's refreshment. A refreshment that the   *)
(* other peer has sent itself may put it further into debt.                     *)
DebtIsBounded ==
    faults = 0 => \A n \in Peer : NeverRefreshed(n) =>
        acc[n].balance - InTransit(n) <= paymentThreshold + refreshRate

(* Who blocklists is owed the limit, or has failed to deliver for more than it. *)
Owed(a) == a.balance >= disconnectLimit \/ a.ghost > disconnectLimit

(* An answer that is below what the peer expects.                               *)
Short(a) == a.refresh.pc = "acked" /\ Expected(a) > a.refresh.accepted

(* The other peer's own refreshment is entered here, and not there.             *)
Crossed(n) == acc[Other(n)].refresh.pc = "acked" /\ ~acc[n].incoming.pending

(* The refreshment that n has begun ends with an error.                         *)
Broken(n) ==
    acc[n].refresh.pc # "none" /\ acc'[n].refresh.pc = "none" /\ faults' # faults

(* Who is blocklisted owes the limit, has asked for more than it that could not *)
(* be delivered, or has answered a refreshment with less than was expected; but *)
(* for a refreshment that ends with an error, for which the code blocklists a   *)
(* peer that may have done nothing wrong. Nobody is blocklisted for one that is *)
(* refused; and whatever is debited, credited and paid while it is under way,   *)
(* none is answered with less than what is expected, but for one that crosses   *)
(* the other peer's.                                                            *)
BlocksOnlyDebtors ==
    [][\A n \in Peer :
          /\ acc'[n].blocks /\ ~acc[n].blocks =>
                Owed(acc'[n]) \/ Short(acc[n]) \/ Broken(n)
          /\ Short(acc'[n]) => Short(acc[n]) \/ Crossed(n)]_vars

(* A cheque pays for a peer's own requests only while they are owed: what is    *)
(* counted as debt of its own never exceeds its debt, whichever refreshments,   *)
(* cheques and debits have paid it off in the meantime.                         *)
OwnDebtIsOwed ==
    \A n \in Peer : 0 - acc[n].originated <= Pos(0 - acc[n].balance)
=============================================================================
