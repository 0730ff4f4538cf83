----------------------------- MODULE SnipsWorker -----------------------------
(* The life of the two goroutines behind snips.Service.Start: WatchForNewBlock  *)
(* polls the chain and hands the root of every BlockInterval-th block to        *)
(* snipsWorker over an unbuffered channel; Close stops the worker over another, *)
(* and the worker stops the watcher over a third.                               *)
EXTENDS Naturals, Sequences

CONSTANTS
    BlockInterval,  \* Options.BlockInterval
    HeaderFails,    \* may HeaderByNumber return an error
    MaxBlock        \* bound: the height at which the chain stops growing

ASSUME IntervalAssumption == BlockInterval \in Nat \ {0} /\ MaxBlock \in Nat
ASSUME HeaderAssumption == HeaderFails \in BOOLEAN

VARIABLES
    block,      \* the height of the chain
    lastBlock,  \* WatchForNewBlock: the height at the last block it handed on
    watcher,    \* where the watcher is
    root,       \* the block whose root the watcher has in hand
    worker,     \* where snipsWorker is
    proved,     \* the blocks whose roots became nonces of proofs
    quit        \* Close: not called, sending on s.quit, returned

vars == <<block, lastBlock, watcher, root, worker, proved, quit>>

Init ==
    /\ block \in 0 .. BlockInterval
    /\ lastBlock = 0
    /\ watcher = "select"
    /\ root = 0
    /\ worker = "select"
    /\ proved = <<>>
    /\ quit = "open"

(* The backend's chain grows.                                                   *)
NewBlock ==
    /\ block < MaxBlock
    /\ block' = block + 1
    /\ UNCHANGED <<lastBlock, watcher, root, worker, proved, quit>>

(* time.After(BlockCheckInterval) fires in the watcher's select.                *)
Timer ==
    /\ watcher = "select"
    /\ watcher' = "poll"
    /\ UNCHANGED <<block, lastBlock, root, worker, proved, quit>>

(* BlockNumber fails, or the chain has not grown enough: back to the select.    *)
PollAgain ==
    /\ watcher = "poll"
    /\ watcher' = "select"
    /\ UNCHANGED <<block, lastBlock, root, worker, proved, quit>>

(* Mutants of PollProvingBlock: the last block is not noted; its number is used *)
(* instead of the new one.                                                      *)
PollProvingBlockAgain ==
    /\ watcher = "poll"
    /\ block >= lastBlock + BlockInterval
    /\ root' = block - (block % BlockInterval)
    /\ watcher' \in IF HeaderFails THEN {"send", "panicked"} ELSE {"send"}
    /\ UNCHANGED <<block, lastBlock, worker, proved, quit>>
PollLastBlock ==
    /\ watcher = "poll"
    /\ block >= lastBlock + BlockInterval
    /\ lastBlock' = block
    /\ root' = lastBlock - (block % BlockInterval)
    /\ watcher' \in IF HeaderFails THEN {"send", "panicked"} ELSE {"send"}
    /\ UNCHANGED <<block, worker, proved, quit>>

(* BlockNumber, then HeaderByNumber for the last multiple of the interval. When *)
(* that fails the error is logged and the nil header used: the process panics.  *)
PollProvingBlock ==
    /\ watcher = "poll"
    /\ block >= lastBlock + BlockInterval
    /\ lastBlock' = block
    /\ root' = block - (block % BlockInterval)
    /\ watcher' \in IF HeaderFails THEN {"send", "panicked"} ELSE {"send"}
    /\ UNCHANGED <<block, worker, proved, quit>>

(* blockNumber <- header.Root meets <-blockChan in the worker's select.         *)
HandOff ==
    /\ watcher = "send" /\ worker = "select"
    /\ watcher' = "select"
    /\ worker' = "prove"
    /\ proved' = Append(proved, root)
    /\ UNCHANGED <<block, lastBlock, root, quit>>

(* A mutant of ProofSent: an error ends the worker.                             *)
ProofSentOrFatal ==
    /\ worker = "prove"
    /\ worker' \in {"select", "ended"}
    /\ UNCHANGED <<block, lastBlock, watcher, root, proved, quit>>

(* CreateAndSendProofForMyChunks returns, with or without an error.             *)
ProofSent ==
    /\ worker = "prove"
    /\ worker' = "select"
    /\ UNCHANGED <<block, lastBlock, watcher, root, proved, quit>>

(* Close is called and sends on s.quit.                                         *)
Close ==
    /\ quit = "open"
    /\ quit' = "sending"
    /\ UNCHANGED <<block, lastBlock, watcher, root, worker, proved>>

(* A mutant of Quit: the worker ends without a word to the watcher.             *)
QuitSilently ==
    /\ quit = "sending" /\ worker = "select"
    /\ quit' = "returned"
    /\ worker' = "ended"
    /\ UNCHANGED <<block, lastBlock, watcher, root, proved>>

(* The worker's select receives from s.quit, Close closes it and returns; the   *)
(* deferred function of the worker now sends on doneChan.                       *)
Quit ==
    /\ quit = "sending" /\ worker = "select"
    /\ quit' = "returned"
    /\ worker' = "done"
    /\ UNCHANGED <<block, lastBlock, watcher, root, proved>>

(* doneChan <- meets <-done in the watcher's select: both goroutines end.       *)
Done ==
    /\ worker = "done" /\ watcher = "select"
    /\ worker' = "ended" /\ watcher' = "ended"
    /\ UNCHANGED <<block, lastBlock, root, proved, quit>>

Panicked == watcher = "panicked"

Next ==
    \/ NewBlock
    \/ ~Panicked /\ \/ Timer \/ PollAgain \/ PollProvingBlock \/ HandOff
                    \/ ProofSent \/ Close \/ Quit \/ Done

Spec == Init /\ [][Next]_vars

------------------------------------------------------------------------------
TypeOK ==
    /\ block \in Nat /\ lastBlock \in Nat /\ root \in Nat
    /\ watcher \in {"select", "poll", "send", "panicked", "ended"}
    /\ worker \in {"select", "prove", "done", "ended"}
    /\ proved \in Seq(Nat)
    /\ quit \in {"open", "sending", "returned"}

(* A nonce is used once: the blocks handed on are multiples of the interval and *)
(* increase, however polls, blocks and a slow worker interleave.                *)
NoncesIncrease ==
    /\ \A i \in 1 .. Len(proved) : proved[i] % BlockInterval = 0 /\ proved[i] > 0
    /\ \A i, j \in 1 .. Len(proved) : i < j => proved[i] < proved[j]
==============================================================================
