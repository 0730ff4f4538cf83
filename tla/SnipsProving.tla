----------------------------- MODULE SnipsProving -----------------------------
(* The worker of SnipsWorker with the loop of CreateMPHF that it runs for every  *)
(* nonce: CreateAndSendProofForMyChunks calls CreateMPHF between HandOff and     *)
(* ProofSent, in the worker's own goroutine.                                     *)
EXTENDS SnipsWorker

CONSTANTS Length, MinGamma, MaxGamma, GammaBound

ASSUME GammaAssumption ==
    /\ Length \in Nat /\ MinGamma \in Nat /\ MaxGamma \in Nat /\ GammaBound \in Nat

VARIABLES pc, i, bb, err, k, mapping, earlier

mphfVars == <<pc, i, bb, err, k, mapping, earlier>>

MPHF == INSTANCE CreateMPHF

ProvingInit == Init /\ MPHF!Init

Calls == ~Panicked /\ HandOff /\ MPHF!Call
Runs == ~Panicked /\ worker = "prove" /\ MPHF!Step /\ UNCHANGED vars
Returns == ~Panicked /\ pc = "return" /\ ProofSent /\ UNCHANGED mphfVars

Goroutines ==
    \/ NewBlock
    \/ ~Panicked /\ (Timer \/ PollAgain \/ PollProvingBlock \/ Close \/ Quit \/ Done)

ProvingNext ==
    \/ Goroutines /\ UNCHANGED mphfVars
    \/ Calls
    \/ Runs
    \/ Returns

provingVars == <<vars, mphfVars>>

(* Goroutines that can run do; a select that is ready for a case again and       *)
(* again takes it at last (Go chooses at random), and the done case is taken     *)
(* before the timer, which has only been set.                                    *)
Fairness ==
    /\ WF_provingVars(~Panicked /\ Timer /\ UNCHANGED mphfVars)
    /\ WF_provingVars(~Panicked /\ (PollAgain \/ PollProvingBlock) /\ UNCHANGED mphfVars)
    /\ WF_provingVars(Calls) /\ WF_provingVars(Runs) /\ WF_provingVars(Returns)
    /\ SF_provingVars(~Panicked /\ Quit /\ UNCHANGED mphfVars)
    /\ SF_provingVars(~Panicked /\ Done /\ UNCHANGED mphfVars)

FairSpec == ProvingInit /\ [][ProvingNext]_provingVars /\ Fairness

-------------------------------------------------------------------------------
(* The two parts have their types; while the worker waits no call is under way.  *)
ProvingTypeOK == TypeOK /\ MPHF!TypeOK /\ (worker # "prove" => pc = "return")

(* A function the worker sends comes with its own mapping, complete: each value  *)
(* of the proof leads back to its chunk, after any number of failed and          *)
(* colliding attempts and whatever the nonce's mapping was before. When          *)
(* CreateMPHF fails, the nonce's mapping is that of the earlier proof or a       *)
(* remainder of a function that was never sent, with chunks missing: never a     *)
(* complete mapping that would answer a Maintain with other chunks.              *)
MappingFits == MPHF!MappingOfReturnedProof /\ MPHF!FailureLeavesNoOtherMapping

(* The worker comes back to its select from every nonce, through failed and      *)
(* colliding constructions, with one exception: function after function may      *)
(* collide and raise gamma for ever.                                             *)
Terminates == worker = "prove" ~> worker = "select" \/ i > GammaBound \/ Panicked

(* Close, which waits for the worker's select, returns: neither a proof nor a    *)
(* stream of new blocks keeps the quit case from being taken, but for a gamma    *)
(* that rises for ever.                                                          *)
CloseReturns == quit = "sending" ~> quit = "returned" \/ i > GammaBound \/ Panicked

(* After Close both goroutines end, unless the watcher is already sending a      *)
(* block: then nobody receives it and both wait for each other for ever.         *)
OnlyAHandOffBlocksTheEnd ==
    quit = "returned" ~> \/ worker = "ended" /\ watcher = "ended"
                         \/ worker = "done" /\ watcher = "send"
                         \/ Panicked
===============================================================================
