------------------------------ MODULE NodeData ------------------------------
(***************************************************************************)
(* The data of a running node: the committed chain, the mempool file and   *)
(* the file of side branches, and the handlers of net.cpp and              *)
(* rpc_commands.cpp that change them.                                      *)
(*                                                                         *)
(* Every handler loads what it needs from the files, changes it and saves  *)
(* it again.  A handler that changes several files holds data_mutex all    *)
(* the while; the variable job says how far it has got.  The files are not *)
(* written together: between two of its saves the process may die, or a    *)
(* save may throw.  One save is one step here (ChainStore has the steps of *)
(* the commit of a chain).                                                 *)
(*                                                                         *)
(* A session keeps the candidate chain that it is downloading in its own   *)
(* memory, across many messages and without the mutex.                     *)
(***************************************************************************)
EXTENDS Coins

CONSTANTS
    Session,    \* connections to peers
    MaxFaults   \* bound on restarts and failed saves

ASSUME FaultAssumption == MaxFaults \in Nat

VARIABLES
    chain,      \* the tip of the committed chain
    pool,       \* mempool-v1.tsv
    side,       \* sidebranches-v1.dat: blocks that are not on the active chain
    candidate,  \* candidate[s]: the CandidateSync of session s, None if inactive
    job,        \* the handler that holds data_mutex
    reached,    \* (history) every block that was ever on the active chain
    faults

vars == <<chain, pool, side, candidate, job, reached, faults>>

\* base: the chain the session loaded when it began; tip: the announced chain;
\* fork: the block of base that the headers connect to; pending: the blocks that
\* have been requested.
Candidate ==
    [phase : {"headers", "bodies", "activating"},
     base : Block, tip : Block, fork : Block, pending : SUBSET Block]

ASSUME NoneAssumption == None \notin Candidate

\* step: what is left to do; session: whose candidate is being activated; from
\* and before: the chain and the mempool when the handler began; rest: the
\* transactions of the loop under way; kept: the mempool in the handler's memory,
\* those that revalidate has retained and then those that were returned.
Job ==
    [step : {"idle", "branches", "activate", "remove", "revalidate", "return", "clear"},
     session : Session \cup {None}, from : Block, before : Seq(Tx),
     rest : Seq(Tx), kept : Seq(Tx)]

Idle == [step |-> "idle", session |-> None, from |-> Genesis, before |-> <<>>,
         rest |-> <<>>, kept |-> <<>>]

Start(step, s) ==
    job' = [step |-> step, session |-> s, from |-> chain, before |-> pool,
            rest |-> <<>>, kept |-> <<>>]

\* data_mutex is free.
Free == job.step = "idle"

\* Block b extends the active chain by one.
Extends(b) == b \notin Chain[chain] /\ Chain[b] = Chain[chain] \cup {b}

\* The blocks that session s waits for.
Pending(s) == IF candidate[s] = None THEN {} ELSE candidate[s].pending

\* A session delivers block b without having asked for it as part of a candidate.
Unrequested(b) == \E s \in Session : b \notin Pending(s)

\* The block where the chains that end in a and b part.
Fork(a, b) == CHOOSE c \in Chain[a] \cap Chain[b] :
                 \A d \in Chain[a] \cap Chain[b] : Work(d) <= Work(c)

\* Mutant: the disconnected transactions are collected from the tip downwards.
LostFromTip(a, b) ==
    Reverse(SubSeq(History[a], Len(History[Fork(a, b)]) + 1, Len(History[a])))

\* The transactions of the blocks that are disconnected when b replaces a.
Lost(a, b) == SubSeq(History[a], Len(History[Fork(a, b)]) + 1, Len(History[a]))

\* TestnetMempool::add accepts transaction t into the mempool p: it is new, and
\* applies after all of p.  If p itself does not apply, everything is refused.
Accepts(t, p) ==
    /\ t \notin ToSet(p) \cup Confirmed(chain)
    /\ Applies(p, chain)
    /\ Spendable(t, History[chain] \o p)

-----------------------------------------------------------------------------
Init ==
    /\ chain = Genesis /\ pool = <<>> /\ side = {}
    /\ candidate = [s \in Session |-> None]
    /\ job = Idle
    /\ reached = {Genesis}
    /\ faults = 0

(* Handlers that save one file.                                            *)

\* Mutant: a transaction is checked against the chain alone.
AddTransactionToChain(t) ==
    /\ Free
    /\ t \notin ToSet(pool) \cup Confirmed(chain)
    /\ Spendable(t, History[chain])
    /\ pool' = Append(pool, t)
    /\ UNCHANGED <<chain, side, candidate, job, reached, faults>>

\* A tx message, or sendtoaddress.
AddTransaction(t) ==
    /\ Free
    /\ Accepts(t, pool)
    /\ pool' = Append(pool, t)
    /\ UNCHANGED <<chain, side, candidate, job, reached, faults>>

\* A block that no session asked for and that does not extend the active chain.
StoreSideBlock(b) ==
    /\ Free
    /\ Unrequested(b) /\ b \notin Chain[chain] /\ ~Extends(b)
    /\ side' = side \cup {b}
    /\ UNCHANGED <<chain, pool, candidate, job, reached, faults>>

(* Downloading a candidate chain.                                          *)

\* Mutant: the fork is not set before the headers arrive.
StartCandidateNoFork(s, b) ==
    /\ Free
    /\ candidate[s] = None
    /\ Work(b) > Work(chain)
    /\ candidate' = [candidate EXCEPT ![s] =
         [phase |-> "headers", base |-> chain, tip |-> b, fork |-> None, pending |-> {}]]
    /\ UNCHANGED <<chain, pool, side, job, reached, faults>>

\* status, or the version of an outbound peer, announces a chain with more work
\* than the active one.  The comparison and the load of the base are two critical
\* sections: the chain compared with is one that was active at some time.
StartCandidate(s, b) ==
    /\ Free
    /\ candidate[s] = None
    /\ b # chain
    /\ \E a \in reached : Work(b) > Work(a)
    /\ candidate' = [candidate EXCEPT ![s] =
         [phase |-> "headers", base |-> chain, tip |-> b, fork |-> chain, pending |-> {}]]
    /\ UNCHANGED <<chain, pool, side, job, reached, faults>>

\* The last headers arrive (request_candidate_blocks): the blocks that are
\* neither on the active chain nor in the side store are requested.
ReceiveHeaders(s) ==
    /\ Free
    /\ candidate[s] # None
    /\ candidate[s].phase = "headers"
    /\ candidate[s].tip \notin Chain[candidate[s].base]
    /\ LET fork == Fork(candidate[s].base, candidate[s].tip)
       IN candidate' = [candidate EXCEPT
            ![s].phase = "bodies",
            ![s].fork = fork,
            ![s].pending = Chain[candidate[s].tip] \ (Chain[fork] \cup Chain[chain] \cup side)]
    /\ UNCHANGED <<chain, pool, side, job, reached, faults>>

\* A block of the candidate arrives.  The side store is loaded and saved without
\* data_mutex.
ReceiveCandidateBlock(s, b) ==
    /\ b \in Pending(s)
    /\ side' = side \cup {b}
    /\ candidate' = [candidate EXCEPT ![s].pending = @ \ {b}]
    /\ UNCHANGED <<chain, pool, job, reached, faults>>

\* The session ends; its candidate is forgotten.
Disconnect(s) ==
    /\ candidate[s] # None
    /\ job.session # s
    /\ candidate' = [candidate EXCEPT ![s] = None]
    /\ UNCHANGED <<chain, pool, side, job, reached, faults>>

(* Handlers that save several files.                                       *)

\* A block extends the active chain: append_blocks, and its chain is saved.
ConnectBlock(b) ==
    /\ Free
    /\ Unrequested(b) /\ Extends(b)
    /\ chain' = b
    /\ reached' = reached \cup {b}
    /\ Start("remove", None)
    /\ UNCHANGED <<pool, side, candidate, faults>>

\* generate: the first of the new blocks takes the whole mempool, and fails if a
\* transaction does not apply; the chain is saved when all blocks are mined.
Generate(b) ==
    /\ Free
    /\ b # chain /\ chain \in Chain[b]
    /\ Applies(pool, chain)
    /\ \E first \in Chain[b] :
         /\ Extends(first)
         /\ History[first] = History[chain] \o pool
         /\ History[b] = History[first]
    /\ chain' = b
    /\ reached' = reached \cup Chain[b]
    /\ Start("clear", None)
    /\ UNCHANGED <<pool, side, candidate, faults>>

\* generate goes on to clear the mempool.
ClearPool ==
    /\ job.step = "clear"
    /\ pool' = <<>>
    /\ job' = Idle
    /\ UNCHANGED <<chain, side, candidate, reached, faults>>

\* activate_candidate: the last body has arrived.
ActivateCandidate(s) ==
    /\ Free
    /\ candidate[s] # None
    /\ candidate[s].phase = "bodies" /\ candidate[s].pending = {}
    /\ candidate' = [candidate EXCEPT ![s].phase = "activating"]
    /\ Start("branches", s)
    /\ UNCHANGED <<chain, pool, side, reached, faults>>

\* Mutant: only the tip of the active chain is kept.
StoreDisconnectedTip ==
    /\ job.step = "branches"
    /\ side' = side \cup ({chain} \ Chain[candidate[job.session].fork])
    /\ job' = [job EXCEPT !.step = "activate"]
    /\ UNCHANGED <<chain, pool, candidate, reached, faults>>

\* put_many: the active blocks above the fork height go to the side store, whether
\* or not the candidate will be activated.
StoreDisconnected ==
    /\ job.step = "branches"
    /\ side' = side \cup {b \in Chain[chain] : Work(b) > Work(candidate[job.session].fork)}
    /\ job' = [job EXCEPT !.step = "activate"]
    /\ UNCHANGED <<chain, pool, candidate, reached, faults>>

\* Mutant: the work is compared with the chain that the download started from.
ActivateIfMoreWorkThanBase ==
    /\ job.step = "activate"
    /\ LET c == candidate[job.session]
       IN IF Work(c.tip) > Work(c.base)
          THEN /\ chain' = c.tip
               /\ reached' = reached \cup Chain[c.tip]
               /\ job' = [job EXCEPT !.step = "remove"]
          ELSE /\ job' = [job EXCEPT !.step = "revalidate", !.rest = pool]
               /\ UNCHANGED <<chain, reached>>
    /\ UNCHANGED <<pool, side, candidate, faults>>

\* activate_if_more_work: strictly more work than the chain that is active now.
ActivateIfMoreWork ==
    /\ job.step = "activate"
    /\ LET tip == candidate[job.session].tip
       IN IF Work(tip) > Work(chain)
          THEN /\ chain' = tip
               /\ reached' = reached \cup Chain[tip]
               /\ job' = [job EXCEPT !.step = "remove"]
          ELSE /\ job' = [job EXCEPT !.step = "revalidate", !.rest = pool]
               /\ UNCHANGED <<chain, reached>>
    /\ UNCHANGED <<pool, side, candidate, faults>>

\* remove_active; then the mempool is loaded.
RemoveActive ==
    /\ job.step = "remove"
    /\ side' = side \ Chain[chain]
    /\ job' = [job EXCEPT !.step = "revalidate", !.rest = pool]
    /\ UNCHANGED <<chain, pool, candidate, reached, faults>>

\* Mutant: revalidate drops confirmed transactions only.
RevalidateConfirmed ==
    /\ job.step = "revalidate" /\ job.rest # <<>>
    /\ LET t == Head(job.rest)
           keep == t \notin Confirmed(chain)
       IN job' = [job EXCEPT !.rest = Tail(@), !.kept = IF keep THEN Append(@, t) ELSE @]
    /\ UNCHANGED <<chain, pool, side, candidate, reached, faults>>

\* Mutant: the first transaction that does not apply ends the loop.
RevalidateStops ==
    /\ job.step = "revalidate" /\ job.rest # <<>>
    /\ LET t == Head(job.rest)
           keep == t \notin Confirmed(chain) /\ Spendable(t, History[chain] \o job.kept)
       IN job' = [job EXCEPT !.rest = IF keep THEN Tail(@) ELSE <<>>,
                             !.kept = IF keep THEN Append(@, t) ELSE @]
    /\ UNCHANGED <<chain, pool, side, candidate, reached, faults>>

\* revalidate: a transaction is retained if it is not confirmed and applies after
\* the chain and the transactions retained before it.
Revalidate ==
    /\ job.step = "revalidate" /\ job.rest # <<>>
    /\ LET t == Head(job.rest)
           keep == t \notin Confirmed(chain) /\ Spendable(t, History[chain] \o job.kept)
       IN job' = [job EXCEPT !.rest = Tail(@), !.kept = IF keep THEN Append(@, t) ELSE @]
    /\ UNCHANGED <<chain, pool, side, candidate, reached, faults>>

\* revalidate ends with a save.  What follows for an activated candidate is the
\* return of the disconnected transactions (there are none after ConnectBlock).
SaveRetained ==
    /\ job.step = "revalidate" /\ job.rest = <<>>
    /\ pool' = job.kept
    /\ job' = [job EXCEPT !.step = "return", !.rest = Lost(job.from, chain)]
    /\ UNCHANGED <<chain, side, candidate, reached, faults>>

\* The next disconnected transaction is added to the mempool, and all of it is
\* saved, unless the new chain confirms it or the mempool refuses it.
ReturnTransaction ==
    /\ job.step = "return" /\ job.rest # <<>>
    /\ LET t == Head(job.rest)
       IN IF Accepts(t, job.kept)
          THEN /\ pool' = Append(job.kept, t)
               /\ job' = [job EXCEPT !.rest = Tail(@), !.kept = Append(@, t)]
          ELSE /\ pool' = pool
               /\ job' = [job EXCEPT !.rest = Tail(@)]
    /\ UNCHANGED <<chain, side, candidate, reached, faults>>

\* The save of add throws.  The loop takes that for a refusal and goes on; the
\* transaction stays in the handler's mempool, for the next save to write.
ReturnNotSaved ==
    /\ job.step = "return" /\ job.rest # <<>>
    /\ faults < MaxFaults
    /\ faults' = faults + 1
    /\ Accepts(Head(job.rest), job.kept)
    /\ job' = [job EXCEPT !.rest = Tail(@), !.kept = Append(@, Head(job.rest))]
    /\ UNCHANGED <<chain, pool, side, candidate, reached>>

\* The handler returns and gives data_mutex back.
FinishJob ==
    /\ job.step = "return" /\ job.rest = <<>>
    /\ job' = Idle
    /\ candidate' = [s \in Session |-> IF s = job.session THEN None ELSE candidate[s]]
    /\ UNCHANGED <<chain, pool, side, reached, faults>>

-----------------------------------------------------------------------------
\* The process dies and is started again.
Restart ==
    /\ faults < MaxFaults
    /\ faults' = faults + 1
    /\ job' = Idle
    /\ candidate' = [s \in Session |-> None]
    /\ UNCHANGED <<chain, pool, side, reached>>

\* The next save of the handler throws (disk full, I/O error).  The exception
\* ends the handler; a candidate that was being activated stays as it is.  (The
\* return of the transactions swallows it: ReturnNotSaved.)
SaveFails ==
    /\ ~Free /\ job.step # "return"
    /\ faults < MaxFaults
    /\ faults' = faults + 1
    /\ job' = Idle
    /\ UNCHANGED <<chain, pool, side, candidate, reached>>

JobStep ==
    \/ ClearPool
    \/ StoreDisconnected
    \/ ActivateIfMoreWork
    \/ RemoveActive
    \/ Revalidate
    \/ SaveRetained
    \/ ReturnTransaction
    \/ ReturnNotSaved
    \/ FinishJob

SessionStep(s) ==
    \/ ReceiveHeaders(s)
    \/ ActivateCandidate(s)
    \/ Disconnect(s)
    \/ \E b \in Block : StartCandidate(s, b) \/ ReceiveCandidateBlock(s, b)

Next ==
    \/ \E t \in Tx : AddTransaction(t)
    \/ \E b \in Block : StoreSideBlock(b) \/ ConnectBlock(b) \/ Generate(b)
    \/ \E s \in Session : SessionStep(s)
    \/ JobStep
    \/ Restart
    \/ SaveFails

Spec == Init /\ [][Next]_vars

-----------------------------------------------------------------------------
TypeOK ==
    /\ chain \in Block
    /\ pool \in Seq(Tx)
    /\ side \subseteq Block
    /\ candidate \in [Session -> Candidate \cup {None}]
    /\ job \in Job
    /\ reached \subseteq Block
    /\ faults \in 0..MaxFaults

\* The mempool applies, in order, to the UTXO set of the chain whenever no handler
\* is at work: generate mines it, the wallet builds its coins on it, and
\* TestnetMempool::add applies all of it before it looks at a new transaction.
PoolApplies == Free => Applies(pool, chain)

\* So it is as long as no save has failed and the process has not died.
PoolStays == faults = 0 => PoolApplies

\* "Disconnected active blocks were not retained as side-branch data"
\* (testnet_tests.cpp): a block that has been active is on the active chain or in
\* the side store, whatever happened since.
DisconnectedRetained == reached \subseteq Chain[chain] \cup side

\* Transaction t is confirmed, or in the mempool p, or cannot be added to p.
Settled(t, p) ==
    t \in Confirmed(chain) \cup ToSet(p) \/ ~Spendable(t, History[chain] \o p)

\* The file holds the mempool of the handler but for its end: at most as many
\* transactions are missing as saves have failed.
Saved ==
    /\ Len(pool) <= Len(job.kept) /\ Len(job.kept) <= Len(pool) + faults
    /\ pool = SubSeq(job.kept, 1, Len(pool))

\* "Disconnected valid transaction was not returned to mempool"
\* (testnet_tests.cpp): when the activation of a chain ends, each transaction of
\* the disconnected blocks is confirmed, in conflict, or in the mempool, which is
\* in the file but for the transactions whose save failed.
DisconnectedReturned ==
    job.step = "return" /\ job.rest = <<>> =>
        /\ \A t \in Confirmed(job.from) : Settled(t, job.kept)
        /\ Saved

\* Transaction t spends an output of a transaction that was disconnected, or was
\* dropped and is not in the mempool p.
Orphaned(t, p) ==
    \E u \in (Confirmed(job.from) \cup (ToSet(job.before) \ ToSet(p))) \ Confirmed(chain) :
        Spends[t] \cap Creates[u] # {}

\* What the handler has dropped, the mempool being p now, does not belong there.
RightlyDropped(p) ==
    \A t \in ToSet(job.before) : Settled(t, p) \/ Orphaned(t, p)

\* "Drop transactions made invalid by the new chain or a prior retained
\* transaction" (mempool.cpp): a transaction that a handler drops from the mempool
\* is confirmed, does not apply, or spends an output of a transaction that was
\* disconnected or dropped with it.  (The last case is a loss: the parent may be
\* returned a moment later.)
DropsOnlyInvalid ==
    job.step = "return" /\ job.rest = <<>> => RightlyDropped(pool)

\* The strengthening that makes PoolStays inductive.

\* The handler at work: whose candidate it activates, and what it has changed.
JobInv ==
    /\ ~Free => job.before \in Seq(Tx) /\ job.from \in Block
    /\ job.step \in {"branches", "activate"} =>
         /\ job.session \in Session
         /\ candidate[job.session] \in Candidate
         /\ candidate[job.session].phase = "activating"
         /\ chain = job.from /\ pool = job.before /\ job.kept = <<>>
    /\ job.step \in {"remove", "clear"} =>
         /\ pool = job.before /\ job.kept = <<>>
         /\ Work(chain) > Work(job.from)
    /\ job.step = "revalidate" =>
         /\ pool = job.before
         /\ chain # job.from => Work(chain) > Work(job.from)
    /\ job.step = "return" =>
         /\ chain # job.from => Work(chain) > Work(job.from)
         /\ ToSet(job.rest) \subseteq Confirmed(job.from)

\* Without faults, the mempool applies whenever it is looked at, and the loops of
\* revalidate and of the return keep it so.
PoolInv ==
    faults = 0 =>
        /\ Free => Applies(pool, chain)
        /\ ~Free => Applies(job.before, job.from)
        /\ job.step = "revalidate" =>
             /\ Applies(job.kept, chain)
             /\ ToSet(job.kept) \cup ToSet(job.rest) \subseteq ToSet(job.before)
             /\ chain = job.from => job.kept \o job.rest = job.before
        /\ job.step = "return" =>
             /\ Applies(pool, chain) /\ pool = job.kept
             /\ ToSet(pool) \subseteq ToSet(job.before) \cup (Confirmed(job.from) \ Confirmed(chain))
             /\ chain = job.from => pool = job.before

IInv == TypeOK /\ JobInv /\ PoolInv

\* With a single session, the chain that its candidate was started from is still
\* part of the active chain when the candidate is activated.
Current(s) == candidate[s] # None /\ (candidate[s].phase # "activating" \/ job.step \in {"branches", "activate"})

BaseInv ==
    \A s \in Session : Current(s) =>
        /\ candidate[s].base \in Chain[chain]
        /\ candidate[s].phase # "headers" =>
             candidate[s].fork \in Chain[candidate[s].base] \cap Chain[candidate[s].tip]
        /\ job.step = "activate" =>
             {b \in Chain[chain] : Work(b) > Work(candidate[s].fork)} \subseteq side

RetainInv == DisconnectedRetained /\ BaseInv

\* The loops over the transactions, whatever has failed before.

\* Nothing in s spends an output of what comes after it.
Ordered(s) == \A i, j \in DOMAIN s : i <= j => Spends[s[i]] \cap Creates[s[j]] = {}

\* A loop over s that has rest before it has settled the transactions behind it.
Passed(s, rest, p) ==
    \E k \in 1..(Len(s) + 1) :
        /\ rest = SubSeq(s, k, Len(s))
        /\ \A i \in 1..(k - 1) : Settled(s[i], p)

LoopInv ==
    /\ Ordered(pool)
    /\ ~Free => Ordered(job.before)
    /\ job.step = "revalidate" =>
         /\ Applies(job.kept, chain)
         /\ Passed(job.before, job.rest, job.kept)
    /\ job.step = "return" =>
         /\ Applies(job.kept, chain)
         /\ Passed(History[job.from], job.rest, job.kept)
         /\ RightlyDropped(job.kept) /\ RightlyDropped(pool)
         /\ Saved

\* The active chain is only ever replaced by one with strictly more work, also
\* when the active chain has changed since the candidate was announced.
WorkGrows == [][Work(chain') > Work(chain)]_chain

\* While a handler is at work, the node's data is what it was before.
LedgerTip == IF Free THEN chain ELSE job.from
LedgerPool == IF Free THEN pool ELSE job.before

\* Seen between handlers, the node's data is the abstract ledger, until a save fails
\* or the process dies between two saves.
Abstract == INSTANCE Ledger WITH tip <- LedgerTip, pool <- LedgerPool
LedgerSpec == Abstract!Init /\ [][faults' = 0 => Abstract!Next]_<<LedgerTip, LedgerPool>>
=============================================================================
