------------------------------ MODULE MinerLoop ------------------------------
(***************************************************************************)
(* The two threads of a node and the blockchain lock between them: the     *)
(* miner (src/code/consensus/pow/miner.cpp) and the io_service thread that *)
(* runs run_network and reads the connections (pow.cpp).  Both enter with  *)
(*     unique_lock l(lock); can_write.wait(l, !locker_write);              *)
(*     locker_write = true;                                                *)
(* and leave with locker_write = false, unlock and notify_one, except that *)
(* mine_weak_block returns with locker_write still true when the file of   *)
(* the transactions cannot be made.                                        *)
(*                                                                         *)
(* Only the number of weak blocks that are complete and not yet cited is   *)
(* kept of the blocks: it decides whether a strong block can be mined.     *)
(*                                                                         *)
(* LoopSpec and its parts have this prefix because the proofs extend this  *)
(* module together with ChainStore.                                        *)
(***************************************************************************)
EXTENDS Naturals, Sequences, FiniteSets

CONSTANTS
    MaxMine,         \* MAX_MINE_BLOCKS
    StrongEvery,     \* the 3 of total_mined % 3
    CanInterrupt,    \* CAN_INTERRUPT
    FilesFail,       \* whether create_transaction_block may return 0
    MaxBodies,       \* bound: weak blocks completed by the network
    MaxInterrupts    \* bound: strong or weak blocks that arrive and interrupt

ASSUME MinerAssumption ==
    /\ {MaxMine, MaxBodies, MaxInterrupts} \subseteq Nat
    /\ StrongEvery \in Nat \ {0}
    /\ {CanInterrupt, FilesFail} \subseteq BOOLEAN

Thread == {"miner", "network"}
Kinds  == {"weak", "strong"}

VARIABLES
    pc,           \* each thread: away (asleep), entering, waiting, inside, leaving;
                  \* the miner also back (after the handler of an interruption), done
    lock,         \* the threads that hold the mutex
    locker_write,
    interrupted,  \* the miner thread's pending interruption
    kind,         \* the branch miner() took before it slept
    frames,       \* that of each interrupted call of miner(), innermost first
    total_mined,
    attempts,     \* what was attempted, in order
    produced,     \* the blocks that came of it
    uncited,      \* complete weak blocks that no strong block cites
    bodies,       \* weak blocks completed by the network so far
    interrupts    \* interruptions so far

gateVars  == <<pc, lock, locker_write>>
minerVars == <<kind, frames, total_mined, attempts>>
loopVars == <<gateVars, minerVars, interrupted, produced, uncited, bodies, interrupts>>

Branch(total) == IF total % StrongEvery # 0 THEN "weak" ELSE "strong"

LoopInit ==
    /\ pc = [t \in Thread |-> IF t = "network" THEN "entering" ELSE "away"]
    /\ lock = {} /\ locker_write = FALSE
    /\ interrupted = FALSE /\ interrupts = 0
    /\ kind = Branch(0) /\ frames = <<>>
    /\ total_mined = 0 /\ attempts = <<>> /\ produced = <<>>
    /\ uncited = 0 /\ bodies = 0

-----------------------------------------------------------------------------
(* Entering and leaving the lock, in both threads. *)

(* Mutants: the predicate inverted; no waiting at all. *)
WaitInverted == locker_write
WaitNever == TRUE

(* What can_write.wait waits for. *)
CanWrite == ~locker_write

(* The mutex is taken; wait gives it back at once when the token is taken. *)
Enter(t) ==
    /\ pc[t] = "entering" /\ lock = {}
    /\ IF CanWrite
         THEN pc' = [pc EXCEPT ![t] = "inside"] /\ lock' = {t} /\ locker_write' = TRUE
         ELSE pc' = [pc EXCEPT ![t] = "waiting"] /\ UNCHANGED <<lock, locker_write>>
    /\ UNCHANGED <<minerVars, interrupted, produced, uncited, bodies, interrupts>>

(* Mutant: no unlock. *)
ReleaseTokenOnly(t) ==
    /\ locker_write' = FALSE /\ UNCHANGED lock
    /\ pc' = [pc EXCEPT ![t] = "leaving"]

(* locker_write = false; l.unlock(). *)
Release(t) ==
    /\ locker_write' = FALSE /\ lock' = lock \ {t}
    /\ pc' = [pc EXCEPT ![t] = "leaving"]

(* notify_one, after the unlock: the other thread, if it waits, wakes up.  *)
(* The miner takes the branch of its next round as it calls miner() again. *)
Leave(t) ==
    /\ pc[t] = "leaving"
    /\ pc' = [u \in Thread |-> IF u = t THEN "away"
                               ELSE IF pc[u] = "waiting" THEN "entering" ELSE pc[u]]
    /\ kind' = IF t = "miner" THEN Branch(total_mined) ELSE kind
    /\ UNCHANGED <<lock, locker_write, frames, total_mined, attempts, interrupted,
                   produced, uncited, bodies, interrupts>>

-----------------------------------------------------------------------------
(* The miner thread. *)

(* A block that arrived interrupts the sleep: the handler calls miner().   *)
Interrupted ==
    /\ pc["miner"] = "away" /\ interrupted
    /\ interrupted' = FALSE
    /\ frames' = <<kind>> \o frames
    /\ kind' = Branch(total_mined)
    /\ UNCHANGED <<gateVars, total_mined, attempts, produced, uncited, bodies, interrupts>>

(* Mutant: a call that resumes does not test. *)
SpentAsleep == total_mined >= MaxMine /\ pc["miner"] = "away"

(* The test that ends miner(). *)
Spent == total_mined >= MaxMine

(* Mutant: an interrupted call does not go on. *)
AwakeOnce == pc["miner"] = "away" /\ ~interrupted

(* The sleep is over, or a handler returned, which sleeps no more. *)
Awake == \/ pc["miner"] = "away" /\ ~interrupted
         \/ pc["miner"] = "back"

(* One more attempt, of the kind chosen before the sleep. *)
Attempt ==
    /\ Awake
    /\ ~Spent
    /\ total_mined' = total_mined + 1
    /\ attempts' = Append(attempts, kind)
    /\ pc' = [pc EXCEPT !["miner"] = "entering"]
    /\ UNCHANGED <<lock, locker_write, kind, frames, interrupted, produced,
                   uncited, bodies, interrupts>>

(* miner() returns: a call that was interrupted goes on after its handler, *)
(* to the same test of total_mined; without any the thread ends.           *)
Return ==
    /\ Awake
    /\ Spent
    /\ IF frames = <<>>
         THEN pc' = [pc EXCEPT !["miner"] = "done"] /\ UNCHANGED <<kind, frames>>
         ELSE /\ pc' = [pc EXCEPT !["miner"] = "back"]
              /\ kind' = Head(frames) /\ frames' = Tail(frames)
    /\ UNCHANGED <<lock, locker_write, total_mined, attempts, interrupted, produced,
                   uncited, bodies, interrupts>>

(* mine_weak_block. *)
MineWeak ==
    /\ pc["miner"] = "inside" /\ kind = "weak"
    /\ Release("miner")
    /\ produced' = Append(produced, "weak")
    /\ uncited' = uncited + 1
    /\ UNCHANGED <<minerVars, interrupted, bodies, interrupts>>

(* mine_weak_block without transactions: the early return unlocks, through *)
(* the destructor of l, but keeps the token and notifies nobody.           *)
MineWeakFails ==
    /\ FilesFail
    /\ pc["miner"] = "inside" /\ kind = "weak"
    /\ lock' = {} /\ UNCHANGED locker_write
    /\ pc' = [pc EXCEPT !["miner"] = "away"]
    /\ kind' = Branch(total_mined)
    /\ UNCHANGED <<frames, total_mined, attempts, interrupted, produced,
                   uncited, bodies, interrupts>>

(* mine_new_block: it cites all there is on the chain the hash falls on,   *)
(* some of the uncited weak blocks.                                        *)
MineStrong ==
    /\ pc["miner"] = "inside" /\ kind = "strong"
    /\ Release("miner")
    /\ \E left \in 0 .. uncited :
          /\ uncited' = left
          /\ produced' = IF left < uncited THEN Append(produced, "strong") ELSE produced
    /\ UNCHANGED <<minerVars, interrupted, bodies, interrupts>>

-----------------------------------------------------------------------------
(* The network thread. *)

(* The timer fires or a connection has data. *)
Event ==
    /\ pc["network"] = "away"
    /\ pc' = [pc EXCEPT !["network"] = "entering"]
    /\ UNCHANGED <<lock, locker_write, minerVars, interrupted, produced,
                   uncited, bodies, interrupts>>

(* process_buffer or run_network.  A block that arrives interrupts the     *)
(* miner; a body completes a weak block; a strong block of another node    *)
(* cites some.                                                             *)
Serve ==
    /\ pc["network"] = "inside"
    /\ Release("network")
    /\ \/ UNCHANGED <<interrupted, interrupts, uncited, bodies>>
       \/ /\ CanInterrupt /\ interrupts < MaxInterrupts
          /\ interrupted' = TRUE /\ interrupts' = interrupts + 1
          /\ uncited' \in 0 .. uncited
          /\ UNCHANGED bodies
       \/ /\ bodies < MaxBodies
          /\ bodies' = bodies + 1 /\ uncited' = uncited + 1
          /\ UNCHANGED <<interrupted, interrupts>>
    /\ UNCHANGED <<minerVars, produced>>

MinerInside == MineWeak \/ MineWeakFails \/ MineStrong
MinerAway   == Interrupted \/ Attempt \/ Return

LoopNext ==
    \/ \E t \in Thread : Enter(t) \/ Leave(t)
    \/ MinerInside \/ MinerAway
    \/ Event \/ Serve

(* The timer of run_network is armed again after every turn, sleeps end,   *)
(* and a critical section ends.  A thread that keeps asking for the mutex  *)
(* gets it sooner or later: the network thread sits in the poll of the     *)
(* io_service, without the lock, between two events.                       *)
Fairness ==
    /\ \A t \in Thread : SF_loopVars(Enter(t)) /\ WF_loopVars(Leave(t))
    /\ WF_loopVars(MinerInside) /\ WF_loopVars(MinerAway)
    /\ WF_loopVars(Event) /\ WF_loopVars(Serve)

LoopSpec == LoopInit /\ [][LoopNext]_loopVars
LoopFairSpec == LoopSpec /\ Fairness

-----------------------------------------------------------------------------

LoopTypeOK ==
    /\ pc \in [Thread -> {"away", "entering", "waiting", "inside", "leaving", "back", "done"}]
    /\ pc["network"] \notin {"back", "done"}
    /\ lock \subseteq Thread
    /\ locker_write \in BOOLEAN /\ interrupted \in BOOLEAN
    /\ kind \in Kinds /\ frames \in Seq(Kinds)
    /\ total_mined \in 0 .. MaxMine
    /\ attempts \in Seq(Kinds) /\ produced \in Seq(Kinds)
    /\ uncited \in Nat
    /\ bodies \in 0 .. MaxBodies /\ interrupts \in 0 .. MaxInterrupts

(* The token is taken and nobody is inside to give it back. *)
Leaked == locker_write /\ lock = {}

(* One thread at a time works on the block chain, holding both mutex and   *)
(* token, and nobody waits for the token unless it was leaked: the wake-up *)
(* of notify_one, sent after the unlock, cannot be missed.                 *)
OneWriter ==
    /\ lock = {t \in Thread : pc[t] = "inside"}
    /\ \A t, u \in Thread : pc[t] = "inside" /\ pc[u] = "inside" => t = u
    /\ lock # {} => locker_write
    /\ (\E t \in Thread : pc[t] = "waiting") => Leaked

(* The branch is taken before the sleep, and an interrupted call of miner()*)
(* resumes with a branch that is out of date.  Still the i-th attempt is   *)
(* the one the counter calls for, and there are at most MaxMine.           *)
ScheduleKept ==
    /\ Len(attempts) = total_mined
    /\ \A i \in DOMAIN attempts : attempts[i] = Branch(i - 1)

(* Whoever wants to work on the block chain gets to, unless the token was  *)
(* leaked.                                                                 *)
EntersOrLeaked == \A t \in Thread : pc[t] = "entering" ~> pc[t] = "inside" \/ Leaked

(* The miner stops in the end, whatever number of calls was interrupted.   *)
MinerStops == <>(pc["miner"] = "done" \/ Leaked)

(* A leaked token is never returned: the node stops answering for good.    *)
LeakStopsNode == Leaked ~> [](pc["network"] = "waiting")

(* The branch of a call that will still mine is up to date; a call resumes *)
(* after the handler of its interruption only when all is mined.           *)
BranchCurrent ==
    /\ pc["miner"] = "away" /\ ~Spent => kind = Branch(total_mined)
    /\ pc["miner"] = "back" => Spent

(* The inductive invariant. *)
LoopIInv == LoopTypeOK /\ OneWriter /\ ScheduleKept /\ BranchCurrent
=============================================================================
