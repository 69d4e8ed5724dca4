------------------------------- MODULE DpdkRcu -------------------------------
(***************************************************************************)
(* freak::par::dpdk_rcu: quiescent-state based reclamation.  A reader      *)
(* reports a quiescent state by copying the current token into its own     *)
(* counter; an update draws a new token and is acknowledged once every     *)
(* counter has reached it.  Any number of threads may update at once, and  *)
(* a reader thread may update too.                                         *)
(*                                                                         *)
(* One action is one atomic operation of the code.  A reader's store to    *)
(* its counter may sit in the processor's store buffer: `stored' is what   *)
(* the reader has stored in program order, `qsbr_cnt' what other threads   *)
(* load, and Drain closes the gap.  The buffer holds one store.            *)
(***************************************************************************)
EXTENDS Naturals

CONSTANTS NumThreads,    \* num_threads_: the readers are 0 .. NumThreads-1
          Updaters,      \* the threads that call the updater functions
          SyncCallers,   \* those of them that call synchronize()
          MaxToken       \* bound: the last token start_update hands out

ASSUME NumThreadsAssumption == NumThreads \in Nat \ {0}
ASSUME SyncCallersAssumption == SyncCallers \subseteq Updaters
ASSUME MaxTokenAssumption == MaxToken \in Nat

Readers == 0 .. NumThreads - 1
Threads == Readers \cup Updaters
Tokens  == 2 .. MaxToken

VARIABLES
  current_token,   \* the last token handed out
  acked_token,     \* a token all the readers are known to have passed
  qsbr_cnt,        \* the readers' counters, as the other threads load them
  stored,          \* the same counters, as their own reader has stored them
  holding,         \* client: does the reader hold a reference to shared data
  pc,              \* the atomic operation a thread is about to do
  call,            \* the locals of the function a thread is in
  holders,         \* ghost: readers holding since before a token's update
  granted          \* ghost: the tokens check_quiescent_state said true of

vars == <<current_token, acked_token, qsbr_cnt, stored, holding, pc, call,
          holders, granted>>

Calls == [tok : Nat, wait : BOOLEAN, nxt : 0 .. NumThreads, low : Nat]
NewCall(v, w) == [tok |-> v, wait |-> w, nxt |-> 0, low |-> 0]
NoCall == NewCall(0, FALSE)

TypeOK ==
  /\ current_token \in Nat \ {0}
  /\ acked_token \in Nat
  /\ qsbr_cnt \in [Readers -> Nat]
  /\ stored \in [Readers -> Nat]
  /\ holding \in [Readers -> BOOLEAN]
  /\ pc \in [Threads -> {"idle", "report", "acked", "scan", "publish"}]
  /\ call \in [Threads -> Calls]
  /\ holders \in [Tokens -> SUBSET Readers]
  /\ granted \subseteq Tokens

(* Mutant: the first token is the readers' initial count.                  *)
NoToken == 0
FirstToken == 1

Init ==
  /\ current_token = FirstToken
  /\ acked_token = 0
  /\ qsbr_cnt = [r \in Readers |-> 0]
  /\ stored = [r \in Readers |-> 0]
  /\ holding = [r \in Readers |-> FALSE]
  /\ pc = [t \in Threads |-> "idle"]
  /\ call = [t \in Threads |-> NoCall]
  /\ holders = [v \in Tokens |-> {}]
  /\ granted = {}

-----------------------------------------------------------------------------
(* The client's side: what a reader does between two quiescent states.     *)

Acquire(r) ==
  /\ pc[r] = "idle"
  /\ ~holding[r]
  /\ holding' = [holding EXCEPT ![r] = TRUE]
  /\ UNCHANGED <<current_token, acked_token, qsbr_cnt, stored, pc, call,
                 holders, granted>>

Release(r) ==
  /\ pc[r] = "idle"
  /\ holding[r]
  /\ holding' = [holding EXCEPT ![r] = FALSE]
  /\ holders' = [v \in Tokens |-> holders[v] \ {r}]
  /\ UNCHANGED <<current_token, acked_token, qsbr_cnt, stored, pc, call,
                 granted>>

-----------------------------------------------------------------------------
(* reader_quiescent_state: a load of the token, then a store if it moved.  *)

LoadToken(r) ==
  /\ pc[r] = "idle"
  /\ ~holding[r]
  /\ pc' = [pc EXCEPT ![r] = "report"]
  /\ call' = [call EXCEPT ![r] = NewCall(current_token, FALSE)]
  /\ UNCHANGED <<current_token, acked_token, qsbr_cnt, stored, holding,
                 holders, granted>>

Drained(t) == t \in Readers => stored[t] = qsbr_cnt[t]

ReportToken(r) ==
  /\ pc[r] = "report"
  /\ \/ /\ call[r].tok = stored[r]
        /\ UNCHANGED stored
     \/ /\ call[r].tok # stored[r]
        /\ Drained(r)
        /\ stored' = [stored EXCEPT ![r] = call[r].tok]
  /\ pc' = [pc EXCEPT ![r] = "idle"]
  /\ call' = [call EXCEPT ![r] = NoCall]
  /\ UNCHANGED <<current_token, acked_token, qsbr_cnt, holding, holders,
                 granted>>

(* The processor's store buffer becomes visible to the other threads.      *)
Drain(r) ==
  /\ ~Drained(r)
  /\ qsbr_cnt' = [qsbr_cnt EXCEPT ![r] = stored[r]]
  /\ UNCHANGED <<current_token, acked_token, stored, holding, pc, call,
                 holders, granted>>

-----------------------------------------------------------------------------
(* start_update: fetch_add is a locked instruction, so the caller's own    *)
(* store buffer is empty once it has executed.                             *)

NewToken(t) ==
  /\ pc[t] = "idle"
  /\ Drained(t)
  /\ current_token < MaxToken
  /\ current_token' = current_token + 1
  /\ holders' = [holders EXCEPT
                   ![current_token + 1] = {r \in Readers : holding[r]}]

StartUpdate(t) ==
  /\ NewToken(t)
  /\ UNCHANGED <<acked_token, qsbr_cnt, stored, holding, pc, call, granted>>

(* check_quiescent_state(v, w), the entry.  A reader waits only for a      *)
(* token it has itself reported, as dpdk_rcu.hpp:86-87 asks of it.         *)
CheckQuiescentState(t, v, w) ==
  /\ pc[t] = "idle"
  /\ v <= current_token
  /\ t \in Readers /\ w => stored[t] >= v
  /\ pc' = [pc EXCEPT ![t] = "acked"]
  /\ call' = [call EXCEPT ![t] = NewCall(v, w)]
  /\ UNCHANGED <<current_token, acked_token, qsbr_cnt, stored, holding,
                 holders, granted>>

(* synchronize() is start_update and a waiting check in one call.  A       *)
(* reader calls it after calling reader_quiescent_state, as dpdk_rcu.hpp:  *)
(* 72-73 asks of it; here the report is as fresh as it can be.             *)
Synchronize(t) ==
  /\ NewToken(t)
  /\ t \in Readers => ~holding[t] /\ stored[t] = current_token
  /\ pc' = [pc EXCEPT ![t] = "acked"]
  /\ call' = [call EXCEPT ![t] = NewCall(current_token + 1, TRUE)]
  /\ UNCHANGED <<acked_token, qsbr_cnt, stored, holding, granted>>

Return(t) ==
  /\ pc' = [pc EXCEPT ![t] = "idle"]
  /\ call' = [call EXCEPT ![t] = NoCall]

(* The shortcut through the token all the readers are known to have        *)
(* passed.                                                                 *)
LoadAcked(t) ==
  /\ pc[t] = "acked"
  /\ \/ /\ call[t].tok <= acked_token
        /\ granted' = granted \cup {call[t].tok}
        /\ Return(t)
     \/ /\ call[t].tok > acked_token
        /\ pc' = [pc EXCEPT ![t] = "scan"]
        /\ UNCHANGED <<call, granted>>
  /\ UNCHANGED <<current_token, acked_token, qsbr_cnt, stored, holding,
                 holders>>

(* One load of the scan over the counters; a thread sees its own stores.   *)
Load(t, r) == IF t = r THEN stored[r] ELSE qsbr_cnt[r]

(* Mutants: the comparison is off by one, either way.                      *)
ReachesPrevious(c, v) == c + 1 >= v
Overtakes(c, v) == c > v
Reaches(c, v) == c >= v

(* Mutant: the largest counter is acknowledged, not the smallest.          *)
Larger(n, low, c) == IF n = 0 \/ low < c THEN c ELSE low
Smaller(n, low, c) == IF n = 0 \/ low > c THEN c ELSE low

Scan(t) ==
  LET n == call[t].nxt
      c == Load(t, n)
  IN /\ pc[t] = "scan"
     /\ \/ /\ Reaches(c, call[t].tok)
           /\ call' = [call EXCEPT
                         ![t] = [tok |-> @.tok, wait |-> @.wait,
                                 nxt |-> n + 1, low |-> Smaller(n, @.low, c)]]
           /\ pc' = [pc EXCEPT
                       ![t] = IF n + 1 = NumThreads THEN "publish" ELSE @]
        \/ /\ ~Reaches(c, call[t].tok)    \* the waiting caller spins
           /\ ~call[t].wait
           /\ Return(t)
     /\ UNCHANGED <<current_token, acked_token, qsbr_cnt, stored, holding,
                    holders, granted>>

StoreAcked(t) ==
  /\ pc[t] = "publish"
  /\ acked_token' = call[t].low
  /\ granted' = granted \cup {call[t].tok}
  /\ Return(t)
  /\ UNCHANGED <<current_token, qsbr_cnt, stored, holding, holders>>

-----------------------------------------------------------------------------
Reader(r) ==
  \/ Acquire(r)
  \/ Release(r)
  \/ LoadToken(r)
  \/ ReportToken(r)
  \/ Drain(r)

CheckStep(t) ==
  \/ LoadAcked(t)
  \/ Scan(t)
  \/ StoreAcked(t)

Updater(t) ==
  \/ StartUpdate(t)
  \/ \E v \in Tokens, w \in BOOLEAN : CheckQuiescentState(t, v, w)
  \/ t \in SyncCallers /\ Synchronize(t)
  \/ CheckStep(t)

Next ==
  \/ \E r \in Readers : Reader(r)
  \/ \E t \in Updaters : Updater(t)

(* Threads run the function they are in to its end, and store buffers      *)
(* drain.  The client owes quiescent-state reclamation two things: a       *)
(* reader drops the references it holds, and it reports again and again    *)
(* (strong fairness: it may do other things, checks included, in between). *)
Fairness ==
  /\ \A r \in Readers : /\ SF_vars(Release(r))
                        /\ SF_vars(LoadToken(r))
                        /\ WF_vars(ReportToken(r))
                        /\ WF_vars(Drain(r))
  /\ \A t \in Updaters : WF_vars(CheckStep(t))

Spec == Init /\ [][Next]_vars
FairSpec == Spec /\ Fairness

-----------------------------------------------------------------------------
(* Properties.                                                             *)

(* The promise of check_quiescent_state (dpdk_rcu.hpp:88-93): a token is   *)
(* granted only when no reader holds a reference from before its update.   *)
GP == INSTANCE GracePeriod WITH
        Updates <- Tokens,
        inside <- {r \in Readers : holding[r]},
        awaited <- holders,
        status <- [v \in Tokens |-> IF v > current_token THEN "idle"
                                    ELSE IF v \in granted THEN "granted"
                                    ELSE "waiting"]
Contract == GP!Spec

(* acked_token is only an optimisation (dpdk_rcu.cpp:43-45), written by    *)
(* every updater without ordering and able to go back: it must never run   *)
(* ahead of a reader, or the shortcut would grant a token too early.       *)
AckedSound == \A r \in Readers : acked_token <= stored[r]

(* An updater that frees everything retired before its token relies on     *)
(* more than its own token: a granted token covers all the older ones.     *)
GrantCoversOlder ==
  \A v \in granted, u \in Tokens : u <= v => holders[u] = {}

(* A waiting check returns (dpdk_rcu.hpp:90-91), also when readers update  *)
(* and wait for each other, as long as the readers keep reporting.         *)
WaitReturns ==
  \A t \in Updaters :
    pc[t] \in {"acked", "scan", "publish"} ~> pc[t] = "idle"
=============================================================================
