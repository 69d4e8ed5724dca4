---------------------------- MODULE DpdkRcuProofs ----------------------------
(***************************************************************************)
(* Theorems about DpdkRcu, for any number of readers, updaters and tokens. *)
(*                                                                         *)
(* A counter only grows, so what one load of a scan has seen stays true    *)
(* while the scan goes on: that is the inductive invariant's heart.        *)
(***************************************************************************)
EXTENDS DpdkRcu, TLAPS

Checking == {"acked", "scan", "publish"}

(* A counter in memory lags behind its reader, and both behind the token.  *)
CountersBounded ==
  \A r \in Readers : qsbr_cnt[r] <= stored[r] /\ stored[r] <= current_token

(* A report under way comes from a reader that holds nothing, and never    *)
(* takes its counter back.                                                 *)
ReportsFresh ==
  \A r \in Readers : pc[r] = "report" =>
    /\ ~holding[r]
    /\ stored[r] <= call[r].tok
    /\ call[r].tok <= current_token

(* A reader an update still waits for has not reported since it began.     *)
HoldersUnreported ==
  \A v \in Tokens : \A r \in holders[v] :
    holding[r] /\ stored[r] < v /\ v <= current_token

(* A check under way has a token that exists, and starts at the first      *)
(* counter.                                                                *)
ChecksWellFormed ==
  \A t \in Threads : pc[t] \in Checking =>
    /\ call[t].tok \in Tokens
    /\ call[t].tok <= current_token
    /\ pc[t] = "acked" => call[t].nxt = 0
    /\ pc[t] = "scan" => call[t].nxt < NumThreads
    /\ pc[t] = "publish" => call[t].nxt = NumThreads

(* The counters a scan has passed have reached its token, and its running  *)
(* minimum bounds them from below.                                         *)
ScannedReached ==
  \A t \in Threads : pc[t] \in Checking =>
    \A r \in Readers : r < call[t].nxt =>
      call[t].tok <= stored[r] /\ call[t].low <= stored[r]

(* Every reader has reported a granted token.                              *)
GrantedReached ==
  \A v \in granted : v <= current_token /\ \A r \in Readers : v <= stored[r]

IInv ==
  /\ TypeOK
  /\ CountersBounded
  /\ ReportsFresh
  /\ HoldersUnreported
  /\ AckedSound
  /\ ChecksWellFormed
  /\ ScannedReached
  /\ GrantedReached

-----------------------------------------------------------------------------
(* A thread loads at most what the counter's reader has stored.            *)
LEMMA LoadBounded ==
  ASSUME TypeOK, CountersBounded, NEW t \in Threads, NEW r \in Readers
  PROVE  Load(t, r) \in Nat /\ Load(t, r) <= stored[r]
  BY DEF TypeOK, CountersBounded, Load

(* An update waits for readers only.                                       *)
LEMMA HolderIsReader ==
  ASSUME TypeOK, NEW u \in Tokens, NEW r \in holders[u]
  PROVE  u \in Nat /\ r \in Readers /\ stored[r] \in Nat
<1>1. u \in Nat
  BY DEF Tokens
<1>2. holders[u] \subseteq Readers
  BY DEF TypeOK
<1>3. r \in Readers
  BY <1>2
<1>4. QED
  BY <1>1, <1>3 DEF TypeOK

LEMMA InitIInv == Init => IInv
<1> SUFFICES ASSUME Init PROVE IInv
  OBVIOUS
<1> USE DEF Init
<1>1. TypeOK
  BY NumThreadsAssumption DEF TypeOK, Readers, NoCall, NewCall, Calls, FirstToken
<1>2. CountersBounded /\ AckedSound /\ GrantedReached
  BY DEF CountersBounded, AckedSound, GrantedReached, FirstToken
<1>3. ReportsFresh /\ ChecksWellFormed /\ ScannedReached
  BY DEF ReportsFresh, ChecksWellFormed, ScannedReached, Checking, Threads
<1>4. HoldersUnreported
  BY DEF HoldersUnreported
<1>5. QED
  BY <1>1, <1>2, <1>3, <1>4 DEF IInv

-----------------------------------------------------------------------------
(* The readers' steps.                                                     *)

LEMMA AcquireIInv ==
  ASSUME IInv, NEW r \in Readers, Acquire(r)
  PROVE  IInv'
<1> USE DEF IInv, Acquire
<1>1. TypeOK'
  BY DEF TypeOK
<1>2. ReportsFresh'
  BY DEF TypeOK, ReportsFresh
<1>3. HoldersUnreported'
  BY DEF TypeOK, HoldersUnreported
<1>4. (CountersBounded /\ AckedSound /\ ChecksWellFormed
       /\ ScannedReached /\ GrantedReached)'
  BY DEF CountersBounded, AckedSound, ChecksWellFormed, ScannedReached,
         GrantedReached
<1>5. QED
  BY <1>1, <1>2, <1>3, <1>4

LEMMA ReleaseIInv ==
  ASSUME IInv, NEW r \in Readers, Release(r)
  PROVE  IInv'
<1> USE DEF IInv, Release
<1>1. TypeOK'
  BY DEF TypeOK
<1>2. ReportsFresh'
  BY DEF TypeOK, ReportsFresh
<1>3. HoldersUnreported'
  BY DEF TypeOK, HoldersUnreported
<1>4. (CountersBounded /\ AckedSound /\ ChecksWellFormed
       /\ ScannedReached /\ GrantedReached)'
  BY DEF CountersBounded, AckedSound, ChecksWellFormed, ScannedReached,
         GrantedReached
<1>5. QED
  BY <1>1, <1>2, <1>3, <1>4

LEMMA LoadTokenIInv ==
  ASSUME IInv, NEW r \in Readers, LoadToken(r)
  PROVE  IInv'
<1> USE NumThreadsAssumption DEF IInv, LoadToken, NewCall
<1>1. TypeOK'
  BY DEF TypeOK, Threads, Calls
<1>2. ReportsFresh'
  BY DEF TypeOK, ReportsFresh, CountersBounded, Threads, Calls
<1>3. (ChecksWellFormed /\ ScannedReached)'
  BY DEF TypeOK, ChecksWellFormed, ScannedReached, Checking, Threads
<1>4. (CountersBounded /\ HoldersUnreported /\ AckedSound
       /\ GrantedReached)'
  BY DEF CountersBounded, HoldersUnreported, AckedSound, GrantedReached
<1>5. QED
  BY <1>1, <1>2, <1>3, <1>4

LEMMA ReportTokenIInv ==
  ASSUME IInv, NEW r \in Readers, ReportToken(r)
  PROVE  IInv'
<1> USE DEF IInv, ReportToken
<1>1. stored' = [stored EXCEPT ![r] = call[r].tok]
  BY DEF TypeOK
<1>2. call[r].tok \in Nat /\ stored[r] <= call[r].tok
      /\ call[r].tok <= current_token /\ ~holding[r]
  BY DEF TypeOK, ReportsFresh, Threads, Calls
<1>3. \A x \in Readers : stored[x] \in Nat /\ stored'[x] \in Nat
                          /\ stored[x] <= stored'[x]
  BY <1>1, <1>2 DEF TypeOK
<1>4. TypeOK'
  BY <1>1, <1>2, NumThreadsAssumption DEF TypeOK, Threads, Calls, NoCall, NewCall
<1>5. (CountersBounded /\ AckedSound)'
  BY <1>1, <1>2, <1>3 DEF TypeOK, CountersBounded, AckedSound
<1>6. ReportsFresh'
  BY <1>1 DEF TypeOK, ReportsFresh, Threads
<1>7. HoldersUnreported'
  BY <1>1, <1>2 DEF TypeOK, HoldersUnreported
<1>8. ChecksWellFormed'
  BY DEF TypeOK, ChecksWellFormed, Checking, Threads
<1>9. ScannedReached'
  BY <1>1, <1>3, SMTT(30) DEF TypeOK, ScannedReached, Checking, Threads, Calls, Readers
<1>10. GrantedReached'
  BY <1>1, <1>3 DEF TypeOK, GrantedReached, Tokens
<1>11. QED
  BY <1>4, <1>5, <1>6, <1>7, <1>8, <1>9, <1>10

LEMMA DrainIInv ==
  ASSUME IInv, NEW r \in Readers, Drain(r)
  PROVE  IInv'
<1> USE DEF IInv, Drain
<1>1. TypeOK'
  BY DEF TypeOK
<1>2. CountersBounded'
  BY DEF TypeOK, CountersBounded
<1>3. (ReportsFresh /\ HoldersUnreported /\ AckedSound /\ ChecksWellFormed
       /\ ScannedReached /\ GrantedReached)'
  BY DEF ReportsFresh, HoldersUnreported, AckedSound, ChecksWellFormed,
         ScannedReached, GrantedReached
<1>4. QED
  BY <1>1, <1>2, <1>3

-----------------------------------------------------------------------------
(* The updaters' steps.                                                    *)

(* A new token leaves the parts that speak of older tokens alone.          *)
LEMMA NewTokenIInv ==
  ASSUME IInv, NEW t \in Updaters, NewToken(t),
         UNCHANGED <<acked_token, qsbr_cnt, stored, holding, granted>>
  PROVE  /\ current_token' = current_token + 1
         /\ current_token + 1 \in Tokens
         /\ current_token' \in Nat \ {0}
         /\ holders' \in [Tokens -> SUBSET Readers]
         /\ CountersBounded' /\ HoldersUnreported'
         /\ AckedSound' /\ GrantedReached'
<1> USE DEF IInv, NewToken
<1>1. /\ current_token' = current_token + 1
      /\ current_token + 1 \in Tokens
      /\ current_token' \in Nat \ {0}
  BY MaxTokenAssumption DEF TypeOK, Tokens
<1>2. holders' \in [Tokens -> SUBSET Readers]
  BY DEF TypeOK
<1>3. CountersBounded' /\ AckedSound' /\ GrantedReached'
  BY DEF TypeOK, CountersBounded, AckedSound, GrantedReached, Tokens
<1>4. HoldersUnreported'
  <2> SUFFICES ASSUME NEW v \in Tokens, NEW r \in holders'[v]
               PROVE  holding[r] /\ stored[r] < v /\ v <= current_token + 1
    BY DEF HoldersUnreported
  <2>1. CASE v = current_token + 1
    <3>1. r \in Readers /\ holding[r]
      BY <2>1 DEF TypeOK
    <3>2. QED
      BY <2>1, <3>1 DEF TypeOK, CountersBounded
  <2>2. CASE v # current_token + 1
    <3>1. r \in holders[v] /\ r \in Readers
      BY <2>2 DEF TypeOK
    <3>2. QED
      BY <3>1 DEF TypeOK, HoldersUnreported, Tokens
  <2>3. QED
    BY <2>1, <2>2
<1>5. QED
  BY <1>1, <1>2, <1>3, <1>4

LEMMA StartUpdateIInv ==
  ASSUME IInv, NEW t \in Updaters, StartUpdate(t)
  PROVE  IInv'
<1> USE DEF IInv, StartUpdate
<1>1. /\ current_token' = current_token + 1
      /\ current_token' \in Nat \ {0}
      /\ holders' \in [Tokens -> SUBSET Readers]
      /\ CountersBounded' /\ HoldersUnreported'
      /\ AckedSound' /\ GrantedReached'
  BY NewTokenIInv
<1>2. TypeOK'
  BY <1>1 DEF TypeOK
<1>3. ReportsFresh' /\ ChecksWellFormed' /\ ScannedReached'
  BY <1>1 DEF TypeOK, ReportsFresh, ChecksWellFormed, ScannedReached,
              Checking, Threads, Calls
<1>4. QED
  BY <1>1, <1>2, <1>3

LEMMA CheckQuiescentStateIInv ==
  ASSUME IInv, NEW t \in Updaters, NEW v \in Tokens, NEW w \in BOOLEAN,
         CheckQuiescentState(t, v, w)
  PROVE  IInv'
<1> USE DEF IInv, CheckQuiescentState
<1>1. call' = [call EXCEPT ![t] = [tok |-> v, wait |-> w, nxt |-> 0,
                                   low |-> 0]]
  BY DEF NewCall
<1>2. TypeOK'
  BY <1>1, NumThreadsAssumption DEF TypeOK, Calls, Threads, Tokens
<1>3. ReportsFresh'
  BY <1>1 DEF TypeOK, ReportsFresh, Threads
<1>4. ChecksWellFormed' /\ ScannedReached'
  BY <1>1, NumThreadsAssumption
  DEF TypeOK, ChecksWellFormed, ScannedReached, Checking, Threads, Readers
<1>5. (CountersBounded /\ HoldersUnreported /\ AckedSound
       /\ GrantedReached)'
  BY DEF CountersBounded, HoldersUnreported, AckedSound, GrantedReached
<1>6. QED
  BY <1>2, <1>3, <1>4, <1>5

LEMMA SynchronizeIInv ==
  ASSUME IInv, NEW t \in Updaters, Synchronize(t)
  PROVE  IInv'
<1> USE DEF IInv
<1>1. /\ current_token' = current_token + 1
      /\ current_token + 1 \in Tokens
      /\ current_token' \in Nat \ {0}
      /\ holders' \in [Tokens -> SUBSET Readers]
      /\ CountersBounded' /\ HoldersUnreported'
      /\ AckedSound' /\ GrantedReached'
  BY NewTokenIInv DEF Synchronize
<1> DEFINE v == current_token + 1
<1>2. /\ call' = [call EXCEPT ![t] = [tok |-> v, wait |-> TRUE, nxt |-> 0,
                                      low |-> 0]]
      /\ pc' = [pc EXCEPT ![t] = "acked"]
      /\ UNCHANGED <<acked_token, qsbr_cnt, stored, holding, granted>>
      /\ v \in Nat /\ v \in Tokens /\ v <= current_token' /\ t \in Threads
  BY <1>1 DEF Synchronize, NewCall, TypeOK, Threads
<1> HIDE DEF v
<1>3. TypeOK'
  BY <1>1, <1>2, NumThreadsAssumption DEF TypeOK, Calls
<1>4. ReportsFresh'
  BY <1>1, <1>2 DEF TypeOK, ReportsFresh, Threads, Calls
<1>5. ChecksWellFormed' /\ ScannedReached'
  <2>1. ChecksWellFormed'
    BY <1>1, <1>2, NumThreadsAssumption
    DEF TypeOK, ChecksWellFormed, Checking, Calls, Tokens
  <2>2. ScannedReached'
    BY <1>1, <1>2, NumThreadsAssumption, SMTT(30)
    DEF TypeOK, ScannedReached, Checking, Readers, Calls
  <2>3. QED
    BY <2>1, <2>2
<1>6. QED
  BY <1>1, <1>3, <1>4, <1>5

(* A check that ends, with or without a grant.                             *)
LEMMA ReturnIInv ==
  ASSUME IInv, NEW t \in Updaters, Return(t),
         pc[t] \in Checking,
         UNCHANGED <<current_token, qsbr_cnt, stored, holding, holders>>
  PROVE  /\ pc' \in [Threads -> {"idle", "report", "acked", "scan", "publish"}]
         /\ call' \in [Threads -> Calls]
         /\ CountersBounded' /\ ReportsFresh' /\ HoldersUnreported'
         /\ ChecksWellFormed' /\ ScannedReached'
<1> USE DEF IInv, Return
<1>1. /\ pc' \in [Threads -> {"idle", "report", "acked", "scan", "publish"}]
      /\ call' \in [Threads -> Calls]
  BY NumThreadsAssumption DEF TypeOK, Calls, NoCall, NewCall, Threads
<1>2. CountersBounded' /\ HoldersUnreported'
  BY DEF CountersBounded, HoldersUnreported
<1>3. ReportsFresh'
  BY DEF TypeOK, ReportsFresh, Threads
<1>4. ChecksWellFormed' /\ ScannedReached'
  BY DEF TypeOK, ChecksWellFormed, ScannedReached, Checking, Threads
<1>5. QED
  BY <1>1, <1>2, <1>3, <1>4

LEMMA LoadAckedIInv ==
  ASSUME IInv, NEW t \in Updaters, LoadAcked(t)
  PROVE  IInv'
<1> USE DEF IInv, LoadAcked
<1>0. pc[t] = "acked" /\ t \in Threads /\ AckedSound'
  BY DEF Threads, AckedSound
<1>1. CASE /\ call[t].tok <= acked_token
           /\ granted' = granted \cup {call[t].tok}
           /\ Return(t)
  <2>1. call[t].tok \in Tokens /\ call[t].tok <= current_token
    BY <1>0 DEF ChecksWellFormed, Checking
  <2>2. \A r \in Readers : call[t].tok <= stored[r]
    BY <1>1, <2>1 DEF TypeOK, AckedSound, Tokens
  <2>3. GrantedReached'
    BY <1>1, <2>1, <2>2 DEF GrantedReached
  <2>4. granted' \subseteq Tokens
    BY <1>1, <2>1 DEF TypeOK
  <2>5. /\ pc' \in [Threads -> {"idle", "report", "acked", "scan", "publish"}]
        /\ call' \in [Threads -> Calls]
        /\ CountersBounded' /\ ReportsFresh' /\ HoldersUnreported'
        /\ ChecksWellFormed' /\ ScannedReached'
    BY <1>0, <1>1, ReturnIInv DEF Checking
  <2>6. TypeOK'
    BY <2>4, <2>5 DEF TypeOK
  <2>7. QED
    BY <1>0, <2>3, <2>5, <2>6
<1>2. CASE /\ call[t].tok > acked_token
           /\ pc' = [pc EXCEPT ![t] = "scan"]
           /\ UNCHANGED <<call, granted>>
  <2>1. TypeOK'
    BY <1>2 DEF TypeOK
  <2>2. ReportsFresh'
    BY <1>2 DEF TypeOK, ReportsFresh, Threads
  <2>3. ChecksWellFormed' /\ ScannedReached'
    BY <1>0, <1>2, NumThreadsAssumption
    DEF TypeOK, ChecksWellFormed, ScannedReached, Checking
  <2>4. (CountersBounded /\ HoldersUnreported /\ GrantedReached)'
    BY <1>2 DEF CountersBounded, HoldersUnreported, GrantedReached
  <2>5. QED
    BY <1>0, <2>1, <2>2, <2>3, <2>4
<1>3. QED
  BY <1>1, <1>2

LEMMA ScanIInv ==
  ASSUME IInv, NEW t \in Updaters, Scan(t)
  PROVE  IInv'
<1> USE DEF IInv
<1> DEFINE n == call[t].nxt
           c == Load(t, n)
           low == Smaller(n, call[t].low, c)
<1>1. /\ t \in Threads /\ pc[t] = "scan"
      /\ UNCHANGED <<current_token, acked_token, qsbr_cnt, stored, holding,
                     holders, granted>>
  BY DEF Scan, Threads
<1>2. AckedSound' /\ GrantedReached' /\ HoldersUnreported'
      /\ CountersBounded'
  BY <1>1 DEF AckedSound, GrantedReached, HoldersUnreported, CountersBounded
<1>3. CASE /\ Reaches(c, call[t].tok)
           /\ call' = [call EXCEPT
                         ![t] = [tok |-> call[t].tok, wait |-> call[t].wait,
                                 nxt |-> n + 1, low |-> low]]
           /\ pc' = [pc EXCEPT
                       ![t] = IF n + 1 = NumThreads THEN "publish" ELSE pc[t]]
  <2>1. n \in Readers /\ n + 1 \in 0 .. NumThreads
    BY <1>1, NumThreadsAssumption
    DEF ChecksWellFormed, Checking, TypeOK, Calls, Readers
  <2>2. /\ c \in Nat /\ c <= stored[n] /\ call[t].tok <= c
        /\ call[t].tok \in Tokens /\ call[t].wait \in BOOLEAN
        /\ call[t].low \in Nat
    BY <1>1, <1>3, <2>1, LoadBounded
    DEF Reaches, ChecksWellFormed, Checking, TypeOK, Calls
  <2>3. low \in Nat /\ low <= c /\ (n # 0 => low <= call[t].low)
    BY <2>1, <2>2 DEF Smaller, Readers
  <2> HIDE DEF c, low
  <2>4. TypeOK'
    BY <1>1, <1>3, <2>1, <2>2, <2>3 DEF TypeOK, Calls, Tokens
  <2>5. ReportsFresh'
    BY <1>1, <1>3 DEF TypeOK, ReportsFresh, Threads
  <2>6. ChecksWellFormed'
    BY <1>1, <1>3, <2>1, NumThreadsAssumption
    DEF TypeOK, ChecksWellFormed, Checking, Readers
  <2>7. ScannedReached'
    <3> SUFFICES ASSUME NEW x \in Threads, pc'[x] \in Checking,
                        NEW r \in Readers, r < call'[x].nxt
                 PROVE  call'[x].tok <= stored[r] /\ call'[x].low <= stored[r]
      BY <1>1 DEF ScannedReached
    <3>1. CASE x # t
      BY <1>1, <1>3, <3>1 DEF TypeOK, ScannedReached
    <3>2. CASE x = t /\ r = n
      BY <1>1, <1>3, <2>1, <2>2, <2>3, <3>2 DEF TypeOK, Tokens
    <3>3. CASE x = t /\ r # n
      <4>1. call'[x].tok = call[t].tok /\ call'[x].low = low
            /\ call'[x].nxt = n + 1
        BY <1>1, <1>3, <3>3 DEF TypeOK
      <4>2. r < n /\ n # 0
        BY <2>1, <3>3, <4>1 DEF Readers
      <4>3. call[t].tok <= stored[r] /\ call[t].low <= stored[r]
        BY <1>1, <4>2 DEF ScannedReached, Checking
      <4>4. stored[r] \in Nat
        BY DEF TypeOK
      <4>5. QED
        BY <2>2, <2>3, <4>1, <4>2, <4>3, <4>4
    <3>4. QED
      BY <3>1, <3>2, <3>3
  <2>8. QED
    BY <1>2, <2>4, <2>5, <2>6, <2>7
<1>4. CASE Return(t)
  <2>1. /\ pc' \in [Threads -> {"idle", "report", "acked", "scan", "publish"}]
        /\ call' \in [Threads -> Calls]
        /\ ReportsFresh' /\ ChecksWellFormed' /\ ScannedReached'
    BY <1>1, <1>4, ReturnIInv DEF Checking
  <2>2. TypeOK'
    BY <1>1, <2>1 DEF TypeOK
  <2>3. QED
    BY <1>2, <2>1, <2>2
<1>5. QED
  BY <1>3, <1>4 DEF Scan

LEMMA StoreAckedIInv ==
  ASSUME IInv, NEW t \in Updaters, StoreAcked(t)
  PROVE  IInv'
<1> USE DEF IInv
<1>1. /\ t \in Threads /\ pc[t] = "publish" /\ Return(t)
      /\ acked_token' = call[t].low
      /\ granted' = granted \cup {call[t].tok}
      /\ UNCHANGED <<current_token, qsbr_cnt, stored, holding, holders>>
  BY DEF StoreAcked, Threads
<1>2. call[t].tok \in Tokens /\ call[t].tok <= current_token
      /\ call[t].low \in Nat
  BY <1>1 DEF ChecksWellFormed, Checking, TypeOK, Calls
<1>3. \A r \in Readers : call[t].tok <= stored[r] /\ call[t].low <= stored[r]
  BY <1>1, NumThreadsAssumption
  DEF ChecksWellFormed, ScannedReached, Checking, Readers
<1>4. AckedSound'
  BY <1>1, <1>3 DEF AckedSound
<1>5. GrantedReached'
  BY <1>1, <1>2, <1>3 DEF GrantedReached
<1>6. /\ pc' \in [Threads -> {"idle", "report", "acked", "scan", "publish"}]
      /\ call' \in [Threads -> Calls]
      /\ CountersBounded' /\ ReportsFresh' /\ HoldersUnreported'
      /\ ChecksWellFormed' /\ ScannedReached'
  BY <1>1, ReturnIInv DEF Checking
<1>7. TypeOK'
  BY <1>1, <1>2, <1>6 DEF TypeOK
<1>8. QED
  BY <1>4, <1>5, <1>6, <1>7

LEMMA NextIInv == IInv /\ [Next]_vars => IInv'
<1> SUFFICES ASSUME IInv, [Next]_vars
             PROVE  IInv'
  OBVIOUS
<1>1. ASSUME NEW r \in Readers, Reader(r)
      PROVE  IInv'
  BY <1>1, AcquireIInv, ReleaseIInv, LoadTokenIInv, ReportTokenIInv, DrainIInv
  DEF Reader
<1>2. ASSUME NEW t \in Updaters, Updater(t)
      PROVE  IInv'
  <2>1. CASE StartUpdate(t)
    BY <2>1, StartUpdateIInv
  <2>2. CASE \E v \in Tokens, w \in BOOLEAN : CheckQuiescentState(t, v, w)
    BY <2>2, CheckQuiescentStateIInv
  <2>3. CASE Synchronize(t)
    BY <2>3, SynchronizeIInv
  <2>4. CASE CheckStep(t)
    BY <2>4, LoadAckedIInv, ScanIInv, StoreAckedIInv DEF CheckStep
  <2>5. QED
    BY <1>2, <2>1, <2>2, <2>3, <2>4 DEF Updater
<1>3. CASE UNCHANGED vars
  BY <1>3 DEF vars, IInv, TypeOK, CountersBounded, ReportsFresh,
              HoldersUnreported, AckedSound, ChecksWellFormed,
              ScannedReached, GrantedReached
<1>4. QED
  BY <1>1, <1>2, <1>3 DEF Next

(* Every reachable state satisfies the inductive invariant.                *)
THEOREM Invariance == Spec => []IInv
  BY InitIInv, NextIInv, PTL DEF Spec

-----------------------------------------------------------------------------
(* The variables keep their types: in particular no scan runs past the     *)
(* last counter.                                                           *)
THEOREM TypeCorrect == Spec => []TypeOK
<1>1. IInv => TypeOK
  BY DEF IInv
<1>2. QED
  BY <1>1, Invariance, PTL

(* However the updaters' unordered stores to acked_token interleave, it    *)
(* never runs ahead of a reader.                                           *)
THEOREM AckedTokenSound == Spec => []AckedSound
<1>1. IInv => AckedSound
  BY DEF IInv
<1>2. QED
  BY <1>1, Invariance, PTL

(* A granted token covers every older one: what was retired before an      *)
(* older token was drawn may be freed too.                                 *)
THEOREM GrantsCoverOlder == Spec => []GrantCoversOlder
<1>1. IInv => GrantCoversOlder
  <2> SUFFICES ASSUME IInv, NEW v \in granted, NEW u \in Tokens, u <= v
               PROVE  holders[u] = {}
    BY DEF GrantCoversOlder
  <2>1. ASSUME NEW r \in holders[u]
        PROVE  FALSE
    <3>1. v \in Nat /\ u \in Nat /\ r \in Readers /\ stored[r] \in Nat
      BY HolderIsReader DEF IInv, TypeOK, Tokens
    <3>2. stored[r] < u /\ v <= stored[r]
      BY <3>1 DEF IInv, HoldersUnreported, GrantedReached
    <3>3. QED
      BY <3>1, <3>2
  <2>2. QED
    BY <2>1
<1>2. QED
  BY <1>1, Invariance, PTL

-----------------------------------------------------------------------------
(* check_quiescent_state keeps its promise: the code's steps are steps of  *)
(* GracePeriod, under the mapping of Contract.                             *)

GPStatus == [v \in Tokens |-> IF v > current_token THEN "idle"
                              ELSE IF v \in granted THEN "granted"
                              ELSE "waiting"]

LEMMA InitRefines == Init => GP!Init
<1> SUFFICES ASSUME Init PROVE GP!Init
  OBVIOUS
<1>1. {r \in Readers : holding[r]} = {}
  BY DEF Init
<1>2. GPStatus = [v \in Tokens |-> "idle"]
  BY DEF Init, GPStatus, Tokens, FirstToken
<1>3. QED
  BY <1>1, <1>2 DEF Init, GP!Init, GPStatus

LEMMA BeginRefines ==
  ASSUME IInv, NEW t \in Updaters, NewToken(t), UNCHANGED <<holding, granted>>
  PROVE  \E u \in Tokens : GP!Begin(u)
<1>0. PICK u \in Tokens : u = current_token + 1
  BY MaxTokenAssumption DEF NewToken, IInv, TypeOK, Tokens
<1>1. u \notin granted /\ current_token \in Nat
  BY <1>0 DEF IInv, TypeOK, GrantedReached
<1>2. GPStatus[u] = "idle"
  BY <1>0, <1>1 DEF GPStatus
<1>3. \A v \in Tokens : GPStatus'[v] = IF v = u THEN "waiting" ELSE GPStatus[v]
  BY <1>0, <1>1 DEF GPStatus, NewToken, Tokens
<1>4. GPStatus' = [GPStatus EXCEPT ![u] = "waiting"]
  BY <1>3 DEF GPStatus
<1>5. GP!Begin(u)
  BY <1>0, <1>2, <1>4 DEF GP!Begin, GPStatus, NewToken
<1>6. QED
  BY <1>5

LEMMA GrantRefines ==
  ASSUME IInv, GrantedReached', NEW u \in Tokens, u <= current_token,
         granted' = granted \cup {u},
         UNCHANGED <<current_token, stored, holding, holders>>
  PROVE  GP!Grant(u) \/ UNCHANGED GP!vars
<1>1. CASE u \in granted
  <2>1. granted' = granted
    BY <1>1
  <2>2. QED
    BY <2>1 DEF GP!vars
<1>2. CASE u \notin granted
  <2>1. ASSUME NEW r \in holders[u]
        PROVE  FALSE
    <3>1. u \in Nat /\ r \in Readers /\ stored[r] \in Nat
      BY HolderIsReader DEF IInv
    <3>2. stored[r] < u /\ u <= stored[r]
      BY <3>1 DEF IInv, HoldersUnreported, GrantedReached
    <3>3. QED
      BY <3>1, <3>2
  <2>2. holders[u] = {}
    BY <2>1
  <2>3. GPStatus[u] = "waiting"
    BY <1>2 DEF GPStatus, IInv, TypeOK, Tokens
  <2>4. \A v \in Tokens : GPStatus'[v] = IF v = u THEN "granted" ELSE GPStatus[v]
    BY DEF GPStatus, IInv, TypeOK, Tokens
  <2>5. GPStatus' = [GPStatus EXCEPT ![u] = "granted"]
    BY <2>4 DEF GPStatus
  <2>6. QED
    BY <2>2, <2>3, <2>5 DEF GP!Grant, GPStatus
<1>3. QED
  BY <1>1, <1>2

LEMMA NextRefines == IInv /\ IInv' /\ [Next]_vars => [GP!Next]_(GP!vars)
<1> SUFFICES ASSUME IInv, IInv', [Next]_vars
             PROVE  GP!Next \/ UNCHANGED GP!vars
  OBVIOUS
<1>1. ASSUME NEW r \in Readers, Reader(r)
      PROVE  GP!Next \/ UNCHANGED GP!vars
  <2>1. CASE Acquire(r)
    <3>1. {x \in Readers : holding'[x]} = {x \in Readers : holding[x]} \cup {r}
      BY <2>1 DEF Acquire, IInv, TypeOK
    <3>2. GP!Enter(r)
      BY <2>1, <3>1 DEF Acquire, GP!Enter
    <3>3. QED
      BY <3>2 DEF GP!Next
  <2>2. CASE Release(r)
    <3>1. {x \in Readers : holding'[x]} = {x \in Readers : holding[x]} \ {r}
      BY <2>2 DEF Release, IInv, TypeOK
    <3>2. GP!Leave(r)
      BY <2>2, <3>1 DEF Release, GP!Leave
    <3>3. QED
      BY <3>2 DEF GP!Next
  <2>3. CASE LoadToken(r) \/ ReportToken(r) \/ Drain(r)
    BY <2>3 DEF LoadToken, ReportToken, Drain, GP!vars
  <2>4. QED
    BY <1>1, <2>1, <2>2, <2>3 DEF Reader
<1>2. ASSUME NEW t \in Updaters, Updater(t)
      PROVE  GP!Next \/ UNCHANGED GP!vars
  <2>1. CASE StartUpdate(t) \/ Synchronize(t)
    BY <2>1, BeginRefines DEF StartUpdate, Synchronize, GP!Next
  <2>2. CASE \E v \in Tokens, w \in BOOLEAN : CheckQuiescentState(t, v, w)
    BY <2>2 DEF CheckQuiescentState, GP!vars
  <2>3. CASE granted' = granted /\ CheckStep(t)
    BY <2>3 DEF CheckStep, LoadAcked, Scan, StoreAcked, GP!vars
  <2>4. CASE granted' # granted /\ CheckStep(t)
    <3>1. /\ pc[t] \in Checking /\ t \in Threads
          /\ granted' = granted \cup {call[t].tok}
          /\ UNCHANGED <<current_token, stored, holding, holders>>
      BY <2>4 DEF CheckStep, LoadAcked, Scan, StoreAcked, Checking, Threads
    <3>2. PICK u \in Tokens : u = call[t].tok /\ u <= current_token
      BY <3>1 DEF IInv, ChecksWellFormed
    <3>3. GP!Grant(u) \/ UNCHANGED GP!vars
      BY <3>1, <3>2, GrantRefines DEF IInv
    <3>4. QED
      BY <3>3 DEF GP!Next
  <2>5. QED
    BY <1>2, <2>1, <2>2, <2>3, <2>4 DEF Updater
<1>3. CASE UNCHANGED vars
  BY <1>3 DEF vars, GP!vars
<1>4. QED
  BY <1>1, <1>2, <1>3 DEF Next

(* The code implements the abstract grace period: a token is granted only  *)
(* when every reader that held a reference when its update began has       *)
(* dropped it.                                                             *)
THEOREM Refinement == Spec => Contract
<1>1. Spec => GP!Init /\ [][GP!Next]_(GP!vars)
  BY InitRefines, NextRefines, Invariance, PTL DEF Spec
<1>2. QED
  BY <1>1 DEF Contract, GP!Spec
=============================================================================
