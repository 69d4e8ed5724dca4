--------------------------- MODULE CfreaksRcuProofs ---------------------------
(***************************************************************************)
(* Theorems about CfreaksRcu, for any number of readers, any updaters, any *)
(* set of readers whose stores are delayed, sections nested to any depth   *)
(* and any number of calls.                                                *)
(*                                                                         *)
(* A reader's counters are the numbers of its tokens.  Of a reader in a    *)
(* section all that matters to the updaters is whether its count is in     *)
(* memory (Counted), the position of its outermost token (First) and the   *)
(* version at which it was counted (entered).                              *)
(***************************************************************************)
EXTENDS CfreaksRcu, FiniteSetTheorems, SequenceTheorems, TLAPS

(* How many of the tokens s name the position p.                           *)
Naming(s, p) == {i \in 1 .. Len(s) : s[i] = p}
Tokens(s, p) == Cardinality(Naming(s, p))

Counted(r) == Inside(r) /\ InMemory(r)
First(r)   == held[r][1]
InCall(u)  == pc[u] \in {"older", "overtaken", "flip", "younger", "outrun"}

(* The readers whom a call owes the promise: they were inside, and in      *)
(* memory, when it began, and have not left since.                         *)
Owed(u) == awaited[u] \ unseen[u]

(* The reader's own view of its counters is the count of its tokens.       *)
Counts == \A r \in Readers, p \in Positions : Load(r, p, r) = Tokens(held[r], p)

(* Only the outermost section can be one whose count is still delayed.     *)
Hidden == \A r \in Readers : Inside(r) /\ ~InMemory(r) => Len(held[r]) = 1

EnteredBefore == \A r \in Readers : entered[r] <= updater_version

(* What an updater in a call knows of the version, and of itself.          *)
CallsOutside ==
  \A u \in Updaters : InCall(u) =>
    /\ u \in Readers => ~Inside(u)
    /\ call[u].nxt \in Readers
    /\ call[u].ver <= updater_version
    /\ pc[u] \in {"younger", "outrun"} => call[u].ver < updater_version

(* As long as the version is the call's, the readers that the first scan   *)
(* passed were not in the next version's position, or have come since.     *)
OlderEmpty ==
  \A u \in Updaters, r \in Readers :
    /\ pc[u] = "flip" \/ (pc[u] = "older" /\ r < call[u].nxt)
    /\ call[u].ver = updater_version
    /\ Counted(r)
    /\ First(r) = Pos(updater_version + 1)
    => entered[r] = updater_version

(* Whom a call owes the promise is inside since before it began.           *)
OwedInside ==
  \A u \in Updaters : \A r \in Owed(u) :
    /\ Counted(r)
    /\ InCall(u) => entered[r] <= call[u].ver

(* The second scan has passed those it is not owed to.                     *)
YoungerEmpty ==
  \A u \in Updaters : \A r \in Owed(u) :
    pc[u] = "granted" \/ (pc[u] = "younger" /\ r < call[u].nxt) =>
      First(r) # Pos(call[u].ver)

(* A lone call is the only one, and the one that moves the version.        *)
LoneCall ==
  \A u \in Updaters : alone[u] /\ InCall(u) =>
    /\ \A v \in Updaters \ {u} : ~InCall(v)
    /\ updater_version = IF pc[u] \in {"younger", "outrun"} THEN call[u].ver + 1
                                                            ELSE call[u].ver
    /\ \A r \in Owed(u) :
         pc[u] \in {"flip", "younger", "outrun"} \/ (pc[u] = "older" /\ r < call[u].nxt) =>
           First(r) # Pos(call[u].ver + 1)

MemInv  == TypeOK /\ Counts /\ Hidden /\ EnteredBefore
CallInv == /\ CallsOutside /\ OlderEmpty /\ SectionSpan
           /\ OwedInside /\ YoungerEmpty /\ LoneCall /\ LoneCallGrace
IInv == MemInv /\ CallInv

-----------------------------------------------------------------------------
(* Counting tokens.                                                        *)

LEMMA PosType ==
  ASSUME NEW v \in Nat
  PROVE  Pos(v) \in Positions /\ Pos(v + 1) \in Positions /\ Pos(v) # Pos(v + 1)
BY DEF Pos, Positions

LEMMA TokensFinite ==
  ASSUME NEW s \in Seq(Positions), NEW p
  PROVE  /\ IsFiniteSet(Naming(s, p))
         /\ Tokens(s, p) \in Nat
         /\ Tokens(s, p) = 0 <=> Naming(s, p) = {}
<1>1. IsFiniteSet(1 .. Len(s))
  BY FS_Interval
<1>2. IsFiniteSet(Naming(s, p))
  BY <1>1, FS_Subset DEF Naming
<1>3. QED
  BY <1>2, FS_CardinalityType, FS_EmptySet DEF Tokens

LEMMA TokensNone ==
  ASSUME NEW p
  PROVE  Tokens(<<>>, p) = 0
<1>1. <<>> \in Seq(Positions) /\ Naming(<<>>, p) = {}
  BY DEF Naming
<1>2. QED
  BY <1>1, TokensFinite

(* A token is counted.                                                     *)
LEMMA TokensSome ==
  ASSUME NEW s \in Seq(Positions), NEW i \in 1 .. Len(s)
  PROVE  Tokens(s, s[i]) > 0
<1>1. i \in Naming(s, s[i])
  BY DEF Naming
<1>2. QED
  BY <1>1, TokensFinite

LEMMA TokensAppend ==
  ASSUME NEW s \in Seq(Positions), NEW q \in Positions, NEW p
  PROVE  Tokens(Append(s, q), p) = Tokens(s, p) + (IF p = q THEN 1 ELSE 0)
<1> DEFINE a == Append(s, q)
           n == Len(s)
           T == Naming(s, p)
           U == Naming(a, p)
<1>1. /\ n \in Nat /\ Len(a) = n + 1 /\ a[n + 1] = q
      /\ \A i \in 1 .. n : a[i] = s[i]
  OBVIOUS
<1>2. IsFiniteSet(T) /\ Cardinality(T) = Tokens(s, p) /\ Cardinality(T) \in Nat
  BY TokensFinite DEF Tokens
<1>3. Cardinality(U) = Tokens(a, p)
  BY DEF Tokens
<1>4. n + 1 \notin T
  BY <1>1 DEF Naming
<1>5. U = IF p = q THEN T \cup {n + 1} ELSE T
  <2> HIDE DEF a
  <2>1. QED
    BY <1>1 DEF Naming
<1> HIDE DEF a, n
<1> HIDE DEF T, U
<1>6. Cardinality(T \cup {n + 1}) = Cardinality(T) + 1
  BY <1>2, <1>4, FS_AddElement
<1>7. QED
  BY <1>2, <1>3, <1>5, <1>6 DEF a

(* The tokens without the last one.                                        *)
LEMMA TokensFront ==
  ASSUME NEW s \in Seq(Positions), s # <<>>, NEW p
  PROVE  /\ SubSeq(s, 1, Len(s) - 1) \in Seq(Positions)
         /\ Len(SubSeq(s, 1, Len(s) - 1)) = Len(s) - 1
         /\ s[Len(s)] \in Positions
         /\ \A i \in 1 .. Len(s) - 1 : SubSeq(s, 1, Len(s) - 1)[i] = s[i]
         /\ Tokens(SubSeq(s, 1, Len(s) - 1), p)
              = Tokens(s, p) - (IF p = s[Len(s)] THEN 1 ELSE 0)
<1> DEFINE f == SubSeq(s, 1, Len(s) - 1)
           q == s[Len(s)]
<1>1. Len(s) \in Nat /\ Len(s) >= 1 /\ q \in Positions
  OBVIOUS
<1>2. \A i \in 1 .. Len(s) - 1 : s[i] \in Positions
  OBVIOUS
<1>3. /\ f \in Seq(Positions) /\ Len(f) = Len(s) - 1
      /\ \A i \in 1 .. Len(s) - 1 : f[i] = s[i]
  <2>1. 1 \in Int /\ Len(s) - 1 \in Int
    BY <1>1
  <2>2. f \in Seq(Positions) /\ Len(f) = IF 1 <= Len(s) - 1 THEN (Len(s) - 1) - 1 + 1 ELSE 0
    BY <1>2, <2>1, SubSeqProperties
  <2>3. \A i \in 1 .. (Len(s) - 1) - 1 + 1 : f[i] = s[1 + i - 1]
    BY <1>2, <2>1, SubSeqProperties
  <2> DEFINE n == Len(s)
             l == Len(f)
  <2>4. n \in Nat /\ n >= 1 /\ l = IF 1 <= n - 1 THEN (n - 1) - 1 + 1 ELSE 0
    BY <1>1, <2>2
  <2> HIDE DEF f, l, n
  <2>5. l = n - 1
    BY <2>4
  <2>6. ASSUME NEW i \in 1 .. n - 1 PROVE f[i] = s[i]
    <3>1. i \in 1 .. (n - 1) - 1 + 1 /\ 1 + i - 1 = i
      BY <2>4
    <3>2. f[i] = s[1 + i - 1]
      BY <2>3, <3>1 DEF n
    <3>3. QED
      BY <3>1, <3>2
  <2>7. QED
    BY <2>2, <2>5, <2>6 DEF l, n
<1> HIDE DEF f
<1>4. s = Append(f, q)
  <2>1. Append(f, q) \in Seq(Positions) /\ Len(Append(f, q)) = Len(s)
    BY <1>1, <1>3
  <2>2. \A i \in 1 .. Len(s) : s[i] = Append(f, q)[i]
    BY <1>1, <1>3
  <2>3. QED
    BY <2>1, <2>2, SeqEqual
<1>5. Tokens(s, p) = Tokens(f, p) + (IF p = q THEN 1 ELSE 0)
  <2> HIDE DEF q
  <2>1. Tokens(Append(f, q), p) = Tokens(f, p) + (IF p = q THEN 1 ELSE 0)
    BY <1>1, <1>3, TokensAppend
  <2>2. QED
    BY <1>4, <2>1
<1>6. Tokens(f, p) \in Nat
  BY <1>3, TokensFinite
<1> HIDE DEF q
<1>7. Tokens(f, p) = Tokens(s, p) - (IF p = q THEN 1 ELSE 0)
  BY <1>5, <1>6
<1>8. QED
  BY <1>1, <1>3, <1>7 DEF f, q

-----------------------------------------------------------------------------
(* A reader's counters.                                                    *)

LEMMA OwnCounts ==
  ASSUME TypeOK, Counts, NEW r \in Readers
  PROVE  /\ \A p \in Positions : /\ Tokens(held[r], p) \in Nat
                                 /\ buffer[r] = <<>> => state[p][r] = Tokens(held[r], p)
         /\ Inside(r) => /\ Len(held[r]) \in Nat /\ Len(held[r]) >= 1
                         /\ First(r) \in Positions
                         /\ Tokens(held[r], First(r)) > 0
                         /\ buffer[r] = <<>> => InMemory(r)
<1>1. held[r] \in Seq(Positions)
  BY DEF TypeOK
<1>2. ASSUME NEW p \in Positions
      PROVE  /\ Tokens(held[r], p) \in Nat
             /\ buffer[r] = <<>> => state[p][r] = Tokens(held[r], p)
  BY <1>1, TokensFinite DEF Counts, Load
<1>3. ASSUME Inside(r)
      PROVE  /\ Len(held[r]) \in Nat /\ Len(held[r]) >= 1
             /\ First(r) \in Positions
             /\ Tokens(held[r], First(r)) > 0
  <2>1. Len(held[r]) \in Nat /\ Len(held[r]) >= 1 /\ 1 \in 1 .. Len(held[r])
    BY <1>1, <1>3 DEF Inside
  <2>2. held[r][1] \in Positions
    BY <1>1, <2>1
  <2>3. QED
    BY <1>1, <2>1, <2>2, TokensSome DEF First
<1>4. QED
  BY <1>2, <1>3 DEF InMemory, First

LEMMA StoreEffect ==
  ASSUME TypeOK, NEW r \in Readers, NEW p \in Positions, NEW n \in Nat, Store(r, p, n)
  PROVE  /\ buffer[r] = <<>>
         /\ updater_version' = updater_version
         /\ state' \in [Positions -> [Readers -> Nat]]
         /\ buffer' \in [Readers -> {<<>>} \cup (Positions \X Nat)]
         /\ \A q \in Positions : Load(r, q, r)' = IF q = p THEN n ELSE state[q][r]
         /\ \A q \in Positions : r \in Buffered => state'[q][r] = state[q][r]
         /\ r \notin Buffered => /\ buffer'[r] = <<>>
                                 /\ \A q \in Positions :
                                      state'[q][r] = IF q = p THEN n ELSE state[q][r]
         /\ \A s \in Readers \ {r} : /\ buffer'[s] = buffer[s]
                                     /\ \A q \in Positions : state'[q][s] = state[q][s]
<1>1. /\ buffer[r] = <<>> /\ updater_version' = updater_version
      /\ state \in [Positions -> [Readers -> Nat]]
      /\ buffer \in [Readers -> {<<>>} \cup (Positions \X Nat)]
  BY DEF Store, Drained, TypeOK
<1>2. CASE r \in Buffered
  <2>1. buffer' = [buffer EXCEPT ![r] = <<p, n>>] /\ state' = state
    BY <1>2 DEF Store
  <2>2. buffer'[r] = <<p, n>> /\ <<p, n>> # <<>>
    BY <1>1, <2>1
  <2>3. \A q \in Positions : Load(r, q, r)' = IF q = p THEN n ELSE state[q][r]
    BY <2>1, <2>2 DEF Load
  <2>4. QED
    BY <1>1, <1>2, <2>1, <2>3
<1>3. CASE r \notin Buffered
  <2>1. state' = [state EXCEPT ![p][r] = n] /\ buffer' = buffer
    BY <1>3 DEF Store
  <2>2. \A q \in Positions : /\ state'[q][r] = IF q = p THEN n ELSE state[q][r]
                             /\ \A s \in Readers \ {r} : state'[q][s] = state[q][s]
    BY <1>1, <2>1
  <2>3. state' \in [Positions -> [Readers -> Nat]]
    BY <1>1, <2>1
  <2>4. \A q \in Positions : Load(r, q, r)' = IF q = p THEN n ELSE state[q][r]
    BY <1>1, <2>1, <2>2 DEF Load
  <2>5. QED
    BY <1>1, <1>3, <2>1, <2>2, <2>3, <2>4
<1>4. QED
  BY <1>2, <1>3

-----------------------------------------------------------------------------
(* What one reader's step does to the sections.                            *)

OthersKept(r) ==
  \A s \in Readers \ {r} : /\ held'[s] = held[s] /\ buffer'[s] = buffer[s]
                           /\ entered'[s] = entered[s]
                           /\ \A q \in Positions : state'[q][s] = state[q][s]

Stays(r) == Counted(r)' /\ First(r)' = First(r) /\ entered'[r] = entered[r]
Comes(r) == Counted(r)' => entered'[r] = updater_version

LEMMA OthersStay ==
  ASSUME TypeOK, NEW r \in Readers, OthersKept(r), NEW s \in Readers \ {r}
  PROVE  /\ \A p \in Positions : Load(s, p, s)' = Load(s, p, s)
         /\ held'[s] = held[s]
         /\ (Inside(s)' <=> Inside(s)) /\ (Inside(s) => (InMemory(s)' <=> InMemory(s)))
         /\ Counted(s) => Stays(s)
         /\ ~Counted(s) => Comes(s)
<1>1. /\ held'[s] = held[s] /\ buffer'[s] = buffer[s] /\ entered'[s] = entered[s]
      /\ \A q \in Positions : state'[q][s] = state[q][s]
  BY DEF OthersKept
<1>2. \A p \in Positions : Load(s, p, s)' = Load(s, p, s)
  BY <1>1 DEF Load
<1>3. Inside(s)' <=> Inside(s)
  BY <1>1 DEF Inside
<1>4. Inside(s) => held[s][1] \in Positions
  BY DEF Inside, TypeOK
<1>5. QED
  BY <1>1, <1>2, <1>3, <1>4 DEF InMemory, Counted, First, Stays, Comes

(* Other readers' parts of the invariant follow.                           *)
LEMMA MemInvOfOne ==
  ASSUME MemInv, NEW r \in Readers, OthersKept(r), TypeOK', updater_version' = updater_version,
         \A p \in Positions : Load(r, p, r)' = Tokens(held'[r], p),
         Inside(r)' /\ ~InMemory(r)' => Len(held'[r]) = 1,
         entered'[r] \in {0, updater_version, entered[r]}
  PROVE  MemInv'
<1> USE DEF MemInv
<1>1. Counts'
  BY OthersStay DEF Counts
<1>2. Hidden'
  BY OthersStay DEF Hidden
<1>3. EnteredBefore'
  <2>1. updater_version \in Nat /\ entered[r] <= updater_version
    BY DEF EnteredBefore, TypeOK
  <2>2. entered'[r] <= updater_version
    BY <2>1
  <2>3. \A s \in Readers \ {r} : entered'[s] <= updater_version
    BY DEF EnteredBefore, OthersKept
  <2>4. QED
    BY <2>2, <2>3 DEF EnteredBefore
<1>4. QED
  BY <1>1, <1>2, <1>3

LEMMA EnterEffect ==
  ASSUME MemInv, NEW r \in Readers, Enter(r)
  PROVE  /\ MemInv' /\ OthersKept(r)
         /\ Counted(r) => Stays(r)
         /\ ~Counted(r) => Comes(r)
<1> USE DEF MemInv
<1> DEFINE p == Pos(call[r].ver)
           n == Load(r, p, r)
<1>1. r \in Threads /\ call[r].ver \in Nat /\ p \in Positions
  BY PosType DEF Threads, TypeOK
<1>2. held[r] \in Seq(Positions) /\ n = Tokens(held[r], p) /\ n \in Nat
  BY <1>1, OwnCounts DEF Counts, TypeOK
<1>3. Store(r, p, n + 1)
  BY DEF Enter
<1> HIDE DEF n
<1>4. /\ buffer[r] = <<>>
      /\ updater_version' = updater_version
      /\ state' \in [Positions -> [Readers -> Nat]]
      /\ buffer' \in [Readers -> {<<>>} \cup (Positions \X Nat)]
      /\ \A q \in Positions : Load(r, q, r)' = IF q = p THEN n + 1 ELSE state[q][r]
      /\ \A q \in Positions : r \in Buffered => state'[q][r] = state[q][r]
      /\ r \notin Buffered => \A q \in Positions :
           state'[q][r] = IF q = p THEN n + 1 ELSE state[q][r]
      /\ \A s \in Readers \ {r} : /\ buffer'[s] = buffer[s]
                                  /\ \A q \in Positions : state'[q][s] = state[q][s]
  BY <1>1, <1>2, <1>3, StoreEffect
<1>5. /\ held' = [held EXCEPT ![r] = Append(held[r], p)]
      /\ held'[r] = Append(held[r], p)
      /\ \A s \in Readers \ {r} : held'[s] = held[s]
      /\ Append(held[r], p) \in Seq(Positions)
  BY <1>1, <1>2 DEF Enter, TypeOK
<1>6. /\ entered' = IF ~Inside(r) /\ r \notin Buffered
                    THEN [entered EXCEPT ![r] = updater_version] ELSE entered
      /\ entered' \in [Readers -> Nat]
      /\ \A s \in Readers \ {r} : entered'[s] = entered[s]
      /\ entered'[r] = IF ~Inside(r) /\ r \notin Buffered THEN updater_version ELSE entered[r]
  BY DEF Enter, Arrives, TypeOK
<1>7. TypeOK'
  <2>1. held' \in [Readers -> Seq(Positions)]
    BY <1>5 DEF TypeOK
  <2>2. /\ pc' \in [Threads -> {"idle", "granted", "enter", "older", "overtaken",
                                "flip", "younger", "outrun"}]
        /\ call' \in [Threads -> [ver : Nat, wait : BOOLEAN, nxt : 0 .. NumThreads]]
    <3>1. NoCall \in [ver : Nat, wait : BOOLEAN, nxt : 0 .. NumThreads]
      BY NumThreadsAssumption DEF NoCall
    <3>2. pc' = [pc EXCEPT ![r] = "idle"] /\ call' = [call EXCEPT ![r] = NoCall]
      BY DEF Enter
    <3>3. QED
      BY <3>1, <3>2 DEF TypeOK
  <2>3. awaited' = awaited /\ unseen' = unseen /\ alone' = alone
    BY DEF Enter
  <2>4. QED
    BY <1>4, <1>6, <2>1, <2>2, <2>3 DEF TypeOK
<1>8. OthersKept(r)
  BY <1>4, <1>5, <1>6 DEF OthersKept
<1>9. \A q \in Positions : state[q][r] = Tokens(held[r], q)
  BY <1>4, OwnCounts
<1>10. \A q \in Positions : Load(r, q, r)' = Tokens(held'[r], q)
  <2> SUFFICES ASSUME NEW q \in Positions PROVE Load(r, q, r)' = Tokens(held'[r], q)
    OBVIOUS
  <2>1. Tokens(held'[r], q) = Tokens(held[r], q) + (IF q = p THEN 1 ELSE 0)
    BY <1>1, <1>2, <1>5, TokensAppend
  <2>2. Tokens(held[r], q) \in Nat
    BY <1>2, TokensFinite
  <2>3. QED
    <3>1. CASE q = p
      BY <1>1, <1>2, <1>4, <2>1, <3>1
    <3>2. CASE q # p
      <4>1. Load(r, q, r)' = state[q][r]
        BY <1>4, <3>2
      <4>2. state[q][r] = Tokens(held[r], q)
        BY <1>9
      <4>3. Tokens(held'[r], q) = Tokens(held[r], q)
        BY <2>1, <2>2, <3>2
      <4>4. QED
        BY <4>1, <4>2, <4>3
    <3>3. QED
      BY <3>1, <3>2
<1>11. Inside(r) => InMemory(r) /\ InMemory(r)' /\ Stays(r)
  <2>1. ASSUME Inside(r)
        PROVE  First(r) \in Positions /\ InMemory(r) /\ First(r)' = First(r)
               /\ Inside(r)'
    <3>1. First(r) \in Positions /\ InMemory(r) /\ Len(held[r]) >= 1 /\ Len(held[r]) \in Nat
      BY <1>4, <2>1, OwnCounts
    <3>2. Append(held[r], p)[1] = held[r][1] /\ Append(held[r], p) # <<>>
      BY <1>1, <1>2, <3>1, AppendProperties
    <3>3. QED
      BY <1>5, <3>1, <3>2 DEF First, Inside
  <2>2. ASSUME Inside(r)
        PROVE  state'[First(r)][r] >= state[First(r)][r] /\ state[First(r)][r] \in Nat
    <3>1. First(r) \in Positions
      BY <2>1, <2>2
    <3>2. state[First(r)][r] = Tokens(held[r], First(r))
      BY <1>9, <3>1
    <3>3. CASE First(r) = p
      BY <1>2, <1>4, <3>1, <3>2, <3>3
    <3>4. CASE First(r) # p
      BY <1>4, <3>1, <3>2, <3>4, OwnCounts
    <3>5. QED
      BY <3>3, <3>4
  <2>3. ASSUME Inside(r) PROVE InMemory(r)' /\ Stays(r)
    <3>1. state'[First(r)][r] > 0
      <4>1. state[First(r)][r] > 0
        BY <2>1, <2>3 DEF InMemory, First
      <4>2. state'[First(r)][r] \in Nat
        BY <1>4, <2>1, <2>3
      <4>3. QED
        BY <2>2, <2>3, <4>1, <4>2
    <3>2. InMemory(r)'
      BY <2>1, <2>3, <3>1 DEF InMemory, First
    <3>3. QED
      BY <1>6, <2>1, <2>3, <3>2 DEF Stays, Counted
  <2>4. QED
    BY <2>1, <2>3
<1>12. ~Inside(r) => Len(held'[r]) = 1
  BY <1>2, <1>5 DEF Inside
<1>13. ~Inside(r) => Comes(r)
  <2> SUFFICES ASSUME ~Inside(r), Counted(r)' PROVE entered'[r] = updater_version
    BY DEF Comes
  <2>1. held'[r][1] = p
    BY <1>1, <1>5 DEF Inside
  <2>2. r \in Buffered => state'[p][r] = 0
    BY <1>1, <1>4, <1>9, TokensNone DEF Inside
  <2>3. QED
    BY <1>1, <1>6, <2>1, <2>2 DEF Counted, InMemory
<1>14. MemInv'
  BY <1>4, <1>6, <1>7, <1>8, <1>10, <1>11, <1>12, MemInvOfOne
<1>15. QED
  BY <1>8, <1>11, <1>13, <1>14 DEF Counted

LEMMA ReadUnlockEffect ==
  ASSUME MemInv, NEW r \in Readers, ReadUnlock(r)
  PROVE  /\ MemInv' /\ OthersKept(r)
         /\ Counted(r)
         /\ Stays(r) \/ ~Counted(r)'
         /\ IF Len(held[r]) = 1
            THEN /\ ~Inside(r)'
                 /\ awaited' = [u \in Updaters |-> awaited[u] \ {r}]
                 /\ unseen' = [u \in Updaters |-> unseen[u] \ {r}]
            ELSE Stays(r) /\ awaited' = awaited /\ unseen' = unseen
<1> USE DEF MemInv
<1> DEFINE p == PositionOfToken(r)
           n == Load(r, p, r)
<1>1. /\ held[r] \in Seq(Positions) /\ held[r] # <<>> /\ Inside(r)
      /\ Len(held[r]) \in Nat /\ Len(held[r]) >= 1
      /\ p \in Positions /\ p = held[r][Len(held[r])]
  BY DEF TypeOK, ReadUnlock, Inside, PositionOfToken
<1>2. n = Tokens(held[r], p) /\ n \in Nat /\ n > 0
  <2>1. n = Tokens(held[r], p)
    BY <1>1 DEF Counts
  <2>2. Len(held[r]) \in 1 .. Len(held[r])
    BY <1>1
  <2>3. Tokens(held[r], held[r][Len(held[r])]) > 0
    BY <1>1, <2>2, TokensSome
  <2>4. QED
    BY <1>1, <2>1, <2>3, TokensFinite
<1>3. Store(r, p, n - 1)
  BY DEF ReadUnlock
<1> HIDE DEF n
<1>4. /\ buffer[r] = <<>>
      /\ updater_version' = updater_version
      /\ state' \in [Positions -> [Readers -> Nat]]
      /\ buffer' \in [Readers -> {<<>>} \cup (Positions \X Nat)]
      /\ \A q \in Positions : Load(r, q, r)' = IF q = p THEN n - 1 ELSE state[q][r]
      /\ \A q \in Positions : r \in Buffered => state'[q][r] = state[q][r]
      /\ r \notin Buffered => /\ buffer'[r] = <<>>
                              /\ \A q \in Positions :
                                   state'[q][r] = IF q = p THEN n - 1 ELSE state[q][r]
      /\ \A s \in Readers \ {r} : /\ buffer'[s] = buffer[s]
                                  /\ \A q \in Positions : state'[q][s] = state[q][s]
  <2>1. n - 1 \in Nat
    BY <1>2
  <2>2. QED
    BY <1>1, <1>3, <2>1, StoreEffect
<1>5. /\ held'[r] = SubSeq(held[r], 1, Len(held[r]) - 1)
      /\ \A s \in Readers \ {r} : held'[s] = held[s]
      /\ held'[r] \in Seq(Positions)
      /\ held' \in [Readers -> Seq(Positions)]
      /\ Len(held'[r]) = Len(held[r]) - 1
      /\ \A i \in 1 .. Len(held[r]) - 1 : held'[r][i] = held[r][i]
      /\ \A q \in Positions :
           Tokens(held'[r], q) = Tokens(held[r], q) - (IF q = p THEN 1 ELSE 0)
  <2>1. held' = [held EXCEPT ![r] = SubSeq(held[r], 1, Len(held[r]) - 1)]
    BY DEF ReadUnlock
  <2>2. held'[r] = SubSeq(held[r], 1, Len(held[r]) - 1)
    BY <2>1 DEF TypeOK
  <2>3. held'[r] \in Seq(Positions)
    BY <1>1, <2>2, TokensFront
  <2>4. \A q \in Positions :
           Tokens(held'[r], q) = Tokens(held[r], q) - (IF q = p THEN 1 ELSE 0)
    BY <1>1, <2>2, TokensFront
  <2>5. /\ Len(held'[r]) = Len(held[r]) - 1
        /\ \A i \in 1 .. Len(held[r]) - 1 : held'[r][i] = held[r][i]
    BY <1>1, <2>2, TokensFront
  <2>6. QED
    BY <2>1, <2>2, <2>3, <2>4, <2>5 DEF TypeOK
<1>6. /\ Len(held[r]) = 1 => entered'[r] = 0
      /\ Len(held[r]) # 1 => entered'[r] = entered[r]
      /\ entered' \in [Readers -> Nat]
      /\ \A s \in Readers \ {r} : entered'[s] = entered[s]
  <2>1. CASE Len(held[r]) = 1
    <3>1. entered' = [entered EXCEPT ![r] = 0]
      BY <2>1 DEF ReadUnlock
    <3>2. QED
      BY <2>1, <3>1 DEF TypeOK
  <2>2. CASE Len(held[r]) # 1
    <3>1. entered' = entered
      BY <2>2 DEF ReadUnlock
    <3>2. QED
      BY <2>2, <3>1 DEF TypeOK
  <2>3. QED
    BY <2>1, <2>2
<1>7. TypeOK'
  <2>1. awaited' \in [Updaters -> SUBSET Readers] /\ unseen' \in [Updaters -> SUBSET Readers]
    <3>1. CASE Len(held[r]) = 1
      <4>1. /\ awaited' = [u \in Updaters |-> awaited[u] \ {r}]
            /\ unseen' = [u \in Updaters |-> unseen[u] \ {r}]
        BY <3>1 DEF ReadUnlock
      <4>2. QED
        BY <4>1 DEF TypeOK
    <3>2. CASE Len(held[r]) # 1
      BY <3>2 DEF ReadUnlock, TypeOK
    <3>3. QED
      BY <3>1, <3>2
  <2>2. pc' = pc /\ call' = call /\ alone' = alone
    BY DEF ReadUnlock
  <2>3. QED
    BY <1>4, <1>5, <1>6, <2>1, <2>2 DEF TypeOK
<1>8. OthersKept(r)
  BY <1>4, <1>5, <1>6 DEF OthersKept
<1>9. \A q \in Positions : state[q][r] = Tokens(held[r], q) /\ Tokens(held[r], q) \in Nat
  BY <1>4, OwnCounts
<1> HIDE DEF p
<1>10. \A q \in Positions : Load(r, q, r)' = Tokens(held'[r], q)
  <2> SUFFICES ASSUME NEW q \in Positions PROVE Load(r, q, r)' = Tokens(held'[r], q)
    OBVIOUS
  <2>1. /\ Load(r, q, r)' = IF q = p THEN n - 1 ELSE state[q][r]
        /\ Tokens(held'[r], q) = Tokens(held[r], q) - (IF q = p THEN 1 ELSE 0)
        /\ state[q][r] = Tokens(held[r], q) /\ Tokens(held[r], q) \in Nat
        /\ n = Tokens(held[r], p)
    BY <1>2, <1>4, <1>5, <1>9
  <2>2. QED
    BY <2>1
<1>11. Counted(r) /\ First(r) \in Positions
  BY <1>1, <1>4, OwnCounts DEF Counted
<1>12. ASSUME Len(held[r]) # 1
       PROVE  Inside(r)' /\ InMemory(r)' /\ Stays(r)
  <2>1. /\ 1 \in 1 .. Len(held[r]) - 1 /\ Len(held'[r]) >= 1 /\ 1 \in 1 .. Len(held'[r])
        /\ held'[r][1] = held[r][1] /\ held'[r] # <<>>
    <3>1. Len(held[r]) \in Nat /\ Len(held[r]) >= 2
      <4> DEFINE k == Len(held[r])
      <4>1. k \in Nat /\ k >= 1 /\ k # 1
        BY <1>1, <1>12
      <4> HIDE DEF k
      <4>2. k >= 2
        BY <4>1
      <4>3. QED
        BY <4>1, <4>2 DEF k
    <3>2. 1 \in 1 .. Len(held[r]) - 1 /\ 1 \in 1 .. Len(held'[r]) /\ Len(held'[r]) >= 1
      BY <1>5, <3>1
    <3>3. held'[r] # <<>>
      BY <3>2
    <3>4. QED
      BY <1>5, <3>2, <3>3
  <2>2. First(r)' = First(r) /\ Inside(r)'
    BY <2>1 DEF First, Inside
  <2>3. state'[First(r)][r] > 0
    <3>1. CASE r \in Buffered
      BY <1>4, <1>11, <3>1 DEF Counted, InMemory, First
    <3>2. CASE r \notin Buffered
      <4>1. Tokens(held'[r], held'[r][1]) > 0
        BY <1>5, <2>1, TokensSome
      <4>2. \A q \in Positions : state'[q][r] = Tokens(held'[r], q)
        BY <1>4, <1>10, <3>2
      <4>3. QED
        BY <1>11, <2>1, <4>1, <4>2 DEF First
    <3>3. QED
      BY <3>1, <3>2
  <2>4. InMemory(r)'
    BY <2>2, <2>3 DEF InMemory, First
  <2>5. QED
    BY <1>6, <1>12, <2>2, <2>4 DEF Stays, Counted
<1>13. ASSUME Len(held[r]) = 1
       PROVE  ~Inside(r)'
  BY <1>5, <1>13 DEF Inside
<1>14. MemInv'
  BY <1>4, <1>6, <1>7, <1>8, <1>10, <1>12, <1>13, MemInvOfOne
<1>15. QED
  <2>1. CASE Len(held[r]) = 1
    BY <1>8, <1>11, <1>13, <1>14, <2>1 DEF ReadUnlock, Counted
  <2>2. CASE Len(held[r]) # 1
    BY <1>8, <1>11, <1>12, <1>14, <2>2 DEF ReadUnlock, Counted
  <2>3. QED
    BY <2>1, <2>2

LEMMA DrainEffect ==
  ASSUME MemInv, NEW r \in Readers, Drain(r)
  PROVE  /\ MemInv' /\ OthersKept(r)
         /\ ~Counted(r) => Comes(r)
         /\ Counted(r) => Stays(r)
<1> USE DEF MemInv
<1> DEFINE p == buffer[r][1]
           n == buffer[r][2]
<1>1. buffer[r] # <<>> /\ p \in Positions /\ n \in Nat
  BY DEF Drain, Drained, TypeOK
<1>2. n = Tokens(held[r], p) /\ \A q \in Positions \ {p} : state[q][r] = Tokens(held[r], q)
  BY <1>1 DEF Counts, Load
<1> HIDE DEF n
<1>3. /\ state' \in [Positions -> [Readers -> Nat]]
      /\ buffer' \in [Readers -> {<<>>} \cup (Positions \X Nat)]
      /\ buffer'[r] = <<>>
      /\ \A q \in Positions : state'[q][r] = IF q = p THEN n ELSE state[q][r]
      /\ \A s \in Readers \ {r} : /\ buffer'[s] = buffer[s]
                                  /\ \A q \in Positions : state'[q][s] = state[q][s]
  <2>1. state' = [state EXCEPT ![p][r] = n] /\ buffer' = [buffer EXCEPT ![r] = <<>>]
    BY DEF Drain, n
  <2>2. QED
    BY <1>1, <2>1 DEF TypeOK
<1>4. held' = held /\ updater_version' = updater_version
  BY DEF Drain
<1>5. \A q \in Positions : state'[q][r] = Tokens(held[r], q)
  BY <1>1, <1>2, <1>3
<1>6. /\ entered' \in [Readers -> Nat]
      /\ \A s \in Readers \ {r} : entered'[s] = entered[s]
      /\ entered'[r] = IF Len(held[r]) = 1 /\ ~InMemory(r) THEN updater_version ELSE entered[r]
  BY DEF Drain, Arrives, TypeOK
<1>7. TypeOK'
  BY <1>3, <1>4, <1>6 DEF Drain, TypeOK
<1>8. OthersKept(r)
  BY <1>3, <1>4, <1>6 DEF OthersKept
<1>9. \A q \in Positions : Load(r, q, r)' = Tokens(held'[r], q)
  BY <1>3, <1>4, <1>5 DEF Load
<1>10. Inside(r) => Inside(r)' /\ InMemory(r)' /\ First(r)' = First(r)
  BY <1>4, <1>5, OwnCounts DEF Inside, InMemory, First
<1>11. Inside(r)' => Inside(r)
  BY <1>4 DEF Inside
<1>12. MemInv'
  BY <1>4, <1>6, <1>7, <1>8, <1>9, <1>10, <1>11, MemInvOfOne
<1>13. Counted(r) => Stays(r)
  BY <1>6, <1>10 DEF Counted, Stays
<1>14. ~Counted(r) => Comes(r)
  BY <1>6, <1>11 DEF Counted, Comes, Hidden
<1>15. QED
  BY <1>8, <1>12, <1>13, <1>14

-----------------------------------------------------------------------------
(* A reader's step, and a call that gives up, leave true what the calls    *)
(* have found: a section that is counted stays as it is or ends, and one   *)
(* that is new to the memory has the present version.                      *)

SectionStep ==
  /\ updater_version' = updater_version
  /\ \A q \in Readers : (Counted(q) /\ Stays(q)) \/ Comes(q)
  /\ \A u \in Updaters :
       /\ alone'[u] => alone[u]
       /\ \A q \in Owed(u)' : q \in Owed(u) /\ Stays(q)
       /\ \/ /\ pc'[u] = pc[u] /\ call'[u] = call[u]
             /\ u \in Readers /\ InCall(u) => held'[u] = held[u]
          \/ ~InCall(u)' /\ pc'[u] # "granted"

LEMMA SectionStepCallInv ==
  ASSUME TypeOK, TypeOK', CallInv, SectionStep
  PROVE  CallInv'
<1> USE DEF CallInv, SectionStep
<1>1. ASSUME NEW u \in Updaters
      PROVE  /\ (InCall(u)' => InCall(u) /\ pc'[u] = pc[u] /\ call'[u] = call[u])
             /\ (~InCall(u) => ~InCall(u)')
             /\ (pc'[u] = "granted" => pc[u] = "granted" /\ call'[u] = call[u])
             /\ (\A q \in Owed(u)' : q \in Owed(u) /\ Stays(q))
             /\ alone'[u] => alone[u]
  BY DEF InCall
<1>2. CallsOutside'
  <2> SUFFICES ASSUME NEW u \in Updaters, InCall(u)'
               PROVE  /\ u \in Readers => ~Inside(u)'
                      /\ call'[u].nxt \in Readers
                      /\ call'[u].ver <= updater_version
                      /\ pc'[u] \in {"younger", "outrun"} => call'[u].ver < updater_version
    BY DEF CallsOutside
  <2>1. InCall(u) /\ pc'[u] = pc[u] /\ call'[u] = call[u]
    BY <1>1
  <2>2. u \in Readers => held'[u] = held[u]
    BY <2>1
  <2>3. QED
    BY <2>1, <2>2 DEF CallsOutside, Inside
<1>3. OlderEmpty'
  <2> SUFFICES ASSUME NEW u \in Updaters, NEW r \in Readers,
                      pc'[u] = "flip" \/ (pc'[u] = "older" /\ r < call'[u].nxt),
                      call'[u].ver = updater_version, Counted(r)',
                      First(r)' = Pos(updater_version + 1)
               PROVE  entered'[r] = updater_version
    BY DEF OlderEmpty
  <2>1. pc'[u] = pc[u] /\ call'[u] = call[u]
    BY <1>1 DEF InCall
  <2>2. QED
    BY <2>1 DEF OlderEmpty, Stays, Comes
<1>4. SectionSpan'
  <2> SUFFICES ASSUME NEW r \in Readers, Counted(r)'
               PROVE  updater_version <=
                        entered'[r] + (IF First(r)' = Pos(entered'[r]) THEN 1 ELSE 2)
    BY DEF SectionSpan, Counted, First
  <2>1. CASE Counted(r) /\ Stays(r)
    BY <2>1 DEF Stays, SectionSpan, Counted, First
  <2>2. CASE entered'[r] = updater_version
    BY <2>2 DEF TypeOK
  <2>3. QED
    BY <2>1, <2>2 DEF Comes
<1>5. OwedInside'
  BY <1>1 DEF OwedInside, Stays
<1>6. YoungerEmpty'
  BY <1>1 DEF YoungerEmpty, Stays, InCall
<1>7. LoneCall'
  <2> SUFFICES ASSUME NEW u \in Updaters, alone'[u], InCall(u)'
               PROVE  /\ \A v \in Updaters \ {u} : ~InCall(v)'
                      /\ updater_version = IF pc'[u] \in {"younger", "outrun"}
                                           THEN call'[u].ver + 1 ELSE call'[u].ver
                      /\ \A r \in Owed(u)' :
                           \/ pc'[u] \in {"flip", "younger", "outrun"}
                           \/ pc'[u] = "older" /\ r < call'[u].nxt
                           => First(r)' # Pos(call'[u].ver + 1)
    BY DEF LoneCall
  <2>1. InCall(u) /\ pc'[u] = pc[u] /\ call'[u] = call[u] /\ alone[u]
    BY <1>1
  <2>2. \A v \in Updaters \ {u} : ~InCall(v)'
    BY <1>1, <2>1 DEF LoneCall
  <2>3. QED
    BY <1>1, <2>1, <2>2 DEF LoneCall, Stays
<1>8. LoneCallGrace'
  <2> SUFFICES ASSUME NEW u \in Updaters, pc'[u] = "granted", alone'[u]
               PROVE  Owed(u)' = {}
    BY DEF LoneCallGrace, Owed
  <2>1. pc[u] = "granted" /\ alone[u]
    BY <1>1
  <2>2. QED
    BY <1>1, <2>1 DEF LoneCallGrace, Owed
<1>9. QED
  BY <1>2, <1>3, <1>4, <1>5, <1>6, <1>7, <1>8

(* A reader that was counted as inside and is still owed has not left.     *)
LEMMA ReaderIInv ==
  ASSUME IInv, NEW r \in Readers, Reader(r)
  PROVE  IInv'
<1> USE DEF IInv, MemInv
<1>1. r \in Threads
  BY DEF Threads
<1>2. CASE ReadLock(r)
  <2>1. /\ UNCHANGED <<memory, held, ghosts>>
        /\ pc' = [pc EXCEPT ![r] = "enter"]
        /\ call' = [call EXCEPT ![r] = [NoCall EXCEPT !.ver = updater_version]]
        /\ Resting(r)
    BY <1>2 DEF ReadLock
  <2>2. TypeOK'
    <3>1. NoCall \in [ver : Nat, wait : BOOLEAN, nxt : 0 .. NumThreads]
      BY NumThreadsAssumption DEF NoCall
    <3>2. [NoCall EXCEPT !.ver = updater_version]
            \in [ver : Nat, wait : BOOLEAN, nxt : 0 .. NumThreads]
      BY <3>1 DEF TypeOK
    <3>3. QED
      BY <1>1, <2>1, <3>2 DEF TypeOK, memory, ghosts
  <2>3. MemInv'
    BY <2>1, <2>2 DEF Counts, Hidden, EnteredBefore, Load, Inside, InMemory, memory, ghosts
  <2>4. \A q \in Readers : (Counted(q) /\ Stays(q)) \/ Comes(q)
    BY <2>1 DEF Counted, Stays, Comes, Inside, InMemory, First, memory, ghosts
  <2>5. \A u \in Updaters : \A q \in Owed(u)' : q \in Owed(u) /\ Stays(q)
    BY <2>1 DEF CallInv, OwedInside, Owed, Counted, Stays, Inside, InMemory, First, memory,
       ghosts
  <2>6. \A u \in Updaters :
           \/ pc'[u] = pc[u] /\ call'[u] = call[u]
           \/ ~InCall(u) /\ ~InCall(u)' /\ pc'[u] # "granted"
    BY <1>1, <2>1 DEF InCall, Resting, TypeOK, Threads
  <2>7. SectionStep
    BY <2>1, <2>4, <2>5, <2>6 DEF SectionStep, memory, ghosts
  <2>8. QED
    BY <2>2, <2>3, <2>7, SectionStepCallInv
<1>3. CASE Enter(r)
  <2>1. /\ MemInv' /\ OthersKept(r)
        /\ Counted(r) => Stays(r)
        /\ ~Counted(r) => Comes(r)
    BY <1>3, EnterEffect
  <2>2. \A q \in Readers : (Counted(q) => Stays(q)) /\ (~Counted(q) => Comes(q))
    BY <2>1, OthersStay
  <2>3. /\ updater_version' = updater_version /\ alone' = alone
        /\ awaited' = awaited /\ unseen' = unseen
        /\ pc[r] = "enter" /\ pc' = [pc EXCEPT ![r] = "idle"]
        /\ call' = [call EXCEPT ![r] = NoCall]
    BY <1>3 DEF Enter, Store
  <2>4. \A u \in Updaters : \A q \in Owed(u)' : q \in Owed(u) /\ Stays(q)
    BY <2>2, <2>3 DEF CallInv, OwedInside, Owed, TypeOK
  <2>5. \A u \in Updaters :
           \/ /\ pc'[u] = pc[u] /\ call'[u] = call[u]
              /\ u \in Readers /\ InCall(u) => held'[u] = held[u]
           \/ ~InCall(u) /\ ~InCall(u)' /\ pc'[u] # "granted"
    BY <1>1, <2>1, <2>3 DEF InCall, TypeOK, Threads, OthersKept
  <2>6. SectionStep
    BY <2>2, <2>3, <2>4, <2>5 DEF SectionStep
  <2>7. QED
    BY <2>1, <2>6, SectionStepCallInv
<1>4. CASE ReadUnlock(r)
  <2>1. /\ MemInv' /\ OthersKept(r)
        /\ Counted(r)
        /\ Stays(r) \/ ~Counted(r)'
        /\ IF Len(held[r]) = 1
           THEN /\ ~Inside(r)'
                /\ awaited' = [u \in Updaters |-> awaited[u] \ {r}]
                /\ unseen' = [u \in Updaters |-> unseen[u] \ {r}]
           ELSE Stays(r) /\ awaited' = awaited /\ unseen' = unseen
    BY <1>4, ReadUnlockEffect
  <2>2. \A q \in Readers \ {r} : (Counted(q) => Stays(q)) /\ (~Counted(q) => Comes(q))
    BY <2>1, OthersStay
  <2>3. /\ updater_version' = updater_version /\ alone' = alone
        /\ Resting(r) /\ pc' = pc /\ call' = call
    BY <1>4 DEF ReadUnlock, Store
  <2>4. ASSUME NEW u \in Updaters, NEW q \in Owed(u)'
        PROVE  q \in Owed(u) /\ Stays(q)
    <3>1. q \in Owed(u)
      BY <2>1, <2>4 DEF Owed
    <3>2. q \in Readers /\ Counted(q)
      BY <3>1 DEF CallInv, OwedInside, Owed, TypeOK
    <3>3. CASE q = r
      <4>1. Len(held[r]) = 1 => awaited'[u] = awaited[u] \ {r}
        BY <2>1
      <4>2. r \in awaited'[u]
        BY <2>4, <3>3 DEF Owed
      <4>3. Len(held[r]) # 1
        BY <4>1, <4>2
      <4>4. QED
        BY <2>1, <3>1, <3>3, <4>3
    <3>4. CASE q # r
      BY <2>2, <3>1, <3>2, <3>4
    <3>5. QED
      BY <3>1, <3>3, <3>4
  <2>5. \A u \in Updaters : u \in Readers /\ InCall(u) => held'[u] = held[u]
    BY <2>1, <2>3 DEF InCall, Resting, OthersKept
  <2>6. \A q \in Readers : (Counted(q) /\ Stays(q)) \/ Comes(q)
    BY <2>1, <2>2 DEF Comes
  <2>7. SectionStep
    BY <2>3, <2>4, <2>5, <2>6 DEF SectionStep
  <2>8. QED
    BY <2>1, <2>7, SectionStepCallInv
<1>5. CASE Drain(r)
  <2>1. /\ MemInv' /\ OthersKept(r)
        /\ Counted(r) => Stays(r)
        /\ ~Counted(r) => Comes(r)
    BY <1>5, DrainEffect
  <2>2. \A q \in Readers : (Counted(q) => Stays(q)) /\ (~Counted(q) => Comes(q))
    BY <2>1, OthersStay
  <2>3. UNCHANGED <<updater_version, held, pc, call, awaited, unseen, alone>>
    BY <1>5 DEF Drain
  <2>4. \A u \in Updaters : \A q \in Owed(u)' : q \in Owed(u) /\ Stays(q)
    BY <2>2, <2>3 DEF CallInv, OwedInside, Owed, TypeOK
  <2>5. SectionStep
    BY <2>2, <2>3, <2>4 DEF SectionStep
  <2>6. QED
    BY <2>1, <2>5, SectionStepCallInv
<1>6. QED
  BY <1>2, <1>3, <1>4, <1>5 DEF Reader

-----------------------------------------------------------------------------
(* The steps of a call.  They leave the sections alone.                    *)

SectionsSame == state' = state /\ buffer' = buffer /\ held' = held /\ entered' = entered

LEMMA SectionsSameMemInv ==
  ASSUME MemInv, SectionsSame, TypeOK', updater_version' \in {updater_version, updater_version + 1}
  PROVE  /\ MemInv'
         /\ \A r \in Readers : /\ Counted(r)' <=> Counted(r)
                               /\ First(r)' = First(r)
                               /\ Inside(r)' <=> Inside(r)
<1> USE DEF MemInv, SectionsSame
<1>1. Counts' /\ Hidden'
  BY DEF Counts, Hidden, Load, Inside, InMemory
<1>2. EnteredBefore'
  BY DEF EnteredBefore, TypeOK
<1>3. QED
  BY <1>1, <1>2 DEF Counted, First, Inside, InMemory

(* A reader whose counter was 0 when it was looked at was not inside.      *)
LEMMA Passed ==
  ASSUME IInv, NEW u \in Updaters, InCall(u), NEW p \in Positions, NEW r \in Readers,
         Load(u, p, r) = 0
  PROVE  ~(Counted(r) /\ First(r) = p)
<1> SUFFICES ASSUME Counted(r), First(r) = p PROVE FALSE
  OBVIOUS
<1>1. u # r
  BY DEF IInv, CallInv, CallsOutside, Counted
<1>2. state[p][r] = 0
  BY <1>1 DEF Load
<1>3. QED
  BY <1>2 DEF Counted, InMemory, First

(* A reader that was inside when the call began does not see the version   *)
(* move on twice in the position of the version the call began with.       *)
LEMMA Outlived ==
  ASSUME IInv, NEW u \in Updaters, InCall(u), NEW r \in Owed(u),
         updater_version >= call[u].ver + 2
  PROVE  First(r) # Pos(call[u].ver)
<1>1. /\ r \in Readers /\ u \in Threads
      /\ Counted(r) /\ entered[r] <= call[u].ver
      /\ entered[r] \in Nat /\ call[u].ver \in Nat /\ updater_version \in Nat
  BY DEF IInv, MemInv, CallInv, TypeOK, OwedInside, Owed, Threads
<1>2. updater_version <= entered[r] + (IF First(r) = Pos(entered[r]) THEN 1 ELSE 2)
  BY <1>1 DEF IInv, CallInv, SectionSpan, Counted, First
<1>3. First(r) # Pos(entered[r]) /\ entered[r] = call[u].ver
  BY <1>1, <1>2
<1>4. QED
  BY <1>3

(* What must be true of an updater's call for it to be at l with index n.  *)
CallMayBeAt(u, l, n) ==
  /\ n \in Readers
  /\ l \in {"younger", "outrun"} => call[u].ver < updater_version
  /\ \A r \in Readers :
       /\ l = "flip" \/ (l = "older" /\ r < n)
       /\ call[u].ver = updater_version
       /\ Counted(r)
       /\ First(r) = Pos(updater_version + 1)
       => entered[r] = updater_version
  /\ \A r \in Owed(u) :
       l = "granted" \/ (l = "younger" /\ r < n) => First(r) # Pos(call[u].ver)
  /\ alone[u] /\ l = "granted" => Owed(u) = {}
  /\ alone[u] /\ l # "granted" =>
       /\ updater_version = IF l \in {"younger", "outrun"} THEN call[u].ver + 1
                                                           ELSE call[u].ver
       /\ \A r \in Owed(u) :
            l \in {"flip", "younger", "outrun"} \/ (l = "older" /\ r < n) =>
              First(r) # Pos(call[u].ver + 1)

LEMMA GoToIInv ==
  ASSUME IInv, NEW u \in Updaters, InCall(u), UNCHANGED <<memory, held, ghosts>>,
         NEW l \in {"granted", "older", "overtaken", "flip", "younger", "outrun"},
         NEW n \in 0 .. NumThreads,
         pc' = [pc EXCEPT ![u] = l], call' = [call EXCEPT ![u].nxt = n],
         CallMayBeAt(u, l, n)
  PROVE  IInv'
<1> USE DEF IInv, CallInv
<1>1. /\ u \in Threads /\ TypeOK /\ SectionsSame /\ updater_version' = updater_version
      /\ awaited' = awaited /\ unseen' = unseen /\ alone' = alone
  BY DEF Threads, MemInv, SectionsSame, memory, ghosts
<1>2. /\ pc'[u] = l /\ call'[u].ver = call[u].ver /\ call'[u].nxt = n
      /\ \A v \in Threads \ {u} : pc'[v] = pc[v] /\ call'[v] = call[v]
  BY <1>1 DEF TypeOK
<1>3. TypeOK'
  <2>1. call'[u] = [call[u] EXCEPT !.nxt = n]
    BY <1>1 DEF TypeOK
  <2>2. call' \in [Threads -> [ver : Nat, wait : BOOLEAN, nxt : 0 .. NumThreads]]
    BY <1>1 DEF TypeOK
  <2>3. pc' \in [Threads -> {"idle", "granted", "enter", "older", "overtaken",
                             "flip", "younger", "outrun"}]
    BY <1>1 DEF TypeOK
  <2>4. QED
    BY <1>1, <2>2, <2>3 DEF TypeOK, SectionsSame
<1>4. /\ MemInv'
      /\ \A r \in Readers : /\ Counted(r)' <=> Counted(r)
                            /\ First(r)' = First(r)
                            /\ Inside(r)' <=> Inside(r)
      /\ entered' = entered
  BY <1>1, <1>3, SectionsSameMemInv DEF SectionsSame
<1>5. /\ \A v \in Updaters : v \in Threads /\ Owed(v)' = Owed(v) /\ Owed(v) \subseteq Readers
      /\ \A v \in Updaters \ {u} : pc'[v] = pc[v] /\ call'[v] = call[v] /\ (InCall(v)' <=> InCall(v))
  BY <1>1, <1>2 DEF Owed, TypeOK, InCall, Threads
<1>6. CallsOutside'
  BY <1>1, <1>2, <1>4, <1>5 DEF CallsOutside, CallMayBeAt
<1>7. OlderEmpty'
  BY <1>1, <1>2, <1>4, <1>5 DEF OlderEmpty, CallMayBeAt
<1>8. SectionSpan'
  BY <1>1 DEF SectionSpan, SectionsSame, Inside, InMemory
<1>9. OwedInside'
  BY <1>1, <1>2, <1>4, <1>5 DEF OwedInside
<1>10. YoungerEmpty'
  BY <1>1, <1>2, <1>4, <1>5 DEF YoungerEmpty, CallMayBeAt
<1>11. LoneCall'
  <2> SUFFICES ASSUME NEW v \in Updaters, alone[v], InCall(v)'
               PROVE  /\ \A y \in Updaters \ {v} : ~InCall(y)'
                      /\ updater_version = IF pc'[v] \in {"younger", "outrun"}
                                           THEN call'[v].ver + 1 ELSE call'[v].ver
                      /\ \A r \in Owed(v) :
                           \/ pc'[v] \in {"flip", "younger", "outrun"}
                           \/ pc'[v] = "older" /\ r < call'[v].nxt
                           => First(r) # Pos(call'[v].ver + 1)
    BY <1>1, <1>4, <1>5 DEF LoneCall
  <2>1. CASE v = u
    <3>1. \A y \in Updaters \ {u} : ~InCall(y)'
      BY <1>5, <2>1 DEF LoneCall
    <3>2. l # "granted"
      BY <1>2, <2>1 DEF InCall
    <3>3. QED
      BY <1>2, <2>1, <3>1, <3>2 DEF CallMayBeAt
  <2>2. CASE v # u
    BY <1>5, <2>2 DEF LoneCall
  <2>3. QED
    BY <2>1, <2>2
<1>12. LoneCallGrace'
  BY <1>1, <1>2, <1>5 DEF LoneCallGrace, CallMayBeAt, Owed
<1>13. QED
  BY <1>4, <1>6, <1>7, <1>8, <1>9, <1>10, <1>11, <1>12

LEMMA GoToLabel ==
  ASSUME IInv, NEW u \in Updaters, InCall(u), UNCHANGED <<memory, held, ghosts>>,
         NEW l \in {"granted", "older", "overtaken", "flip", "younger", "outrun"},
         GoTo(u, l), CallMayBeAt(u, l, 0)
  PROVE  IInv'
<1>1. 0 \in 0 .. NumThreads
  BY NumThreadsAssumption
<1>2. pc' = [pc EXCEPT ![u] = l] /\ call' = [call EXCEPT ![u].nxt = 0]
  BY DEF GoTo
<1>3. QED
  BY <1>1, <1>2, GoToIInv

LEMMA ScanOlderIInv ==
  ASSUME IInv, NEW u \in Updaters, ScanOlder(u)
  PROVE  IInv'
<1> DEFINE p == OlderPosition(u)
           n == call[u].nxt
<1> USE DEF IInv, CallInv
<1>1. /\ u \in Threads /\ pc[u] = "older" /\ InCall(u)
      /\ n \in Readers /\ call[u].ver \in Nat /\ call[u].ver <= updater_version
      /\ updater_version \in Nat
      /\ p = Pos(call[u].ver + 1) /\ p \in Positions
      /\ UNCHANGED <<memory, held>>
      /\ Owed(u) \subseteq Readers
  BY PosType
  DEF Threads, ScanOlder, InCall, CallsOutside, MemInv, TypeOK, OlderPosition, Owed
<1> HIDE DEF p
<1>2. Load(u, p, n) = 0 => ~(Counted(n) /\ First(n) = p)
  BY <1>1, Passed
<1>3. NumThreads \in Nat /\ 0 \in Readers /\ Readers = 0 .. NumThreads - 1
  BY NumThreadsAssumption DEF Readers
<1>4. CASE Pass(u, p)
  <2>1. /\ n + 1 \in Readers /\ n + 1 \in 0 .. NumThreads
        /\ pc' = [pc EXCEPT ![u] = "older"]
        /\ call' = [call EXCEPT ![u].nxt = n + 1]
        /\ UNCHANGED ghosts
    BY <1>1, <1>3, <1>4 DEF Pass, MemInv, TypeOK
  <2>2. \A r \in Readers : r < n + 1 => r < n \/ r = n
    BY <1>1, <1>3
  <2>3. CallMayBeAt(u, "older", n + 1)
    <3>1. ASSUME NEW r \in Readers, r < n + 1, call[u].ver = updater_version, Counted(r),
                 First(r) = Pos(updater_version + 1)
          PROVE  entered[r] = updater_version
      BY <1>1, <1>2, <1>4, <2>2, <3>1 DEF OlderEmpty, Pass
    <3>2. ASSUME alone[u]
          PROVE  /\ updater_version = call[u].ver
                 /\ \A r \in Owed(u) : r < n + 1 => First(r) # Pos(call[u].ver + 1)
      <4>1. updater_version = call[u].ver
        BY <1>1, <3>2 DEF LoneCall
      <4>2. \A r \in Owed(u) : r < n => First(r) # Pos(call[u].ver + 1)
        BY <1>1, <3>2 DEF LoneCall
      <4>3. n \in Owed(u) => First(n) # Pos(call[u].ver + 1)
        BY <1>1, <1>2, <1>4 DEF OwedInside, Pass
      <4>4. QED
        BY <1>1, <2>2, <4>1, <4>2, <4>3
    <3>3. QED
      BY <2>1, <3>1, <3>2 DEF CallMayBeAt
  <2>4. QED
    BY <1>1, <2>1, <2>3, GoToIInv
<1>5. CASE LastPass(u, p) /\ GoTo(u, "flip") /\ UNCHANGED ghosts
  <2>1. \A r \in Readers : r < n \/ r = n
    BY <1>1, <1>3, <1>5 DEF LastPass
  <2>2. CallMayBeAt(u, "flip", 0)
    <3>1. ASSUME NEW r \in Readers, call[u].ver = updater_version, Counted(r),
                 First(r) = Pos(updater_version + 1)
          PROVE  entered[r] = updater_version
      BY <1>1, <1>2, <1>5, <2>1, <3>1 DEF OlderEmpty, LastPass
    <3>2. ASSUME alone[u]
          PROVE  /\ updater_version = call[u].ver
                 /\ \A r \in Owed(u) : First(r) # Pos(call[u].ver + 1)
      <4>1. updater_version = call[u].ver
        BY <1>1, <3>2 DEF LoneCall
      <4>2. \A r \in Owed(u) : r < n => First(r) # Pos(call[u].ver + 1)
        BY <1>1, <3>2 DEF LoneCall
      <4>3. n \in Owed(u) => First(n) # Pos(call[u].ver + 1)
        BY <1>1, <1>2, <1>5 DEF OwedInside, LastPass
      <4>4. QED
        BY <1>1, <2>1, <4>1, <4>2, <4>3
    <3>3. QED
      BY <1>3, <3>1, <3>2 DEF CallMayBeAt
  <2>3. QED
    BY <1>1, <1>5, <2>2, GoToLabel
<1>6. CASE Stuck(u, p) /\ GoTo(u, "overtaken") /\ UNCHANGED ghosts
  <2>1. CallMayBeAt(u, "overtaken", 0)
    BY <1>1, <1>3 DEF LoneCall, CallMayBeAt
  <2>2. QED
    BY <1>1, <1>6, <2>1, GoToLabel
<1>7. QED
  BY <1>4, <1>5, <1>6 DEF ScanOlder, p

LEMMA OvertakenIInv ==
  ASSUME IInv, NEW u \in Updaters, Overtaken(u)
  PROVE  IInv'
<1> USE DEF IInv, CallInv
<1>1. /\ u \in Threads /\ pc[u] = "overtaken" /\ InCall(u)
      /\ call[u].ver \in Nat /\ call[u].ver <= updater_version /\ updater_version \in Nat
      /\ UNCHANGED <<memory, held>>
      /\ alone[u] => updater_version = call[u].ver
      /\ NumThreads \in Nat /\ 0 \in Readers
  <2>1. u \in Threads /\ pc[u] = "overtaken" /\ InCall(u) /\ UNCHANGED <<memory, held>>
    BY DEF Threads, Overtaken, InCall
  <2>2. call[u].ver \in Nat /\ call[u].ver <= updater_version /\ updater_version \in Nat
    BY <2>1 DEF CallsOutside, MemInv, TypeOK
  <2>3. alone[u] => updater_version = call[u].ver
    BY <2>1 DEF LoneCall
  <2>4. NumThreads \in Nat /\ 0 \in Readers
    BY NumThreadsAssumption DEF Readers
  <2>5. QED
    BY <2>1, <2>2, <2>3, <2>4
<1>2. CASE updater_version = call[u].ver + 1 /\ GoTo(u, "flip") /\ UNCHANGED ghosts
  <2>1. CallMayBeAt(u, "flip", 0)
    BY <1>1, <1>2 DEF CallMayBeAt
  <2>2. QED
    BY <1>1, <1>2, <2>1, GoToLabel
<1>3. CASE updater_version \notin {call[u].ver, call[u].ver + 1} /\ Grant(u)
  <2>1. updater_version >= call[u].ver + 2
    BY <1>1, <1>3
  <2>2. \A r \in Owed(u) : First(r) # Pos(call[u].ver)
    BY <1>1, <2>1, Outlived
  <2>3. CallMayBeAt(u, "granted", 0)
    BY <1>1, <1>3, <2>2 DEF CallMayBeAt
  <2>4. QED
    BY <1>1, <1>3, <2>3, GoToLabel DEF Grant
<1>4. CASE updater_version = call[u].ver /\ GoTo(u, "older") /\ UNCHANGED ghosts
  <2>1. \A r \in Readers : ~(r < 0)
    BY <1>1 DEF Readers
  <2>2. Owed(u) \subseteq Readers
    BY DEF Owed, MemInv, TypeOK
  <2>3. CallMayBeAt(u, "older", 0)
    BY <1>1, <1>4, <2>1, <2>2 DEF CallMayBeAt
  <2>4. QED
    BY <1>1, <1>4, <2>3, GoToLabel
<1>5. CASE Refuse(u)
  <2>1. /\ pc' = [pc EXCEPT ![u] = "idle"] /\ call' = [call EXCEPT ![u] = NoCall]
        /\ awaited' = [awaited EXCEPT ![u] = {}] /\ unseen' = [unseen EXCEPT ![u] = {}]
        /\ alone' = [alone EXCEPT ![u] = FALSE]
        /\ SectionsSame /\ updater_version' = updater_version
    BY <1>1, <1>5 DEF Refuse, SectionsSame, memory
  <2>2. TypeOK'
    <3>1. NoCall \in [ver : Nat, wait : BOOLEAN, nxt : 0 .. NumThreads]
      BY <1>1 DEF NoCall
    <3>2. /\ pc' \in [Threads -> {"idle", "granted", "enter", "older", "overtaken",
                                  "flip", "younger", "outrun"}]
          /\ call' \in [Threads -> [ver : Nat, wait : BOOLEAN, nxt : 0 .. NumThreads]]
      BY <2>1, <3>1 DEF MemInv, TypeOK
    <3>3. QED
      BY <2>1, <3>2 DEF MemInv, TypeOK, SectionsSame
  <2>3. /\ MemInv'
        /\ \A r \in Readers : /\ Counted(r)' <=> Counted(r)
                              /\ First(r)' = First(r)
                              /\ Inside(r)' <=> Inside(r)
    BY <2>1, <2>2, SectionsSameMemInv
  <2>4. SectionStep
    <3>1. \A q \in Readers : (Counted(q) => Stays(q)) /\ (~Counted(q) => Comes(q))
      BY <2>1, <2>3 DEF Stays, Comes, SectionsSame
    <3>2. \A v \in Updaters : \A q \in Owed(v)' : q \in Owed(v) /\ q \in Readers
      BY <2>1 DEF Owed, MemInv, TypeOK
    <3>3. \A v \in Updaters : \A q \in Owed(v)' : Stays(q)
      BY <3>1, <3>2 DEF OwedInside
    <3>4. \A v \in Updaters : alone'[v] => alone[v]
      BY <2>1 DEF MemInv, TypeOK
    <3>5. ~InCall(u)' /\ pc'[u] # "granted"
      BY <1>1, <2>1 DEF InCall, MemInv, TypeOK
    <3>6. \A v \in Updaters \ {u} : pc'[v] = pc[v] /\ call'[v] = call[v]
      BY <2>1 DEF MemInv, TypeOK, Threads
    <3>7. QED
      BY <2>1, <3>1, <3>2, <3>3, <3>4, <3>5, <3>6 DEF SectionStep, SectionsSame
  <2>5. QED
    BY <2>2, <2>3, <2>4, SectionStepCallInv DEF MemInv
<1>6. QED
  BY <1>2, <1>3, <1>4, <1>5 DEF Overtaken

LEMMA FlipIInv ==
  ASSUME IInv, NEW u \in Updaters, Flip(u)
  PROVE  IInv'
<1> USE DEF IInv, CallInv
<1>1. /\ u \in Threads /\ pc[u] = "flip" /\ InCall(u)
      /\ TypeOK /\ SectionsSame
      /\ awaited' = awaited /\ unseen' = unseen /\ alone' = alone
      /\ pc' = [pc EXCEPT ![u] = "younger"] /\ call' = [call EXCEPT ![u].nxt = 0]
  BY DEF Threads, Flip, GoTo, InCall, MemInv, SectionsSame, ghosts
<1>2. /\ call[u].ver \in Nat /\ updater_version \in Nat /\ call[u].ver <= updater_version
      /\ NumThreads \in Nat /\ 0 \in Readers /\ 0 \in 0 .. NumThreads
  BY <1>1, NumThreadsAssumption DEF CallsOutside, TypeOK, Readers
<1>3. /\ call[u].ver = updater_version => updater_version' = updater_version + 1
      /\ call[u].ver # updater_version => updater_version' = updater_version
      /\ call[u].ver < updater_version'
      /\ updater_version' \in Nat /\ updater_version <= updater_version'
  BY <1>2 DEF Flip
<1>4. /\ pc'[u] = "younger" /\ call'[u].ver = call[u].ver /\ call'[u].nxt = 0
      /\ \A v \in Threads \ {u} : pc'[v] = pc[v] /\ call'[v] = call[v]
  BY <1>1 DEF TypeOK
<1>5. TypeOK'
  <2>1. call' \in [Threads -> [ver : Nat, wait : BOOLEAN, nxt : 0 .. NumThreads]]
    BY <1>1, <1>2, ZenonT(40) DEF TypeOK
  <2>2. pc' \in [Threads -> {"idle", "granted", "enter", "older", "overtaken",
                             "flip", "younger", "outrun"}]
    BY <1>1 DEF TypeOK
  <2>3. QED
    BY <1>1, <1>3, <2>1, <2>2 DEF TypeOK, SectionsSame
<1>6. /\ MemInv'
      /\ \A r \in Readers : /\ Counted(r)' <=> Counted(r)
                            /\ First(r)' = First(r)
                            /\ Inside(r)' <=> Inside(r)
      /\ entered' = entered
  BY <1>1, <1>3, <1>5, SectionsSameMemInv DEF SectionsSame
<1>7. /\ \A v \in Updaters : v \in Threads /\ Owed(v)' = Owed(v) /\ Owed(v) \subseteq Readers
      /\ \A v \in Updaters \ {u} : pc'[v] = pc[v] /\ call'[v] = call[v] /\ (InCall(v)' <=> InCall(v))
      /\ \A v \in Updaters : call[v].ver \in Nat
  BY <1>1, <1>4 DEF Owed, TypeOK, InCall, Threads
<1>8. CallsOutside'
  <2> SUFFICES ASSUME NEW v \in Updaters, InCall(v)'
               PROVE  /\ v \in Readers => ~Inside(v)'
                      /\ call'[v].nxt \in Readers
                      /\ call'[v].ver <= updater_version'
                      /\ pc'[v] \in {"younger", "outrun"} => call'[v].ver < updater_version'
    BY DEF CallsOutside
  <2>1. CASE v = u
    BY <1>1, <1>2, <1>3, <1>4, <1>6, <2>1 DEF CallsOutside
  <2>2. CASE v # u
    BY <1>2, <1>3, <1>6, <1>7, <2>2 DEF CallsOutside
  <2>3. QED
    BY <2>1, <2>2
<1>9. OlderEmpty'
  <2> SUFFICES ASSUME NEW v \in Updaters, NEW r \in Readers,
                      pc'[v] = "flip" \/ (pc'[v] = "older" /\ r < call'[v].nxt),
                      call'[v].ver = updater_version', Counted(r),
                      First(r) = Pos(updater_version' + 1)
               PROVE  entered[r] = updater_version'
    BY <1>6 DEF OlderEmpty
  <2>1. v # u /\ InCall(v)
    BY <1>4, <1>7 DEF InCall
  <2>2. call[v].ver <= updater_version /\ pc'[v] = pc[v] /\ call'[v] = call[v]
    BY <1>7, <2>1 DEF CallsOutside
  <2>3. updater_version' = updater_version
    BY <1>2, <1>3, <1>7, <2>2
  <2>4. QED
    BY <2>2, <2>3 DEF OlderEmpty
<1>10. SectionSpan'
  <2> SUFFICES ASSUME NEW r \in Readers, Counted(r)
               PROVE  updater_version' <=
                        entered[r] + (IF First(r) = Pos(entered[r]) THEN 1 ELSE 2)
    BY <1>6 DEF SectionSpan, Counted, First
  <2>1. /\ updater_version <= entered[r] + (IF First(r) = Pos(entered[r]) THEN 1 ELSE 2)
        /\ entered[r] \in Nat
    BY <1>1 DEF SectionSpan, Counted, First, TypeOK
  <2>2. First(r) \in Positions
    BY <1>1, OwnCounts DEF Counted, MemInv
  <2>3. CASE updater_version' = updater_version
    BY <2>1, <2>3
  <2>4. CASE updater_version' = updater_version + 1 /\ call[u].ver = updater_version
    <3>1. CASE First(r) = Pos(updater_version + 1)
      <4>1. entered[r] = updater_version
        BY <1>1, <2>4, <3>1 DEF OlderEmpty
      <4>2. First(r) # Pos(entered[r])
        BY <1>2, <3>1, <4>1, PosType
      <4>3. QED
        BY <1>2, <2>4, <4>1, <4>2
    <3>2. CASE First(r) = Pos(updater_version)
      <4>1. CASE First(r) = Pos(entered[r])
        <5>1. updater_version # entered[r] + 1
          BY <2>1, <3>2, <4>1, PosType
        <5>2. QED
          BY <1>2, <2>1, <2>4, <4>1, <5>1
      <4>2. CASE First(r) # Pos(entered[r])
        <5>1. Pos(entered[r] + 2) = Pos(entered[r])
          BY <2>1 DEF Pos
        <5>2. updater_version # entered[r] + 2
          BY <3>2, <4>2, <5>1
        <5>3. QED
          BY <1>2, <2>1, <2>4, <4>2, <5>2
      <4>3. QED
        BY <4>1, <4>2
    <3>3. First(r) \in {Pos(updater_version), Pos(updater_version + 1)}
      BY <1>2, <2>2, PosType DEF Positions
    <3>4. QED
      BY <3>1, <3>2, <3>3
  <2>5. QED
    BY <1>3, <2>3, <2>4
<1>11. OwedInside'
  BY <1>1, <1>4, <1>6, <1>7 DEF OwedInside
<1>12. YoungerEmpty'
  <2>1. \A r \in Readers : ~(r < 0)
    BY <1>2 DEF Readers
  <2>2. QED
    BY <1>4, <1>6, <1>7, <2>1 DEF YoungerEmpty
<1>13. LoneCall'
  <2> SUFFICES ASSUME NEW v \in Updaters, alone[v], InCall(v)'
               PROVE  /\ \A y \in Updaters \ {v} : ~InCall(y)'
                      /\ updater_version' = IF pc'[v] \in {"younger", "outrun"}
                                            THEN call'[v].ver + 1 ELSE call'[v].ver
                      /\ \A r \in Owed(v) :
                           \/ pc'[v] \in {"flip", "younger", "outrun"}
                           \/ pc'[v] = "older" /\ r < call'[v].nxt
                           => First(r) # Pos(call'[v].ver + 1)
    BY <1>1, <1>6, <1>7 DEF LoneCall
  <2>1. v = u
    BY <1>1, <1>7 DEF LoneCall
  <2>2. \A y \in Updaters \ {u} : ~InCall(y)'
    BY <1>1, <1>7, <2>1 DEF LoneCall
  <2>3. updater_version = call[u].ver /\ \A r \in Owed(u) : First(r) # Pos(call[u].ver + 1)
    BY <1>1, <2>1 DEF LoneCall
  <2>4. QED
    BY <1>3, <1>4, <2>1, <2>2, <2>3
<1>14. LoneCallGrace'
  BY <1>1, <1>4, <1>7 DEF LoneCallGrace, Owed
<1>15. QED
  BY <1>6, <1>8, <1>9, <1>10, <1>11, <1>12, <1>13, <1>14

LEMMA ScanYoungerIInv ==
  ASSUME IInv, NEW u \in Updaters, ScanYounger(u)
  PROVE  IInv'
<1> DEFINE p == YoungerPosition(u)
           n == call[u].nxt
<1> USE DEF IInv, CallInv
<1>1. /\ u \in Threads /\ pc[u] = "younger" /\ InCall(u)
      /\ n \in Readers /\ call[u].ver \in Nat /\ call[u].ver < updater_version
      /\ updater_version \in Nat
      /\ p = Pos(call[u].ver) /\ p \in Positions
      /\ UNCHANGED <<memory, held>>
      /\ Owed(u) \subseteq Readers
  BY PosType
  DEF Threads, ScanYounger, InCall, CallsOutside, MemInv, TypeOK, YoungerPosition, Owed
<1> HIDE DEF p
<1>2. Load(u, p, n) = 0 => ~(Counted(n) /\ First(n) = p)
  BY <1>1, Passed
<1>3. NumThreads \in Nat /\ 0 \in Readers /\ Readers = 0 .. NumThreads - 1
  BY NumThreadsAssumption DEF Readers
<1>4. \A r \in Owed(u) : r < n => First(r) # Pos(call[u].ver)
  BY <1>1 DEF YoungerEmpty
<1>5. Load(u, p, n) = 0 /\ n \in Owed(u) => First(n) # Pos(call[u].ver)
  BY <1>1, <1>2 DEF OwedInside
<1>6. alone[u] => /\ updater_version = call[u].ver + 1
                  /\ \A r \in Owed(u) : First(r) # Pos(call[u].ver + 1)
  BY <1>1 DEF LoneCall
<1>7. CASE Pass(u, p)
  <2>1. /\ n + 1 \in Readers /\ n + 1 \in 0 .. NumThreads
        /\ pc' = [pc EXCEPT ![u] = "younger"]
        /\ call' = [call EXCEPT ![u].nxt = n + 1]
        /\ UNCHANGED ghosts
    BY <1>1, <1>3, <1>7 DEF Pass, MemInv, TypeOK
  <2>2. \A r \in Readers : r < n + 1 => r < n \/ r = n
    BY <1>1, <1>3
  <2>3. \A r \in Owed(u) : r < n + 1 => First(r) # Pos(call[u].ver)
    BY <1>1, <1>4, <1>5, <1>7, <2>2 DEF Pass
  <2>4. CallMayBeAt(u, "younger", n + 1)
    BY <1>1, <1>6, <2>1, <2>3 DEF CallMayBeAt
  <2>5. QED
    BY <1>1, <2>1, <2>4, GoToIInv
<1>8. CASE LastPass(u, p) /\ Grant(u)
  <2>1. \A r \in Readers : r < n \/ r = n
    BY <1>1, <1>3, <1>8 DEF LastPass
  <2>2. \A r \in Owed(u) : First(r) # Pos(call[u].ver)
    BY <1>1, <1>4, <1>5, <1>8, <2>1 DEF LastPass
  <2>3. alone[u] => Owed(u) = {}
    <3>1. \A r \in Owed(u) : First(r) \in Positions
      BY <1>1, OwnCounts DEF OwedInside, Counted, MemInv
    <3>2. Positions = {Pos(call[u].ver), Pos(call[u].ver + 1)}
      BY <1>1, PosType DEF Positions
    <3>3. QED
      BY <1>6, <2>2, <3>1, <3>2
  <2>4. CallMayBeAt(u, "granted", 0)
    BY <1>3, <2>2, <2>3 DEF CallMayBeAt
  <2>5. QED
    BY <1>1, <1>8, <2>4, GoToLabel DEF Grant
<1>9. CASE Stuck(u, p) /\ GoTo(u, "outrun") /\ UNCHANGED ghosts
  <2>1. CallMayBeAt(u, "outrun", 0)
    BY <1>1, <1>3, <1>6 DEF CallMayBeAt
  <2>2. QED
    BY <1>1, <1>9, <2>1, GoToLabel
<1>10. QED
  BY <1>7, <1>8, <1>9 DEF ScanYounger, p

LEMMA OutrunIInv ==
  ASSUME IInv, NEW u \in Updaters, Outrun(u)
  PROVE  IInv'
<1> USE DEF IInv, CallInv
<1>1. /\ u \in Threads /\ pc[u] = "outrun" /\ InCall(u) /\ UNCHANGED <<memory, held>>
      /\ Owed(u) \subseteq Readers
  BY DEF Threads, Outrun, InCall, Owed, MemInv, TypeOK
<1>2. call[u].ver \in Nat /\ call[u].ver < updater_version /\ updater_version \in Nat
  BY <1>1 DEF CallsOutside, MemInv, TypeOK
<1>3. alone[u] => /\ updater_version = call[u].ver + 1
                  /\ \A r \in Owed(u) : First(r) # Pos(call[u].ver + 1)
  BY <1>1 DEF LoneCall
<1>4. 0 \in Readers /\ \A r \in Readers : ~(r < 0)
  BY NumThreadsAssumption DEF Readers
<1>5. CASE MovedOn(u) /\ Grant(u)
  <2>1. updater_version >= call[u].ver + 2 /\ ~alone[u]
    BY <1>2, <1>3, <1>5 DEF MovedOn
  <2>2. \A r \in Owed(u) : First(r) # Pos(call[u].ver)
    BY <1>1, <2>1, Outlived
  <2>3. CallMayBeAt(u, "granted", 0)
    BY <1>4, <2>1, <2>2 DEF CallMayBeAt
  <2>4. QED
    BY <1>1, <1>5, <2>3, GoToLabel DEF Grant
<1>6. CASE ~MovedOn(u) /\ GoTo(u, "younger") /\ UNCHANGED ghosts
  <2>1. CallMayBeAt(u, "younger", 0)
    BY <1>1, <1>2, <1>3, <1>4 DEF CallMayBeAt
  <2>2. QED
    BY <1>1, <1>6, <2>1, GoToLabel
<1>7. QED
  BY <1>5, <1>6 DEF Outrun

LEMMA SynchronizeIInv ==
  ASSUME IInv, NEW u \in Updaters, NEW w \in BOOLEAN, Synchronize(u, w)
  PROVE  IInv'
<1> USE DEF IInv, CallInv
<1>1. /\ u \in Threads /\ Resting(u) /\ ~InCall(u) /\ TypeOK
      /\ u \in Readers => ~Inside(u)
      /\ SectionsSame /\ updater_version' = updater_version /\ updater_version \in Nat
      /\ pc' = [pc EXCEPT ![u] = "older"]
  BY DEF Threads, Synchronize, Resting, InCall, MemInv, SectionsSame, memory, TypeOK
<1>2. /\ call' = [call EXCEPT ![u] = [NoCall EXCEPT !.ver = updater_version, !.wait = w]]
      /\ awaited' = [awaited EXCEPT ![u] = {r \in Readers : Inside(r)}]
      /\ unseen' = [unseen EXCEPT ![u] = {r \in Readers : Inside(r) /\ ~InMemory(r)}]
      /\ alone' = [v \in Updaters |->
                     IF v = u THEN \A y \in Updaters \ {u} :
                                     Resting(y) \/ pc[y] = "enter"
                              ELSE alone[v] /\ Resting(v)]
  BY DEF Synchronize
<1>3. 0 \in Readers /\ (\A r \in Readers : ~(r < 0)) /\ NumThreads \in Nat
  BY NumThreadsAssumption DEF Readers
<1>4. /\ NoCall \in [ver : Nat, wait : BOOLEAN, nxt : 0 .. NumThreads]
      /\ NoCall.nxt = 0
  BY <1>3 DEF NoCall
<1>5. /\ [NoCall EXCEPT !.ver = updater_version, !.wait = w]
           \in [ver : Nat, wait : BOOLEAN, nxt : 0 .. NumThreads]
      /\ [NoCall EXCEPT !.ver = updater_version, !.wait = w].ver = updater_version
      /\ [NoCall EXCEPT !.ver = updater_version, !.wait = w].nxt = 0
  BY <1>1, <1>4
<1>6. /\ pc'[u] = "older" /\ call'[u].ver = updater_version /\ call'[u].nxt = 0
      /\ \A v \in Threads \ {u} : pc'[v] = pc[v] /\ call'[v] = call[v]
  BY <1>1, <1>2, <1>5 DEF TypeOK
<1>7. TypeOK'
  <2>1. call' \in [Threads -> [ver : Nat, wait : BOOLEAN, nxt : 0 .. NumThreads]]
    BY <1>1, <1>2, <1>5 DEF TypeOK
  <2>2. pc' \in [Threads -> {"idle", "granted", "enter", "older", "overtaken",
                             "flip", "younger", "outrun"}]
    BY <1>1 DEF TypeOK
  <2>3. awaited' \in [Updaters -> SUBSET Readers] /\ unseen' \in [Updaters -> SUBSET Readers]
    BY <1>1, <1>2 DEF TypeOK
  <2>4. alone' \in [Updaters -> BOOLEAN]
    BY <1>1, <1>2, Zenon DEF TypeOK
  <2>5. QED
    BY <1>1, <2>1, <2>2, <2>3, <2>4 DEF TypeOK, SectionsSame
<1>8. /\ MemInv'
      /\ \A r \in Readers : /\ Counted(r)' <=> Counted(r)
                            /\ First(r)' = First(r)
                            /\ Inside(r)' <=> Inside(r)
      /\ entered' = entered
  BY <1>1, <1>7, SectionsSameMemInv DEF SectionsSame
<1>9. /\ \A v \in Updaters \ {u} : /\ pc'[v] = pc[v] /\ call'[v] = call[v]
                                   /\ InCall(v)' <=> InCall(v)
                                   /\ Owed(v)' = Owed(v) /\ Owed(v) \subseteq Readers
                                   /\ alone'[v] => alone[v] /\ Resting(v)
      /\ Owed(u)' \subseteq Readers /\ \A r \in Owed(u)' : Counted(r)
      /\ InCall(u)'
  <2>1. \A v \in Updaters \ {u} : /\ pc'[v] = pc[v] /\ call'[v] = call[v]
                                  /\ InCall(v)' <=> InCall(v)
    BY <1>6 DEF Threads, InCall
  <2>2. \A v \in Updaters \ {u} : Owed(v)' = Owed(v) /\ Owed(v) \subseteq Readers
    BY <1>1, <1>2 DEF Owed, TypeOK
  <2>3. \A v \in Updaters \ {u} : alone'[v] => alone[v] /\ Resting(v)
    BY <1>2
  <2>4. Owed(u)' = {r \in Readers : Inside(r)} \ {r \in Readers : Inside(r) /\ ~InMemory(r)}
    BY <1>1, <1>2 DEF Owed, TypeOK
  <2>5. Owed(u)' \subseteq Readers /\ \A r \in Owed(u)' : Counted(r)
    BY <2>4 DEF Counted
  <2>6. QED
    BY <1>6, <2>1, <2>2, <2>3, <2>5 DEF InCall
<1>10. CallsOutside'
  <2> SUFFICES ASSUME NEW v \in Updaters, InCall(v)'
               PROVE  /\ v \in Readers => ~Inside(v)'
                      /\ call'[v].nxt \in Readers
                      /\ call'[v].ver <= updater_version
                      /\ pc'[v] \in {"younger", "outrun"} => call'[v].ver < updater_version
    BY <1>1 DEF CallsOutside
  <2>1. CASE v = u
    BY <1>1, <1>3, <1>6, <1>8, <2>1
  <2>2. CASE v # u
    BY <1>8, <1>9, <2>2 DEF CallsOutside
  <2>3. QED
    BY <2>1, <2>2
<1>11. OlderEmpty'
  BY <1>1, <1>3, <1>6, <1>8, <1>9 DEF OlderEmpty
<1>12. SectionSpan'
  BY <1>1 DEF SectionSpan, SectionsSame, Inside, InMemory
<1>13. OwedInside'
  <2> SUFFICES ASSUME NEW v \in Updaters, NEW r \in Owed(v)'
               PROVE  Counted(r) /\ (InCall(v)' => entered[r] <= call'[v].ver)
    BY <1>8, <1>9 DEF OwedInside
  <2>1. CASE v = u
    <3>1. r \in Readers /\ Counted(r)
      BY <1>9, <2>1
    <3>2. QED
      BY <1>6, <2>1, <3>1 DEF MemInv, EnteredBefore
  <2>2. CASE v # u
    BY <1>9, <2>2 DEF OwedInside
  <2>3. QED
    BY <2>1, <2>2
<1>14. YoungerEmpty'
  BY <1>6, <1>8, <1>9 DEF YoungerEmpty
<1>15. LoneCall'
  <2> SUFFICES ASSUME NEW v \in Updaters, alone'[v], InCall(v)'
               PROVE  /\ \A y \in Updaters \ {v} : ~InCall(y)'
                      /\ updater_version = IF pc'[v] \in {"younger", "outrun"}
                                           THEN call'[v].ver + 1 ELSE call'[v].ver
                      /\ \A r \in Owed(v)' :
                           \/ pc'[v] \in {"flip", "younger", "outrun"}
                           \/ pc'[v] = "older" /\ r < call'[v].nxt
                           => First(r)' # Pos(call'[v].ver + 1)
    BY <1>1 DEF LoneCall
  <2>1. v = u
    BY <1>9 DEF Resting, InCall
  <2>2. \A y \in Updaters \ {u} : Resting(y) \/ pc[y] = "enter"
    BY <1>2, <2>1
  <2>3. \A y \in Updaters \ {u} : ~InCall(y)'
    BY <1>9, <2>2 DEF Resting, InCall
  <2>4. QED
    BY <1>3, <1>6, <1>9, <2>1, <2>3
<1>16. LoneCallGrace'
  <2> SUFFICES ASSUME NEW v \in Updaters, pc'[v] = "granted", alone'[v]
               PROVE  Owed(v)' = {}
    BY DEF LoneCallGrace, Owed
  <2>1. v # u
    BY <1>6
  <2>2. pc[v] = "granted" /\ alone[v] /\ Owed(v)' = Owed(v)
    BY <1>9, <2>1
  <2>3. QED
    BY <2>2 DEF LoneCallGrace, Owed
<1>17. QED
  BY <1>8, <1>10, <1>11, <1>12, <1>13, <1>14, <1>15, <1>16

-----------------------------------------------------------------------------
LEMMA InitIInv == Init => IInv
<1> SUFFICES ASSUME Init PROVE IInv
  OBVIOUS
<1> USE DEF Init
<1>1. NoCall \in [ver : Nat, wait : BOOLEAN, nxt : 0 .. NumThreads]
  BY NumThreadsAssumption DEF NoCall
<1>2. TypeOK
  <2>1. <<>> \in Seq(Positions) /\ 0 \in Nat
    OBVIOUS
  <2>2. state \in [Positions -> [Readers -> Nat]]
    BY <2>1
  <2>3. QED
    BY <1>1, <2>1, <2>2 DEF TypeOK
<1>3. /\ \A r \in Readers : ~Inside(r) /\ ~Counted(r)
      /\ \A u \in Updaters : ~InCall(u) /\ pc[u] = "idle" /\ Owed(u) = {}
  BY DEF Inside, Counted, InCall, Owed, Threads
<1>4. Counts
  BY TokensNone DEF Counts, Load
<1>5. MemInv
  BY <1>2, <1>3, <1>4 DEF MemInv, Hidden, EnteredBefore
<1>6. CallInv
  BY <1>3 DEF CallInv, CallsOutside, OlderEmpty, SectionSpan, OwedInside, YoungerEmpty,
     LoneCall, LoneCallGrace, Counted
<1>7. QED
  BY <1>5, <1>6 DEF IInv

LEMMA NextIInv == IInv /\ [Next]_vars => IInv'
<1> SUFFICES ASSUME IInv, [Next]_vars PROVE IInv'
  OBVIOUS
<1>1. CASE UNCHANGED vars
  BY <1>1 DEF vars, memory, ghosts, IInv, MemInv, CallInv, TypeOK, Counts, Hidden,
     EnteredBefore, CallsOutside, OlderEmpty, SectionSpan, OwedInside, YoungerEmpty,
     LoneCall, LoneCallGrace, Load, Inside, InMemory, Counted, First, InCall, Owed
<1>2. ASSUME NEW r \in Readers, Reader(r)
      PROVE  IInv'
  BY <1>2, ReaderIInv
<1>3. ASSUME NEW u \in Updaters, NEW w \in BOOLEAN, Synchronize(u, w)
      PROVE  IInv'
  BY <1>3, SynchronizeIInv
<1>4. ASSUME NEW u \in Updaters, SynchronizeStep(u)
      PROVE  IInv'
  BY <1>4, ScanOlderIInv, OvertakenIInv, FlipIInv, ScanYoungerIInv, OutrunIInv
  DEF SynchronizeStep
<1>5. QED
  BY <1>1, <1>2, <1>3, <1>4 DEF Next

(* The invariant holds in every state that is reached.                     *)
THEOREM Invariance == Spec => []IInv
<1>1. Init => IInv
  BY InitIInv
<1>2. IInv /\ [Next]_vars => IInv'
  BY NextIInv
<1>3. QED
  BY <1>1, <1>2, PTL DEF Spec

(* Every variable stays in its type; above all, no counter is ever taken   *)
(* below 0, however sections nest and stores are delayed.                  *)
THEOREM TypeCorrect == Spec => []TypeOK
<1>1. IInv => TypeOK
  BY DEF IInv, MemInv
<1>2. QED
  BY <1>1, Invariance, PTL

(* A section outlives one step of the version, and a second one only if it *)
(* began with a stale position, however many updaters step the version.    *)
THEOREM SectionsSpan == Spec => []SectionSpan
<1>1. IInv => SectionSpan
  BY DEF IInv, CallInv
<1>2. QED
  BY <1>1, Invariance, PTL

(* A call to synchronize() that no other overlaps waits for every reader   *)
(* that was inside when it began, except those whose count was still on    *)
(* its way to the memory.                                                  *)
THEOREM LoneCallsAwaitReaders == Spec => []LoneCallGrace
<1>1. IInv => LoneCallGrace
  BY DEF IInv, CallInv
<1>2. QED
  BY <1>1, Invariance, PTL

(* When calls overlap, each still waits for the readers that were inside   *)
(* in the position of the version it began with.                           *)
THEOREM CurrentPhaseDrains == Spec => []CurrentPhaseDrained
<1>1. IInv => CurrentPhaseDrained
  BY DEF IInv, CallInv, YoungerEmpty, CurrentPhaseDrained, Owed, First
<1>2. QED
  BY <1>1, Invariance, PTL
=============================================================================
