---------------------------- MODULE FileLockProofs ----------------------------
(***************************************************************************)
(* The safety of pkg/filelock for any number of processes and goroutines.  *)
(***************************************************************************)
EXTENDS FileLock, FiniteSetTheorems, SequenceTheorems, TLAPS

-----------------------------------------------------------------------------
(***************************************************************************)
(* The processLock of p, with queue q, r readers and writer flag w, is an  *)
(* accurate account of the callers `in` that were granted it.              *)
(***************************************************************************)
In(p, in, mode, isShared) == {c \in in : ProcessOf[c] = p /\ mode[c] = isShared}

Accurate(p, q, r, w, in, mode) ==
  /\ r = Cardinality(In(p, in, mode, TRUE))
  /\ w = (In(p, in, mode, FALSE) # {})
  /\ w => \A c, d \in in : ProcessOf[c] = p /\ ProcessOf[d] = p => c = d
  /\ \A i \in DOMAIN q : ProcessOf[q[i]] = p /\ q[i] \notin in
  /\ \A i, j \in DOMAIN q : q[i] = q[j] => i = j

\* The first k waiters of a queue, and what the counters become with them.
Served(q, k) == {q[i] : i \in 1 .. k}
Rest(q, k) == SubSeq(q, k + 1, Len(q))
ReadersWith(q, k, r, mode) == IF k > 0 /\ mode[q[1]] THEN r + k ELSE r
WriterWith(q, k, w, mode) == w \/ (k > 0 /\ ~mode[q[1]])

LEMMA FiniteCallers ==
  ASSUME NEW S \in SUBSET Caller
  PROVE  IsFiniteSet(S) /\ Cardinality(S) \in Nat
BY CallerAssumption, FS_Subset, FS_CardinalityType

\* What is left of a queue when its first k waiters are gone.
LEMMA RestFacts ==
  ASSUME NEW q \in Seq(Caller), NEW k \in 0 .. Len(q)
  PROVE  /\ Rest(q, k) \in Seq(Caller)
         /\ Len(Rest(q, k)) = Len(q) - k
         /\ \A i \in 1 .. Len(q) - k : Rest(q, k)[i] = q[k + i]
<1>1. k + 1 \in Int /\ Len(q) \in Int /\ \A i \in k + 1 .. Len(q) : q[i] \in Caller
  OBVIOUS
<1>2. /\ SubSeq(q, k + 1, Len(q)) \in Seq(Caller)
      /\ Len(SubSeq(q, k + 1, Len(q))) = IF k + 1 <= Len(q) THEN Len(q) - (k + 1) + 1 ELSE 0
      /\ \A i \in 1 .. Len(q) - (k + 1) + 1 : SubSeq(q, k + 1, Len(q))[i] = q[k + 1 + i - 1]
  BY <1>1, SubSeqProperties
<1> QED  BY <1>2 DEF Rest

\* The first k waiters of a queue without repetitions are k waiters.
LEMMA ServedCardinality ==
  ASSUME NEW q \in Seq(Caller), NEW k \in 0 .. Len(q),
         \A i, j \in DOMAIN q : q[i] = q[j] => i = j
  PROVE  Served(q, k) \in SUBSET Caller /\ Cardinality(Served(q, k)) = k
<1> DEFINE f == [i \in 1 .. k |-> q[i]]
<1>1. f \in Bijection(1 .. k, Served(q, k))
  BY DEF Served, Bijection, Injection, Surjection, IsInjective
<1>2. IsFiniteSet(1 .. k) /\ Cardinality(1 .. k) = k
  BY FS_Interval
<1>3. Cardinality(Served(q, k)) = k
  BY <1>1, <1>2, FS_Bijection DEF ExistsBijection
<1> QED  BY <1>3 DEF Served

(***************************************************************************)
(* grantWaiters keeps the account accurate and leaves nobody servable.     *)
(***************************************************************************)
LEMMA GrantAccurate ==
  ASSUME NEW p \in Process, NEW q \in Seq(Caller), NEW r \in Nat, NEW w \in BOOLEAN,
         NEW in \in SUBSET Caller, NEW mode \in [Caller -> BOOLEAN],
         Accurate(p, q, r, w, in, mode),
         NEW k \in 0 .. Len(q), Grants(k, q, r, w, mode)
  PROVE  /\ Accurate(p, Rest(q, k), ReadersWith(q, k, r, mode), WriterWith(q, k, w, mode),
                     in \cup Served(q, k), mode)
         /\ Grants(0, Rest(q, k), ReadersWith(q, k, r, mode), WriterWith(q, k, w, mode), mode)
<1> DEFINE in2 == in \cup Served(q, k)
           r2 == ReadersWith(q, k, r, mode)
           w2 == WriterWith(q, k, w, mode)
<1>1. /\ \A i \in 1 .. k : q[i] \in Caller /\ ProcessOf[q[i]] = p /\ q[i] \notin in
      /\ \A i, j \in DOMAIN q : q[i] = q[j] => i = j
  BY DEF Accurate
<1>2. \A i \in DOMAIN Rest(q, k) :
        i \in 1 .. Len(q) - k /\ k + i \in DOMAIN q /\ Rest(q, k)[i] = q[k + i]
  <2>1. Rest(q, k) \in Seq(Caller) /\ Len(Rest(q, k)) = Len(q) - k
    BY RestFacts
  <2>2. DOMAIN Rest(q, k) = 1 .. Len(q) - k
    BY <2>1
  <2>3. \A i \in 1 .. Len(q) - k : k + i \in DOMAIN q
    OBVIOUS
  <2> QED  BY <2>2, <2>3, RestFacts
<1>3. /\ \A i \in DOMAIN Rest(q, k) : ProcessOf[Rest(q, k)[i]] = p /\ Rest(q, k)[i] \notin in2
      /\ \A i, j \in DOMAIN Rest(q, k) : Rest(q, k)[i] = Rest(q, k)[j] => i = j
  <2>1. ASSUME NEW i \in DOMAIN Rest(q, k)
        PROVE  ProcessOf[Rest(q, k)[i]] = p /\ Rest(q, k)[i] \notin in
    BY <1>2 DEF Accurate
  <2>2. ASSUME NEW i \in DOMAIN Rest(q, k), NEW j \in 1 .. k
        PROVE  Rest(q, k)[i] # q[j]
    <3>1. k + i \in DOMAIN q /\ j \in DOMAIN q /\ k + i # j /\ Rest(q, k)[i] = q[k + i]
      BY <1>2
    <3> QED  BY <3>1, <1>1
  <2>3. ASSUME NEW i \in DOMAIN Rest(q, k), NEW j \in DOMAIN Rest(q, k),
             Rest(q, k)[i] = Rest(q, k)[j]
        PROVE  i = j
    <3>1. k + i = k + j
      BY <1>1, <1>2, <2>3
    <3> QED  BY <3>1, <1>2
  <2> QED  BY <2>1, <2>2, <2>3 DEF Served
<1>4. CASE k = 0
  <2>1. Served(q, k) = {} /\ r2 = r /\ w2 = w
    BY <1>4 DEF Served, ReadersWith, WriterWith
  <2>2. Len(Rest(q, k)) = Len(q) /\ (q # << >> => Rest(q, k)[1] = q[1])
    BY <1>4, RestFacts
  <2>3. Accurate(p, Rest(q, k), r2, w2, in2, mode)
    BY <2>1, <1>3 DEF Accurate
  <2>4. w \/ q = << >> \/ (r # 0 /\ ~mode[q[1]])
    BY <1>4 DEF Grants, SharedPrefix
  <2>5. q = << >> => Rest(q, k) = << >>
    BY <2>2, RestFacts
  <2>6. Grants(0, Rest(q, k), r2, w2, mode)
    BY <2>1, <2>2, <2>4, <2>5 DEF Grants
  <2> QED  BY <2>3, <2>6
<1>5. CASE k > 0 /\ mode[q[1]]
  <2>1. /\ ~w
        /\ \A i \in 1 .. k : mode[q[i]]
        /\ k < Len(q) => ~mode[q[k + 1]]
    BY <1>5 DEF Grants, SharedPrefix
  <2>2. r2 = r + k /\ w2 = FALSE
    BY <1>5, <2>1 DEF ReadersWith, WriterWith
  <2>3. /\ In(p, in2, mode, TRUE) = In(p, in, mode, TRUE) \cup Served(q, k)
        /\ In(p, in, mode, TRUE) \cap Served(q, k) = {}
    BY <1>1, <2>1 DEF In, Served
  <2>4. In(p, in2, mode, FALSE) = {}
    <3>1. In(p, in, mode, FALSE) = {}
      BY <2>1 DEF Accurate
    <3> QED  BY <1>1, <2>1, <3>1 DEF In, Served
  <2>5. Cardinality(In(p, in2, mode, TRUE)) = r + k
    <3> DEFINE A == In(p, in, mode, TRUE)
               B == Served(q, k)
    <3>1. A \in SUBSET Caller /\ B \in SUBSET Caller /\ Cardinality(B) = k
      BY <1>1, ServedCardinality DEF In
    <3>2. Cardinality(A) = r
      BY DEF Accurate
    <3>3. IsFiniteSet(A) /\ IsFiniteSet(B) /\ Cardinality({}) = 0
      BY <3>1, FiniteCallers, FS_EmptySet
    <3>4. Cardinality(A \cup B) = Cardinality(A) + Cardinality(B) - Cardinality(A \cap B)
      BY <3>3, FS_Union
    <3>5. In(p, in2, mode, TRUE) = A \cup B /\ A \cap B = {}
      BY <2>3
    <3> HIDE DEF A, B
    <3>6. Cardinality(A \cap B) = 0
      BY <3>3, <3>5
    <3>7. Cardinality(A \cup B) = r + k
      BY <3>1, <3>2, <3>4, <3>6
    <3> QED  BY <3>5, <3>7, Zenon
  <2>6. Accurate(p, Rest(q, k), r2, w2, in2, mode)
    BY <1>3, <2>2, <2>4, <2>5 DEF Accurate
  <2>7. Rest(q, k) = << >> \/ ~mode[Rest(q, k)[1]]
    <3>1. Rest(q, k) \in Seq(Caller) /\ Len(Rest(q, k)) = Len(q) - k
      BY RestFacts
    <3>2. k < Len(q) => 1 \in DOMAIN Rest(q, k)
      BY <3>1
    <3>3. k < Len(q) => Rest(q, k)[1] = q[k + 1]
      BY <3>2, <1>2
    <3>4. k = Len(q) => Rest(q, k) = << >>
      BY <3>1
    <3> QED  BY <2>1, <3>3, <3>4
  <2>8. Grants(0, Rest(q, k), r2, w2, mode)
    BY <1>5, <2>2, <2>7 DEF Grants
  <2> QED  BY <2>6, <2>8
<1>6. CASE k > 0 /\ ~mode[q[1]]
  <2>1. ~w /\ k = 1 /\ r = 0
    BY <1>6 DEF Grants, SharedPrefix
  <2>2. r2 = 0 /\ w2 = TRUE /\ in2 = in \cup {q[1]}
    BY <1>6, <2>1 DEF ReadersWith, WriterWith, Served
  <2>3. In(p, in, mode, TRUE) = {}
    <3>1. In(p, in, mode, TRUE) \in SUBSET Caller
      BY DEF In
    <3> QED  BY <2>1, <3>1, FiniteCallers, FS_EmptySet DEF Accurate
  <2>4. \A c \in in : ProcessOf[c] # p
    BY <2>1, <2>3 DEF In, Accurate
  <2>5. In(p, in2, mode, TRUE) = {} /\ q[1] \in In(p, in2, mode, FALSE)
    BY <1>1, <1>6, <2>1, <2>2, <2>4 DEF In
  <2>6. \A c, d \in in2 : ProcessOf[c] = p /\ ProcessOf[d] = p => c = d
    BY <2>2, <2>4
  <2>7. Accurate(p, Rest(q, k), r2, w2, in2, mode)
    BY <1>3, <2>2, <2>5, <2>6, FS_EmptySet DEF Accurate
  <2>8. Grants(0, Rest(q, k), r2, w2, mode)
    BY <2>2 DEF Grants
  <2> QED  BY <2>7, <2>8
<1> QED  BY <1>4, <1>5, <1>6

\* What grantWaiters leaves behind.
AfterGrant(p, q, in, mode) ==
  /\ waiters' \in [Process -> Seq(Caller)]
  /\ readers' \in [Process -> Nat]
  /\ writer' \in [Process -> BOOLEAN]
  /\ granted' \in SUBSET Caller
  /\ Accurate(p, waiters'[p], readers'[p], writer'[p], granted', mode)
  /\ Grants(0, waiters'[p], readers'[p], writer'[p], mode)
  /\ \A o \in Process \ {p} : /\ waiters'[o] = waiters[o]
                              /\ readers'[o] = readers[o]
                              /\ writer'[o] = writer[o]
  /\ in \subseteq granted' /\ granted' \ in \subseteq ToSet(q)
  /\ ToSet(waiters'[p]) = ToSet(q) \ granted'

LEMMA GrantWaitersFacts ==
  ASSUME NEW p \in Process, NEW q \in Seq(Caller), NEW r \in Nat, NEW w \in BOOLEAN,
         NEW in \in SUBSET Caller, NEW mode \in [Caller -> BOOLEAN],
         Accurate(p, q, r, w, in, mode),
         TypeOK, GrantWaiters(p, q, r, w, in, mode)
  PROVE  AfterGrant(p, q, in, mode)
<1>1. PICK k \in 0 .. Len(q) :
        /\ Grants(k, q, r, w, mode)
        /\ waiters' = [waiters EXCEPT ![p] = Rest(q, k)]
        /\ readers' = [readers EXCEPT ![p] = ReadersWith(q, k, r, mode)]
        /\ writer' = [writer EXCEPT ![p] = WriterWith(q, k, w, mode)]
        /\ granted' = in \cup Served(q, k)
  BY DEF GrantWaiters, Rest, ReadersWith, WriterWith, Served
<1>2. Rest(q, k) \in Seq(Caller) /\ Len(Rest(q, k)) = Len(q) - k
  BY RestFacts
<1>3. ReadersWith(q, k, r, mode) \in Nat /\ WriterWith(q, k, w, mode) \in BOOLEAN
  BY DEF ReadersWith, WriterWith
<1>4. Served(q, k) \subseteq ToSet(q) /\ ToSet(q) \subseteq Caller
  BY DEF Served, ToSet
<1>5. /\ Accurate(p, Rest(q, k), ReadersWith(q, k, r, mode), WriterWith(q, k, w, mode),
                  in \cup Served(q, k), mode)
      /\ Grants(0, Rest(q, k), ReadersWith(q, k, r, mode), WriterWith(q, k, w, mode), mode)
  BY <1>1, GrantAccurate
<1>6. /\ waiters'[p] = Rest(q, k) /\ readers'[p] = ReadersWith(q, k, r, mode)
      /\ writer'[p] = WriterWith(q, k, w, mode)
      /\ \A o \in Process \ {p} : /\ waiters'[o] = waiters[o]
                                  /\ readers'[o] = readers[o]
                                  /\ writer'[o] = writer[o]
  BY <1>1 DEF TypeOK
<1>7. ToSet(Rest(q, k)) = ToSet(q) \ granted'
  <2>1. DOMAIN Rest(q, k) = 1 .. Len(q) - k /\ DOMAIN q = 1 .. Len(q)
    BY <1>2
  <2>2. \A i \in DOMAIN Rest(q, k) : Rest(q, k)[i] = q[k + i] /\ k + i \in DOMAIN q
    <3>1. \A i \in 1 .. Len(q) - k : k + i \in 1 .. Len(q)
      OBVIOUS
    <3> QED  BY <2>1, <3>1, RestFacts
  <2>3. ASSUME NEW i \in DOMAIN q, i > k
        PROVE  i - k \in DOMAIN Rest(q, k) /\ Rest(q, k)[i - k] = q[i]
    <3>1. i - k \in DOMAIN Rest(q, k)
      BY <2>1, <2>3
    <3> QED  BY <3>1, <2>1, <2>2
  <2>4. ToSet(Rest(q, k)) \subseteq ToSet(q) \ granted'
    BY <1>1, <1>5, <2>2 DEF Accurate, ToSet
  <2>5. ASSUME NEW i \in DOMAIN q, q[i] \notin granted'
        PROVE  q[i] \in ToSet(Rest(q, k))
    <3>1. i > k
      BY <1>1, <2>1, <2>5 DEF Served
    <3> QED  BY <3>1, <2>3 DEF ToSet
  <2> QED  BY <2>4, <2>5 DEF ToSet
<1>8. /\ waiters' \in [Process -> Seq(Caller)] /\ readers' \in [Process -> Nat]
      /\ writer' \in [Process -> BOOLEAN]
  BY <1>1, <1>2, <1>3 DEF TypeOK
<1> QED  BY <1>1, <1>4, <1>5, <1>6, <1>7, <1>8 DEF AfterGrant

-----------------------------------------------------------------------------
(***************************************************************************)
(* The inductive invariant.  A caller holds its processLock from the grant *)
(* until it gives it back, and the operating system's lock while its       *)
(* callback runs.                                                          *)
(***************************************************************************)
Account(p) == Accurate(p, waiters[p], readers[p], writer[p], granted, shared)

Waiting(p) ==
  {c \in Caller : ProcessOf[c] = p /\ pc[c] \in {"waiting", "withdrawing"} /\ c \notin granted}

GrantsAreHeld ==
  /\ \A c \in Caller : c \in granted => pc[c] # "out"
  /\ \A c \in Caller : pc[c] \in {"polling", "inside", "releasing"} => c \in granted

OSLockIsHeld ==
  /\ os = {c \in Caller : pc[c] = "inside"}
  /\ \A c, d \in os : ProcessOf[c] # ProcessOf[d] => shared[c] /\ shared[d]

IInv ==
  /\ TypeOK
  /\ \A p \in Process : Account(p)
  /\ \A p \in Process : ToSet(waiters[p]) = Waiting(p)
  /\ NobodyServable
  /\ GrantsAreHeld
  /\ OSLockIsHeld

LEMMA InitInvariant == Init => IInv
<1> SUFFICES ASSUME Init PROVE IInv
  OBVIOUS
<1> USE DEF Init
<1>1. TypeOK
  BY DEF TypeOK, Location
<1>2. ASSUME NEW p \in Process PROVE Account(p) /\ ToSet(waiters[p]) = Waiting(p)
  <2>1. waiters[p] = << >> /\ readers[p] = 0 /\ writer[p] = FALSE
    OBVIOUS
  <2>2. DOMAIN waiters[p] = {}
    BY <2>1
  <2>3. \A b : In(p, granted, shared, b) = {}
    BY DEF In
  <2>4. Account(p)
    BY <2>1, <2>2, <2>3, FS_EmptySet DEF Account, Accurate
  <2>5. ToSet(waiters[p]) = {} /\ Waiting(p) = {}
    BY <2>2 DEF ToSet, Waiting
  <2> QED  BY <2>4, <2>5
<1>3. NobodyServable
  BY DEF NobodyServable, Grants
<1>4. GrantsAreHeld /\ OSLockIsHeld
  BY DEF GrantsAreHeld, OSLockIsHeld
<1> QED  BY <1>1, <1>2, <1>3, <1>4 DEF IInv

\* A step that leaves the processLock of o, its holders and their modes alone
\* leaves its account accurate.
LEMMA OthersAccount ==
  ASSUME NEW o \in Process, NEW q, NEW r, NEW w, NEW in, NEW in2, NEW mode, NEW mode2,
         Accurate(o, q, r, w, in, mode),
         \A c : ProcessOf[c] = o => (c \in in <=> c \in in2),
         \A c \in in : ProcessOf[c] = o => mode2[c] = mode[c]
  PROVE  Accurate(o, q, r, w, in2, mode2)
<1>1. \A b : In(o, in2, mode2, b) = In(o, in, mode, b)
  BY DEF In
<1> QED  BY <1>1 DEF Accurate

\* What a step of c leaves behind that ran grantWaiters on queue q.
AfterLockStep(c, q, in) ==
  /\ waiters' \in [Process -> Seq(Caller)] /\ readers' \in [Process -> Nat]
  /\ writer' \in [Process -> BOOLEAN] /\ granted' \in SUBSET Caller
  /\ \A p \in Process : Account(p)'
  /\ NobodyServable'
  /\ \A o \in Process \ {ProcessOf[c]} : waiters'[o] = waiters[o]
  /\ ToSet(waiters'[ProcessOf[c]]) = ToSet(q) \ granted'
  /\ in \subseteq granted' /\ granted' \ in \subseteq ToSet(q)
  /\ \A d \in granted' \ in : ProcessOf[d] = ProcessOf[c]

(***************************************************************************)
(* A step of c that runs grantWaiters, from an accurate account of the     *)
(* processLock of c, leaves every account accurate and nobody servable.    *)
(***************************************************************************)
LEMMA LockStep ==
  ASSUME IInv, NEW c \in Caller, NEW q \in Seq(Caller), NEW r \in Nat, NEW w \in BOOLEAN,
         NEW in \in SUBSET Caller, NEW mode \in [Caller -> BOOLEAN],
         in \ {c} = granted \ {c},
         \A d \in Caller \ {c} : mode[d] = shared[d],
         Accurate(ProcessOf[c], q, r, w, in, mode),
         GrantWaiters(ProcessOf[c], q, r, w, in, mode), shared' = mode
  PROVE  AfterLockStep(c, q, in)
<1> DEFINE p == ProcessOf[c]
<1>1. p \in Process
  BY CallerAssumption
<1>2. TypeOK
  BY DEF IInv
<1>3. /\ waiters' \in [Process -> Seq(Caller)] /\ readers' \in [Process -> Nat]
      /\ writer' \in [Process -> BOOLEAN] /\ granted' \in SUBSET Caller
      /\ Accurate(p, waiters'[p], readers'[p], writer'[p], granted', mode)
      /\ Grants(0, waiters'[p], readers'[p], writer'[p], mode)
      /\ \A o \in Process \ {p} : /\ waiters'[o] = waiters[o]
                                  /\ readers'[o] = readers[o]
                                  /\ writer'[o] = writer[o]
      /\ in \subseteq granted' /\ granted' \ in \subseteq ToSet(q)
      /\ ToSet(waiters'[p]) = ToSet(q) \ granted'
  <2>1. Accurate(p, q, r, w, in, mode) /\ GrantWaiters(p, q, r, w, in, mode)
    OBVIOUS
  <2>2. AfterGrant(p, q, in, mode)
    <3> HIDE DEF p
    <3> QED  BY <1>1, <1>2, <2>1, GrantWaitersFacts
  <2> QED  BY <2>2 DEF AfterGrant
<1>4. \A d \in granted' \ in : ProcessOf[d] = p
  BY <1>3 DEF ToSet, Accurate
<1>5. ASSUME NEW o \in Process, o # p
      PROVE  /\ Accurate(o, waiters'[o], readers'[o], writer'[o], granted', mode)
             /\ Grants(0, waiters'[o], readers'[o], writer'[o], mode)
  <2>1. Accurate(o, waiters[o], readers[o], writer[o], granted, shared)
    BY DEF IInv, Account
  <2>2. \A d : ProcessOf[d] = o => (d \in granted <=> d \in granted')
    BY <1>3, <1>4, <1>5
  <2>3. \A d \in granted : ProcessOf[d] = o => mode[d] = shared[d]
    BY <1>2, <1>5 DEF TypeOK
  <2>4. Accurate(o, waiters[o], readers[o], writer[o], granted', mode)
    BY <2>1, <2>2, <2>3, OthersAccount
  <2>5. Grants(0, waiters[o], readers[o], writer[o], shared)
    BY DEF IInv, NobodyServable
  <2>6. waiters[o] # << >> => mode[waiters[o][1]] = shared[waiters[o][1]]
    <3>1. waiters[o] \in Seq(Caller)
      BY <1>2 DEF TypeOK
    <3>2. waiters[o] # << >> => 1 \in DOMAIN waiters[o] /\ waiters[o][1] \in Caller
      BY <3>1
    <3>3. waiters[o] # << >> => ProcessOf[waiters[o][1]] = o
      BY <3>2, <2>1 DEF Accurate
    <3> QED  BY <3>2, <3>3, <1>5
  <2>7. Grants(0, waiters[o], readers[o], writer[o], mode)
    BY <2>5, <2>6 DEF Grants, SharedPrefix
  <2> QED  BY <2>4, <2>7, <1>3, <1>5
<1>6. \A o \in Process : Account(o)'
  BY <1>3, <1>5 DEF Account
<1>7. NobodyServable'
  BY <1>3, <1>5 DEF NobodyServable
<1> QED  BY <1>3, <1>4, <1>6, <1>7 DEF AfterLockStep

\* Whoever is in queue q, c apart, is in queue u and before whoever it was before
\* in q, or who was not in q.
KeepsOrder(q, u, c) ==
  \A i \in DOMAIN q :
    q[i] # c => \E k \in DOMAIN u :
                  /\ u[k] = q[i]
                  /\ \A j \in DOMAIN u : (\A l \in DOMAIN q : q[l] = u[j] => i < l) => k < j

\* A queue without repetitions, without one of its waiters.
LEMMA WithoutFacts ==
  ASSUME NEW q \in Seq(Caller), NEW c \in ToSet(q),
         \A i, j \in DOMAIN q : q[i] = q[j] => i = j
  PROVE  /\ Without(q, c) \in Seq(Caller)
         /\ ToSet(Without(q, c)) = ToSet(q) \ {c}
         /\ KeepsOrder(q, Without(q, c), c)
         /\ \A i, j \in DOMAIN Without(q, c) : Without(q, c)[i] = Without(q, c)[j] => i = j
<1> DEFINE n == CHOOSE i \in DOMAIN q : q[i] = c
           u == SubSeq(q, 1, n - 1)
           v == SubSeq(q, n + 1, Len(q))
           at(j) == IF j < n THEN j ELSE j + 1
<1>1. n \in 1 .. Len(q) /\ q[n] = c
  BY DEF ToSet
<1> HIDE DEF n
<1>2. /\ u \in Seq(Caller) /\ Len(u) = n - 1
      /\ \A i \in 1 .. n - 1 : u[i] = q[i]
  <2>1. 1 \in Int /\ n - 1 \in Int /\ \A i \in 1 .. n - 1 : q[i] \in Caller
    BY <1>1
  <2>2. /\ u \in Seq(Caller)
        /\ Len(u) = IF 1 <= n - 1 THEN n - 1 - 1 + 1 ELSE 0
        /\ \A i \in 1 .. n - 1 - 1 + 1 : u[i] = q[1 + i - 1]
    BY <2>1, SubSeqProperties
  <2> QED  BY <2>2, <1>1
<1>3. /\ v \in Seq(Caller) /\ Len(v) = Len(q) - n
      /\ \A i \in 1 .. Len(q) - n : v[i] = q[n + i]
  BY <1>1, RestFacts DEF Rest
<1>4. Without(q, c) = u \o v
  BY DEF Without, RemoveAt, n
<1> HIDE DEF u, v
<1>5. /\ u \o v \in Seq(Caller) /\ Len(u \o v) = Len(u) + Len(v)
      /\ \A i \in 1 .. Len(u) + Len(v) :
           (u \o v)[i] = IF i <= Len(u) THEN u[i] ELSE v[i - Len(u)]
  BY <1>2, <1>3, ConcatProperties
<1>6. DOMAIN Without(q, c) = 1 .. Len(q) - 1
  BY <1>1, <1>2, <1>3, <1>4, <1>5
<1>7. ASSUME NEW j \in 1 .. Len(q) - 1
      PROVE  at(j) \in DOMAIN q /\ at(j) # n /\ Without(q, c)[j] = q[at(j)]
  <2>1. at(j) \in DOMAIN q /\ at(j) # n
    BY <1>1
  <2>2. CASE j < n
    <3>1. j \in 1 .. n - 1 /\ j \in 1 .. Len(u) + Len(v) /\ j <= Len(u) /\ at(j) = j
      BY <2>2, <1>1, <1>2, <1>3
    <3>2. (u \o v)[j] = q[j]
      BY <3>1, <1>2, <1>5
    <3> QED  BY <2>1, <3>1, <3>2, <1>4
  <2>3. CASE ~(j < n)
    <3>1. j - (n - 1) \in 1 .. Len(q) - n /\ n + (j - (n - 1)) = j + 1
      BY <2>3, <1>1
    <3>2. v[j - (n - 1)] = q[j + 1]
      BY <3>1, <1>3
    <3>3. (u \o v)[j] = v[j - (n - 1)]
      BY <2>3, <1>1, <1>2, <1>3, <1>5
    <3> QED  BY <2>1, <2>3, <3>2, <3>3, <1>4
  <2> QED  BY <2>1, <2>2, <2>3
<1>8. ASSUME NEW i \in DOMAIN q, i # n
      PROVE  \E j \in 1 .. Len(q) - 1 : Without(q, c)[j] = q[i]
  <2>1. CASE i < n
    <3>1. i \in 1 .. Len(q) - 1 /\ at(i) = i
      BY <2>1, <1>1
    <3> QED  BY <3>1, <1>7
  <2>2. CASE i > n
    <3>1. i - 1 \in 1 .. Len(q) - 1 /\ at(i - 1) = i
      BY <2>2, <1>1
    <3> QED  BY <3>1, <1>7
  <2> QED  BY <2>1, <2>2, <1>8, <1>1
<1>9. \A i, j \in 1 .. Len(q) - 1 : at(i) = at(j) => i = j
  BY <1>1
<1>10. ToSet(Without(q, c)) \subseteq ToSet(q) \ {c}
  BY <1>1, <1>6, <1>7 DEF ToSet
<1>11. ToSet(q) \ {c} \subseteq ToSet(Without(q, c))
  BY <1>1, <1>6, <1>8 DEF ToSet
<1>12. \A i, j \in DOMAIN Without(q, c) : Without(q, c)[i] = Without(q, c)[j] => i = j
  BY <1>6, <1>7, <1>9
<1>13. ASSUME NEW i \in DOMAIN q, q[i] # c
       PROVE  \E k \in DOMAIN Without(q, c) :
                /\ Without(q, c)[k] = q[i]
                /\ \A j \in DOMAIN Without(q, c) :
                     (\A l \in DOMAIN q : q[l] = Without(q, c)[j] => i < l) => k < j
  <2> DEFINE k == IF i < n THEN i ELSE i - 1
  <2>1. i \in 1 .. Len(q) /\ i # n
    BY <1>1, <1>13
  <2>2. k \in 1 .. Len(q) - 1 /\ at(k) = i
    BY <1>1, <2>1
  <2>3. Without(q, c)[k] = q[i]
    BY <1>7, <2>2
  <2>4. ASSUME NEW j \in 1 .. Len(q) - 1, i < at(j)
        PROVE  k < j
    BY <1>1, <2>1, <2>4
  <2>5. \A j \in 1 .. Len(q) - 1 :
          (\A l \in DOMAIN q : q[l] = Without(q, c)[j] => i < l) => i < at(j)
    BY <1>7
  <2> HIDE DEF k, at
  <2> QED  BY <1>6, <2>2, <2>3, <2>4, <2>5
<1> QED  BY <1>4, <1>5, <1>10, <1>11, <1>12, <1>13 DEF KeepsOrder

\* Moving c leaves the other callers where they are.
LEMMA AtFacts ==
  ASSUME TypeOK, NEW c \in Caller, NEW from, NEW to \in Location, At(c, from, to)
  PROVE  /\ pc[c] = from /\ pc'[c] = to
         /\ pc' \in [Caller -> Location]
         /\ \A d \in Caller \ {c} : pc'[d] = pc[d]
BY DEF At, TypeOK

Queued == {"waiting", "withdrawing"}

(***************************************************************************)
(* A step that leaves the processLocks alone and moves no queued caller    *)
(* out of its queue, or into one, leaves the accounts accurate.            *)
(***************************************************************************)
LEMMA FrameStep ==
  ASSUME IInv, UNCHANGED <<shared, granted, readers, writer, waiters>>,
         \A d \in Caller \ granted : pc'[d] \in Queued <=> pc[d] \in Queued
  PROVE  /\ \A p \in Process : Account(p)'
         /\ \A p \in Process : ToSet(waiters[p])' = Waiting(p)'
         /\ NobodyServable'
<1>1. \A p \in Process : Account(p)'
  BY DEF IInv, Account
<1>2. ASSUME NEW p \in Process PROVE Waiting(p)' = Waiting(p)
  BY DEF Waiting, Queued
<1>3. \A p \in Process : ToSet(waiters[p])' = Waiting(p)'
  BY <1>2 DEF IInv
<1>4. NobodyServable'
  BY DEF IInv, NobodyServable
<1> QED  BY <1>1, <1>3, <1>4

LEMMA TakeGrantStep ==
  ASSUME IInv, NEW c \in Caller, TakeGrant(c)
  PROVE  IInv'
<1>1. /\ pc[c] = "waiting" /\ pc'[c] \in {"releasing", "polling"} /\ c \in granted
      /\ pc' \in [Caller -> Location] /\ \A d \in Caller \ {c} : pc'[d] = pc[d]
      /\ UNCHANGED <<shared, done, granted, readers, writer, waiters, os>>
  BY AtFacts DEF TakeGrant, IInv, Location
<1>2. TypeOK'
  BY <1>1 DEF IInv, TypeOK
<1>3. \A d \in Caller \ granted : pc'[d] \in Queued <=> pc[d] \in Queued
  BY <1>1
<1>4. GrantsAreHeld'
  BY <1>1 DEF IInv, GrantsAreHeld
<1>5. OSLockIsHeld'
  BY <1>1 DEF IInv, OSLockIsHeld
<1> QED  BY <1>1, <1>2, <1>3, <1>4, <1>5, FrameStep DEF IInv

LEMMA SeeCancelStep ==
  ASSUME IInv, NEW c \in Caller, SeeCancel(c)
  PROVE  IInv'
<1>1. /\ pc[c] = "waiting" /\ pc'[c] = "withdrawing"
      /\ pc' \in [Caller -> Location] /\ \A d \in Caller \ {c} : pc'[d] = pc[d]
      /\ UNCHANGED <<shared, done, granted, readers, writer, waiters, os>>
  BY AtFacts DEF SeeCancel, IInv, Location
<1>2. TypeOK'
  BY <1>1 DEF IInv, TypeOK
<1>3. \A d \in Caller \ granted : pc'[d] \in Queued <=> pc[d] \in Queued
  BY <1>1 DEF Queued
<1>4. GrantsAreHeld'
  BY <1>1 DEF IInv, GrantsAreHeld
<1>5. OSLockIsHeld'
  BY <1>1 DEF IInv, OSLockIsHeld
<1> QED  BY <1>1, <1>2, <1>3, <1>4, <1>5, FrameStep DEF IInv

LEMMA GetOSLockStep ==
  ASSUME IInv, NEW c \in Caller, GetOSLock(c)
  PROVE  IInv'
<1>1. /\ pc[c] = "polling" /\ pc'[c] = "inside" /\ Compatible(c) /\ os' = os \cup {c}
      /\ pc' \in [Caller -> Location] /\ \A d \in Caller \ {c} : pc'[d] = pc[d]
      /\ UNCHANGED <<shared, done, granted, readers, writer, waiters>>
  BY AtFacts DEF GetOSLock, IInv, Location
<1>2. TypeOK'
  BY <1>1 DEF IInv, TypeOK
<1>3. \A d \in Caller \ granted : pc'[d] \in Queued <=> pc[d] \in Queued
  BY <1>1 DEF Queued
<1>4. GrantsAreHeld'
  BY <1>1 DEF IInv, GrantsAreHeld
<1>5. OSLockIsHeld'
  BY <1>1 DEF IInv, OSLockIsHeld, Compatible
<1> QED  BY <1>1, <1>2, <1>3, <1>4, <1>5, FrameStep DEF IInv

\* A caller that fails to get the operating system's lock, or is done with it.
LEMMA LeaveOSLockStep ==
  ASSUME IInv, NEW c \in Caller, AbandonOSLock(c) \/ FailOSLock(c) \/ Unlock(c)
  PROVE  IInv'
<1>1. /\ pc[c] \in {"polling", "inside"} /\ pc'[c] = "releasing" /\ os' = os \ {c}
      /\ pc' \in [Caller -> Location] /\ \A d \in Caller \ {c} : pc'[d] = pc[d]
      /\ UNCHANGED <<shared, done, granted, readers, writer, waiters>>
  BY AtFacts DEF AbandonOSLock, FailOSLock, Unlock, IInv, Location, OSLockIsHeld
<1>2. TypeOK'
  BY <1>1 DEF IInv, TypeOK
<1>3. \A d \in Caller \ granted : pc'[d] \in Queued <=> pc[d] \in Queued
  BY <1>1 DEF Queued
<1>4. GrantsAreHeld'
  BY <1>1 DEF IInv, GrantsAreHeld
<1>5. OSLockIsHeld'
  BY <1>1 DEF IInv, OSLockIsHeld
<1> QED  BY <1>1, <1>2, <1>3, <1>4, <1>5, FrameStep DEF IInv

LEMMA CancelContextStep ==
  ASSUME IInv, NEW c \in Caller, CancelContext(c)
  PROVE  IInv'
<1>1. /\ UNCHANGED <<pc, shared, granted, readers, writer, waiters, os>>
      /\ done' = [done EXCEPT ![c] = TRUE]
  BY DEF CancelContext
<1>2. TypeOK'
  BY <1>1 DEF IInv, TypeOK
<1>3. GrantsAreHeld' /\ OSLockIsHeld'
  BY <1>1 DEF IInv, GrantsAreHeld, OSLockIsHeld
<1> QED  BY <1>1, <1>2, <1>3, FrameStep DEF IInv

-----------------------------------------------------------------------------
(***************************************************************************)
(* The steps that change a processLock.                                    *)
(***************************************************************************)

\* c joins the queue of its process.
LEMMA EnqueueAccurate ==
  ASSUME IInv, NEW c \in Caller, pc[c] = "out", NEW isShared \in BOOLEAN
  PROVE  LET p == ProcessOf[c]
             mode == [shared EXCEPT ![c] = isShared]
             q == Enqueued(waiters[p], c)
         IN  /\ q \in Seq(Caller) /\ ToSet(q) = ToSet(waiters[p]) \cup {c}
             /\ mode \in [Caller -> BOOLEAN]
             /\ Accurate(p, q, readers[p], writer[p], granted, mode)
<1> DEFINE p == ProcessOf[c]
           mode == [shared EXCEPT ![c] = isShared]
           s == waiters[p]
           q == Enqueued(s, c)
<1>1. p \in Process /\ TypeOK
  BY CallerAssumption DEF IInv
<1>2. s \in Seq(Caller) /\ mode \in [Caller -> BOOLEAN]
  BY <1>1 DEF TypeOK
<1>3. c \notin granted /\ c \notin ToSet(s)
  BY <1>1 DEF IInv, GrantsAreHeld, Waiting
<1>4. Accurate(p, s, readers[p], writer[p], granted, shared)
  BY <1>1 DEF IInv, Account
<1>5. \A d \in granted : mode[d] = shared[d]
  BY <1>1, <1>3 DEF TypeOK
<1>6. Accurate(p, s, readers[p], writer[p], granted, mode)
  <2> HIDE DEF p, s, mode
  <2> QED  BY <1>1, <1>4, <1>5, OthersAccount
<1> HIDE DEF s
<1>7. /\ q \in Seq(Caller) /\ Len(q) = Len(s) + 1
      /\ \A i \in 1 .. Len(s) : q[i] = s[i]
      /\ q[Len(s) + 1] = c
  BY <1>2, AppendProperties DEF Enqueued
<1>8. DOMAIN q = DOMAIN s \cup {Len(s) + 1} /\ DOMAIN s = 1 .. Len(s)
  BY <1>2, <1>7
<1>9. ToSet(q) = ToSet(s) \cup {c}
  BY <1>7, <1>8 DEF ToSet
<1>10. \A i \in DOMAIN q : ProcessOf[q[i]] = p /\ q[i] \notin granted
  BY <1>3, <1>6, <1>7, <1>8 DEF Accurate
<1>11. \A i, j \in DOMAIN q : q[i] = q[j] => i = j
  BY <1>3, <1>6, <1>7, <1>8 DEF Accurate, ToSet
<1>12. Accurate(p, q, readers[p], writer[p], granted, mode)
  BY <1>6, <1>10, <1>11 DEF Accurate
<1> QED  BY <1>2, <1>7, <1>9, <1>12 DEF s

LEMMA EnqueueStep ==
  ASSUME IInv, NEW c \in Caller, Enqueue(c)
  PROVE  IInv'
<1> DEFINE p == ProcessOf[c]
<1>1. PICK isShared \in BOOLEAN :
        /\ shared' = [shared EXCEPT ![c] = isShared]
        /\ GrantWaiters(p, Enqueued(waiters[p], c), readers[p], writer[p], granted,
                        [shared EXCEPT ![c] = isShared])
  BY DEF Enqueue
<1>2. /\ pc[c] = "out" /\ pc'[c] = "waiting"
      /\ pc' \in [Caller -> Location] /\ \A d \in Caller \ {c} : pc'[d] = pc[d]
      /\ done' \in [Caller -> BOOLEAN] /\ os' = os
  BY AtFacts DEF Enqueue, IInv, Location, TypeOK
<1> DEFINE mode == [shared EXCEPT ![c] = isShared]
           q == Enqueued(waiters[p], c)
<1>3. /\ q \in Seq(Caller) /\ ToSet(q) = ToSet(waiters[p]) \cup {c}
      /\ mode \in [Caller -> BOOLEAN]
      /\ Accurate(p, q, readers[p], writer[p], granted, mode)
  BY <1>2, EnqueueAccurate
<1>4. /\ p \in Process /\ readers[p] \in Nat /\ writer[p] \in BOOLEAN /\ granted \in SUBSET Caller
      /\ \A d \in Caller \ {c} : mode[d] = shared[d]
  BY CallerAssumption DEF IInv, TypeOK
<1>5. AfterLockStep(c, q, granted)
  <2>1. GrantWaiters(p, q, readers[p], writer[p], granted, mode) /\ shared' = mode
    BY <1>1
  <2> HIDE DEF q, mode
  <2> QED  BY <2>1, <1>3, <1>4, LockStep
<1> HIDE DEF q
<1>6. TypeOK'
  BY <1>1, <1>2, <1>3, <1>5 DEF IInv, TypeOK, AfterLockStep
<1>7. ASSUME NEW o \in Process PROVE ToSet(waiters[o])' = Waiting(o)'
  <2>1. ToSet(waiters[o]) = Waiting(o)
    BY DEF IInv
  <2>2. CASE o = p
    BY <2>1, <2>2, <1>2, <1>3, <1>5 DEF AfterLockStep, Waiting
  <2>3. CASE o # p
    <3>1. waiters'[o] = waiters[o] /\ \A d : ProcessOf[d] = o => (d \in granted' <=> d \in granted)
      BY <2>3, <1>5 DEF AfterLockStep
    <3>2. Waiting(o)' = Waiting(o)
      BY <2>3, <3>1, <1>2 DEF Waiting
    <3> QED  BY <2>1, <3>1, <3>2
  <2> QED  BY <2>2, <2>3
<1>8. GrantsAreHeld'
  <2>1. \A d \in granted' : d \in granted \/ d = c \/ d \in ToSet(waiters[p])
    BY <1>3, <1>5 DEF AfterLockStep
  <2>2. \A d \in ToSet(waiters[p]) : pc[d] \in Queued
    BY <1>4 DEF IInv, Waiting, Queued
  <2> QED  BY <2>1, <2>2, <1>2, <1>5 DEF AfterLockStep, IInv, GrantsAreHeld, Queued
<1>9. OSLockIsHeld'
  <2>1. c \notin os /\ \A d \in os : d \in Caller /\ d # c
    BY <1>2 DEF IInv, OSLockIsHeld
  <2>2. \A d \in os : shared'[d] = shared[d]
    BY <2>1, <1>1 DEF IInv, TypeOK
  <2>3. os = {d \in Caller : pc'[d] = "inside"}
    BY <1>2 DEF IInv, OSLockIsHeld
  <2> QED  BY <2>2, <2>3, <1>2 DEF IInv, OSLockIsHeld
<1> QED  BY <1>5, <1>6, <1>7, <1>8, <1>9 DEF AfterLockStep, IInv

(***************************************************************************)
(* releaseLocked and the withdrawal of a waiter keep the invariant when c  *)
(* comes back from Lock.with.                                              *)
(***************************************************************************)
LEMMA ReturnStep ==
  ASSUME IInv, NEW c \in Caller, NEW q \in Seq(Caller), NEW in \in SUBSET Caller,
         c \notin ToSet(q), in = granted \ {c},
         ToSet(q) = ToSet(waiters[ProcessOf[c]]) \ {c},
         AfterLockStep(c, q, in),
         pc[c] \in {"withdrawing", "releasing"}, At(c, pc[c], "out"),
         UNCHANGED <<shared, done, os>>
  PROVE  IInv'
<1> DEFINE p == ProcessOf[c]
<1>1. /\ pc'[c] = "out"
      /\ pc' \in [Caller -> Location] /\ \A d \in Caller \ {c} : pc'[d] = pc[d]
  BY AtFacts DEF IInv, Location
<1>2. TypeOK'
  BY <1>1 DEF IInv, TypeOK, AfterLockStep
<1>3. c \notin granted'
  BY DEF AfterLockStep
<1>4. ASSUME NEW o \in Process PROVE ToSet(waiters[o])' = Waiting(o)'
  <2>1. ToSet(waiters[o]) = Waiting(o)
    BY DEF IInv
  <2>2. CASE o = p
    BY <2>1, <2>2, <1>1 DEF AfterLockStep, Waiting
  <2>3. CASE o # p
    <3>1. waiters'[o] = waiters[o] /\ \A d : ProcessOf[d] = o => (d \in granted' <=> d \in granted)
      BY <2>3 DEF AfterLockStep
    <3>2. Waiting(o)' = Waiting(o)
      BY <2>3, <3>1, <1>1 DEF Waiting
    <3> QED  BY <2>1, <3>1, <3>2
  <2> QED  BY <2>2, <2>3
<1>5. GrantsAreHeld'
  <2>1. \A d \in granted' : d \in granted \/ d \in ToSet(waiters[p])
    BY DEF AfterLockStep
  <2>2. \A d \in ToSet(waiters[p]) : pc[d] \in Queued
    BY CallerAssumption DEF IInv, Waiting, Queued
  <2>3. \A d \in granted \ {c} : d \in granted'
    BY DEF AfterLockStep
  <2> QED  BY <2>1, <2>2, <2>3, <1>1, <1>3 DEF IInv, GrantsAreHeld, Queued
<1>6. OSLockIsHeld'
  BY <1>1 DEF IInv, OSLockIsHeld
<1> QED  BY <1>2, <1>4, <1>5, <1>6 DEF AfterLockStep, IInv

\* Without one of its holders the account of a processLock is as releaseLocked
\* leaves it.
LEMMA ReleaseAccurate ==
  ASSUME IInv, NEW c \in granted
  PROVE  LET p == ProcessOf[c]
             r == IF shared[c] THEN readers[p] - 1 ELSE readers[p]
         IN  r \in Nat /\ Accurate(p, waiters[p], r, shared[c] /\ writer[p], granted \ {c}, shared)
<1> DEFINE p == ProcessOf[c]
           r == IF shared[c] THEN readers[p] - 1 ELSE readers[p]
           w == shared[c] /\ writer[p]
           A == In(p, granted, shared, TRUE)
           B == In(p, granted, shared, FALSE)
<1>1. c \in Caller /\ p \in Process /\ shared[c] \in BOOLEAN /\ writer[p] \in BOOLEAN
  BY CallerAssumption DEF IInv, TypeOK
<1>2. Accurate(p, waiters[p], readers[p], writer[p], granted, shared)
  BY <1>1 DEF IInv, Account
<1>3. A \in SUBSET Caller
  BY DEF In, IInv, TypeOK
<1>4. IsFiniteSet(A) /\ Cardinality(A) \in Nat
  BY <1>3, FiniteCallers
<1>5. /\ In(p, granted \ {c}, shared, TRUE) = A \ {c}
      /\ In(p, granted \ {c}, shared, FALSE) = B \ {c}
  BY DEF In
<1>6. Cardinality(A) = readers[p] /\ writer[p] = (B # {})
  BY <1>2, Zenon DEF Accurate
<1>7. Cardinality(A \ {c}) = IF c \in A THEN Cardinality(A) - 1 ELSE Cardinality(A)
  BY <1>4, FS_RemoveElement
<1>8. IsFiniteSet(A \ {c}) /\ Cardinality(A \ {c}) \in Nat
  BY <1>3, FiniteCallers
<1>9. c \in A <=> shared[c] = TRUE
  BY DEF In
<1>10. r = Cardinality(A \ {c})
  <2> HIDE DEF A, B, p
  <2>1. CASE shared[c] = TRUE
    BY <2>1, <1>6, <1>7, <1>9 DEF r
  <2>2. CASE shared[c] = FALSE
    BY <2>2, <1>6, <1>7, <1>9 DEF r
  <2> QED  BY <2>1, <2>2, <1>1
<1>11. w = (B \ {c} # {})
  <2>1. CASE shared[c] = TRUE
    <3>1. c \notin B
      BY <2>1 DEF In
    <3> QED  BY <2>1, <3>1, <1>1, <1>6
  <2>2. CASE shared[c] = FALSE
    <3>1. c \in B
      BY <2>2 DEF In
    <3>2. \A d \in B : d = c
      BY <3>1, <1>2, <1>6 DEF Accurate, In
    <3> QED  BY <2>2, <3>2
  <2> QED  BY <2>1, <2>2, <1>1
<1>12. w => \A d, e \in granted \ {c} : ProcessOf[d] = p /\ ProcessOf[e] = p => d = e
  BY <1>2 DEF Accurate
<1>13. /\ \A i \in DOMAIN waiters[p] : ProcessOf[waiters[p][i]] = p
         /\ waiters[p][i] \notin granted \ {c}
       /\ \A i, j \in DOMAIN waiters[p] : waiters[p][i] = waiters[p][j] => i = j
  BY <1>2 DEF Accurate
<1>14. Accurate(p, waiters[p], r, w, granted \ {c}, shared)
  <2> HIDE DEF r, w, A, B, p
  <2> QED  BY <1>5, <1>10, <1>11, <1>12, <1>13 DEF Accurate
<1> QED  BY <1>8, <1>10, <1>14

LEMMA ReleaseLockedFacts ==
  ASSUME IInv, NEW c \in granted, ReleaseLocked(c), UNCHANGED shared
  PROVE  AfterLockStep(c, waiters[ProcessOf[c]], granted \ {c})
<1> DEFINE p == ProcessOf[c]
           q == waiters[p]
           r == IF shared[c] THEN readers[p] - 1 ELSE readers[p]
           w == shared[c] /\ writer[p]
           in == granted \ {c}
<1>1. c \in Caller /\ p \in Process /\ q \in Seq(Caller) /\ w \in BOOLEAN
      /\ in \in SUBSET Caller /\ shared \in [Caller -> BOOLEAN]
  BY CallerAssumption DEF IInv, TypeOK
<1>2. r \in Nat /\ Accurate(p, q, r, w, in, shared)
  BY ReleaseAccurate
<1>3. GrantWaiters(p, q, r, w, in, shared) /\ shared' = shared
  BY DEF ReleaseLocked
<1>4. in \ {c} = granted \ {c} /\ \A d \in Caller \ {c} : shared[d] = shared[d]
  OBVIOUS
<1> HIDE DEF q, r, w, in
<1>5. AfterLockStep(c, q, in)
  BY <1>1, <1>2, <1>3, <1>4, LockStep
<1> QED  BY <1>5 DEF q, in

LEMMA ReleaseStep ==
  ASSUME IInv, NEW c \in Caller, Release(c)
  PROVE  IInv'
<1>1. pc[c] = "releasing" /\ At(c, pc[c], "out") /\ UNCHANGED <<shared, done, os>>
  BY DEF Release, At
<1>2. c \in granted
  BY <1>1 DEF IInv, GrantsAreHeld
<1>3. AfterLockStep(c, waiters[ProcessOf[c]], granted \ {c})
  BY <1>1, <1>2, ReleaseLockedFacts DEF Release
<1>4. ProcessOf[c] \in Process /\ waiters[ProcessOf[c]] \in Seq(Caller)
      /\ granted \ {c} \in SUBSET Caller
  BY CallerAssumption DEF IInv, TypeOK
<1>5. c \notin ToSet(waiters[ProcessOf[c]])
  BY <1>2, <1>4 DEF IInv, Waiting
<1> QED  BY <1>1, <1>3, <1>4, <1>5, ReturnStep

\* A waiter that was not granted the lock leaves the queue.
LEMMA LeaveQueueFacts ==
  ASSUME IInv, NEW c \in Caller, pc[c] = "withdrawing", c \notin granted,
         LeaveQueue(c), UNCHANGED shared
  PROVE  /\ Without(waiters[ProcessOf[c]], c) \in Seq(Caller)
         /\ ToSet(Without(waiters[ProcessOf[c]], c)) = ToSet(waiters[ProcessOf[c]]) \ {c}
         /\ AfterLockStep(c, Without(waiters[ProcessOf[c]], c), granted \ {c})
<1> DEFINE p == ProcessOf[c]
           s == waiters[p]
           q == Without(s, c)
           r == readers[p]
           w == writer[p]
<1>1. /\ p \in Process /\ s \in Seq(Caller) /\ r \in Nat /\ w \in BOOLEAN
      /\ granted \in SUBSET Caller /\ shared \in [Caller -> BOOLEAN]
  BY CallerAssumption DEF IInv, TypeOK
<1>2. Accurate(p, s, r, w, granted, shared)
  BY <1>1 DEF IInv, Account
<1>3. c \in ToSet(s)
  BY <1>1 DEF IInv, Waiting
<1>4. GrantWaiters(p, q, r, w, granted, shared) /\ shared' = shared
  BY DEF LeaveQueue
<1>5. granted \ {c} = granted
  OBVIOUS
<1> HIDE DEF s, r, w
<1>6. /\ q \in Seq(Caller) /\ ToSet(q) = ToSet(s) \ {c}
      /\ \A i, j \in DOMAIN q : q[i] = q[j] => i = j
  BY <1>1, <1>2, <1>3, WithoutFacts DEF Accurate
<1>7. \A i \in DOMAIN q : ProcessOf[q[i]] = p /\ q[i] \notin granted
  BY <1>2, <1>6 DEF Accurate, ToSet
<1> HIDE DEF q
<1>8. Accurate(p, q, r, w, granted, shared)
  BY <1>2, <1>6, <1>7 DEF Accurate
<1>9. AfterLockStep(c, q, granted)
  BY <1>1, <1>4, <1>6, <1>8, LockStep
<1> QED  BY <1>5, <1>6, <1>9 DEF q, s

LEMMA WithdrawStep ==
  ASSUME IInv, NEW c \in Caller, Withdraw(c)
  PROVE  IInv'
<1>1. pc[c] = "withdrawing" /\ At(c, pc[c], "out") /\ UNCHANGED <<shared, done, os>>
  BY DEF Withdraw, At
<1>2. ProcessOf[c] \in Process /\ waiters[ProcessOf[c]] \in Seq(Caller)
      /\ granted \ {c} \in SUBSET Caller
  BY CallerAssumption DEF IInv, TypeOK
<1>3. CASE c \in granted
  <2>1. AfterLockStep(c, waiters[ProcessOf[c]], granted \ {c})
    BY <1>1, <1>3, ReleaseLockedFacts DEF Withdraw, BackOut
  <2>2. c \notin ToSet(waiters[ProcessOf[c]])
    BY <1>2, <1>3 DEF IInv, Waiting
  <2> QED  BY <1>1, <1>2, <2>1, <2>2, ReturnStep
<1>4. CASE c \notin granted
  <2>1. LeaveQueue(c)
    BY <1>4 DEF Withdraw, BackOut
  <2>2. /\ Without(waiters[ProcessOf[c]], c) \in Seq(Caller)
        /\ ToSet(Without(waiters[ProcessOf[c]], c)) = ToSet(waiters[ProcessOf[c]]) \ {c}
        /\ AfterLockStep(c, Without(waiters[ProcessOf[c]], c), granted \ {c})
    BY <1>1, <1>4, <2>1, LeaveQueueFacts
  <2> QED  BY <1>1, <1>2, <2>2, ReturnStep
<1> QED  BY <1>3, <1>4

\* Every action preserves the accounts of the process locks and of the system's lock.
THEOREM Invariance == Spec => []IInv
<1>1. IInv /\ [Next]_vars => IInv'
  <2> SUFFICES ASSUME IInv, [Next]_vars PROVE IInv'
    OBVIOUS
  <2>1. ASSUME NEW c \in Caller, Enqueue(c) PROVE IInv'
    BY <2>1, EnqueueStep
  <2>2. ASSUME NEW c \in Caller, CancelContext(c) PROVE IInv'
    BY <2>2, CancelContextStep
  <2>3. ASSUME NEW c \in Caller, Select(c) PROVE IInv'
    BY <2>3, TakeGrantStep, SeeCancelStep DEF Select
  <2>4. ASSUME NEW c \in Caller, Withdraw(c) PROVE IInv'
    BY <2>4, WithdrawStep
  <2>5. ASSUME NEW c \in Caller, GetOSLock(c) PROVE IInv'
    BY <2>5, GetOSLockStep
  <2>6. ASSUME NEW c \in Caller, AbandonOSLock(c) \/ FailOSLock(c) \/ Unlock(c) PROVE IInv'
    BY <2>6, LeaveOSLockStep
  <2>7. ASSUME NEW c \in Caller, Release(c) PROVE IInv'
    BY <2>7, ReleaseStep
  <2>8. CASE UNCHANGED vars
    <3>1. TypeOK' /\ GrantsAreHeld' /\ OSLockIsHeld'
      BY <2>8 DEF vars, IInv, TypeOK, GrantsAreHeld, OSLockIsHeld
    <3> QED  BY <2>8, <3>1, FrameStep DEF vars, IInv
  <2> QED  BY <2>1, <2>2, <2>3, <2>4, <2>5, <2>6, <2>7, <2>8 DEF Next
<1> QED  BY <1>1, InitInvariant, PTL DEF Spec

-----------------------------------------------------------------------------
(***************************************************************************)
(* What the invariant gives, for every number of callers and processes.    *)
(***************************************************************************)

\* Every variable keeps its type; in particular no reader count is negative.
THEOREM Typing == Spec => []TypeOK
<1>1. IInv => TypeOK
  BY DEF IInv
<1> QED  BY <1>1, Invariance, PTL

\* Callbacks of WithExclusive run alone, among all processes.
LEMMA InvExcludes == IInv => Exclusion
<1> SUFFICES ASSUME IInv, NEW c \in Caller, NEW d \in Caller, c # d,
                    pc[c] = "inside", pc[d] = "inside"
             PROVE  shared[c] /\ shared[d]
  BY DEF Exclusion
<1>1. c \in os /\ d \in os /\ c \in granted /\ d \in granted
  BY DEF IInv, OSLockIsHeld, GrantsAreHeld
<1>2. CASE ProcessOf[c] # ProcessOf[d]
  BY <1>1, <1>2 DEF IInv, OSLockIsHeld
<1>3. CASE ProcessOf[c] = ProcessOf[d]
  <2> DEFINE p == ProcessOf[c]
  <2>1. p \in Process /\ shared \in [Caller -> BOOLEAN]
    BY CallerAssumption DEF IInv, TypeOK
  <2>2. Accurate(p, waiters[p], readers[p], writer[p], granted, shared)
    BY <2>1 DEF IInv, Account
  <2>3. In(p, granted, shared, FALSE) = {}
    BY <1>1, <1>3, <2>2 DEF Accurate
  <2> QED  BY <1>1, <1>3, <2>1, <2>3 DEF In
<1> QED  BY <1>2, <1>3

\* A callback never runs beside an exclusive one, of this process or another.
THEOREM ExclusionHolds == Spec => []Exclusion
BY Invariance, InvExcludes, PTL

\* A processLock counts exactly its holders, whatever is cancelled when.
LEMMA InvCounts == IInv => HoldersAreCounted
<1> SUFFICES ASSUME IInv, NEW p \in Process
             PROVE  /\ readers[p] = Cardinality({c \in Holders(p) : shared[c]})
                    /\ writer[p] = (\E c \in Holders(p) : ~shared[c])
                    /\ writer[p] => \A c, d \in Holders(p) : c = d
  BY DEF HoldersAreCounted
<1>1. Accurate(p, waiters[p], readers[p], writer[p], granted, shared)
  BY DEF IInv, Account
<1>2. \A c \in granted : shared[c] \in BOOLEAN
  BY DEF IInv, TypeOK
<1>3. /\ {c \in Holders(p) : shared[c]} = In(p, granted, shared, TRUE)
      /\ (\E c \in Holders(p) : ~shared[c]) <=> In(p, granted, shared, FALSE) # {}
  BY <1>2 DEF Holders, In
<1>4. readers[p] = Cardinality(In(p, granted, shared, TRUE))
  BY <1>1 DEF Accurate
<1>5. writer[p] = (In(p, granted, shared, FALSE) # {})
  BY <1>1, Zenon DEF Accurate
<1>6. writer[p] => \A c, d \in Holders(p) : c = d
  BY <1>1 DEF Accurate, Holders
<1> QED  BY <1>3, <1>4, <1>5, <1>6

\* The readers and the writer of a processLock are those who hold it, at any time.
THEOREM HoldersAreCountedHolds == Spec => []HoldersAreCounted
BY Invariance, InvCounts, PTL

\* Each queue holds, once, the callers that still wait.
LEMMA InvQueues == IInv => QueueIsExact
BY DEF IInv, QueueIsExact, Waiting, Account, Accurate

\* Who waits is in its queue once; who was served, or left, is in none.
THEOREM QueueIsExactHolds == Spec => []QueueIsExact
BY Invariance, InvQueues, PTL

\* No wake-up is lost.
THEOREM NobodyServableHolds == Spec => []NobodyServable
<1>1. IInv => NobodyServable
  BY DEF IInv
<1> QED  BY <1>1, Invariance, PTL

\* grantWaiters serves a queue from its head.
LEMMA ServedInOrder ==
  ASSUME NEW p \in Process, NEW q \in Seq(Caller), NEW r, NEW w, NEW in, NEW mode,
         \A i, j \in DOMAIN q : q[i] = q[j] => i = j,
         GrantWaiters(p, q, r, w, in, mode)
  PROVE  /\ granted' \ in \subseteq ToSet(q)
         /\ \A i, j \in DOMAIN q : i < j /\ q[j] \in granted' \ in => q[i] \in granted'
<1>1. PICK k \in 0 .. Len(q) : granted' = in \cup {q[i] : i \in 1 .. k}
  BY DEF GrantWaiters
<1>2. \A i \in 1 .. k : i \in DOMAIN q
  OBVIOUS
<1>3. ASSUME NEW i \in DOMAIN q, NEW j \in DOMAIN q, i < j, q[j] \in granted' \ in
      PROVE  q[i] \in granted'
  <2>1. PICK l \in 1 .. k : q[l] = q[j]
    BY <1>1, <1>3
  <2>2. l = j
    BY <1>2, <2>1
  <2>3. i \in 1 .. k
    BY <1>3, <2>2
  <2> QED  BY <1>1, <2>3
<1> QED  BY <1>1, <1>2, <1>3 DEF ToSet

(***************************************************************************)
(* A step of e that runs grantWaiters on a queue u, in which those that    *)
(* were in the queue of its process before, e apart, are in the same       *)
(* order and before e, serves nobody before one who stands ahead.          *)
(***************************************************************************)
LEMMA LockStepInOrder ==
  ASSUME IInv, NEW e \in Caller, NEW u \in Seq(Caller), NEW r, NEW w,
         NEW in \in SUBSET granted, NEW mode,
         \A i, j \in DOMAIN u : u[i] = u[j] => i = j,
         \A i \in DOMAIN u : ProcessOf[u[i]] = ProcessOf[e],
         KeepsOrder(waiters[ProcessOf[e]], u, e),
         GrantWaiters(ProcessOf[e], u, r, w, in, mode),
         NEW c \in granted' \ granted, NEW d, Ahead(d, c)
  PROVE  d \in granted' \/ d = e
<1> DEFINE q == waiters[ProcessOf[e]]
<1>1. ProcessOf[e] \in Process
  BY CallerAssumption
<1>2. /\ granted' \ in \subseteq ToSet(u)
      /\ \A i, j \in DOMAIN u : i < j /\ u[j] \in granted' \ in => u[i] \in granted'
  BY <1>1, ServedInOrder
<1>3. PICK j \in DOMAIN u : u[j] = c
  BY <1>2 DEF ToSet
<1>4. ProcessOf[c] = ProcessOf[e]
  BY <1>3
<1>5. PICK i \in DOMAIN q : q[i] = d /\ \A l \in DOMAIN q : q[l] = c => i < l
  BY <1>4 DEF Ahead
<1>6. CASE d # e
  <2>1. PICK k \in DOMAIN u :
          u[k] = d /\ \A l \in DOMAIN u : (\A m \in DOMAIN q : q[m] = u[l] => i < m) => k < l
    BY <1>5, <1>6 DEF KeepsOrder
  <2>2. k < j
    BY <1>3, <1>5, <2>1
  <2>3. u[k] \in granted'
    BY <1>2, <1>3, <2>2
  <2> QED  BY <2>1, <2>3
<1> QED  BY <1>6

LEMMA QueueFacts ==
  ASSUME IInv, NEW e \in Caller
  PROVE  LET q == waiters[ProcessOf[e]]
         IN  /\ q \in Seq(Caller)
             /\ \A i, j \in DOMAIN q : q[i] = q[j] => i = j
             /\ \A i \in DOMAIN q : ProcessOf[q[i]] = ProcessOf[e]
             /\ ToSet(q) = Waiting(ProcessOf[e])
             /\ KeepsOrder(q, q, e)
<1>1. ProcessOf[e] \in Process
  BY CallerAssumption
<1>2. Account(ProcessOf[e]) /\ ToSet(waiters[ProcessOf[e]]) = Waiting(ProcessOf[e])
  BY <1>1 DEF IInv
<1> QED  BY <1>1, <1>2 DEF IInv, TypeOK, Account, Accurate, KeepsOrder

LEMMA EnqueueInOrder ==
  ASSUME IInv, NEW e \in Caller, Enqueue(e),
         NEW c \in granted' \ granted, NEW d, Ahead(d, c)
  PROVE  d \in granted'
<1> DEFINE p == ProcessOf[e]
           q == waiters[p]
           u == Enqueued(q, e)
<1>1. PICK isShared \in BOOLEAN :
        GrantWaiters(p, u, readers[p], writer[p], granted, [shared EXCEPT ![e] = isShared])
  BY DEF Enqueue
<1>2. pc[e] = "out"
  BY DEF Enqueue, At
<1>3. u \in Seq(Caller) /\ Accurate(p, u, readers[p], writer[p], granted,
                                    [shared EXCEPT ![e] = isShared])
  BY <1>2, EnqueueAccurate
<1>4. q \in Seq(Caller) /\ ToSet(q) = Waiting(p)
  BY QueueFacts
<1>5. \A i \in DOMAIN q : q[i] # e
  BY <1>2, <1>4 DEF ToSet, Waiting
<1>6. KeepsOrder(q, u, e)
  <2> HIDE DEF q
  <2>1. /\ Len(u) = Len(q) + 1 /\ \A i \in 1 .. Len(q) : u[i] = q[i]
        /\ DOMAIN u = 1 .. Len(u) /\ DOMAIN q = 1 .. Len(q) /\ Len(q) \in Nat
    BY <1>3, <1>4, AppendProperties DEF Enqueued
  <2> HIDE DEF u
  <2>2. \A i \in DOMAIN q : i \in DOMAIN u /\ u[i] = q[i]
    BY <2>1
  <2>3. ASSUME NEW i \in DOMAIN q, NEW j \in DOMAIN u,
               \A l \in DOMAIN q : q[l] = u[j] => i < l
        PROVE  i < j
    <3>1. CASE j \in 1 .. Len(q)
      BY <2>1, <2>3, <3>1
    <3>2. CASE j = Len(q) + 1
      BY <2>1, <3>2
    <3> QED  BY <2>1, <3>1, <3>2
  <2> QED  BY <2>2, <2>3 DEF KeepsOrder
<1>7. /\ \A i, j \in DOMAIN u : u[i] = u[j] => i = j
      /\ \A i \in DOMAIN u : ProcessOf[u[i]] = p
  BY <1>3 DEF Accurate
<1> HIDE DEF u
<1>8. d \in granted' \/ d = e
  BY <1>1, <1>3, <1>6, <1>7, LockStepInOrder
<1>9. d # e
  <2>1. granted' \ granted \subseteq ToSet(u)
    BY <1>1, <1>3, <1>7, CallerAssumption, ServedInOrder
  <2>2. ProcessOf[c] = p
    BY <1>7, <2>1 DEF ToSet
  <2> QED  BY <1>5, <2>2 DEF Ahead
<1> QED  BY <1>8, <1>9

LEMMA ReleaseLockedInOrder ==
  ASSUME IInv, NEW e \in granted, ReleaseLocked(e),
         NEW c \in granted' \ granted, NEW d, Ahead(d, c)
  PROVE  d \in granted' \/ d = e
<1> DEFINE p == ProcessOf[e]
           q == waiters[p]
           r == IF shared[e] THEN readers[p] - 1 ELSE readers[p]
           w == shared[e] /\ writer[p]
<1>1. GrantWaiters(p, q, r, w, granted \ {e}, shared)
  BY DEF ReleaseLocked
<1>2. e \in Caller /\ granted \ {e} \in SUBSET granted
  BY DEF IInv, TypeOK
<1>3. /\ q \in Seq(Caller) /\ KeepsOrder(q, q, e)
      /\ \A i, j \in DOMAIN q : q[i] = q[j] => i = j
      /\ \A i \in DOMAIN q : ProcessOf[q[i]] = p
  BY <1>2, QueueFacts
<1> HIDE DEF r, w
<1> QED  BY <1>1, <1>2, <1>3, LockStepInOrder

LEMMA LeaveQueueInOrder ==
  ASSUME IInv, NEW e \in Caller, pc[e] = "withdrawing", e \notin granted, LeaveQueue(e),
         NEW c \in granted' \ granted, NEW d, Ahead(d, c)
  PROVE  d \in granted' \/ d = e
<1> DEFINE p == ProcessOf[e]
           q == waiters[p]
           u == Without(q, e)
<1>1. GrantWaiters(p, u, readers[p], writer[p], granted, shared)
  BY DEF LeaveQueue
<1>2. /\ q \in Seq(Caller) /\ ToSet(q) = Waiting(p)
      /\ \A i, j \in DOMAIN q : q[i] = q[j] => i = j
      /\ \A i \in DOMAIN q : ProcessOf[q[i]] = p
  BY QueueFacts
<1>3. e \in ToSet(q)
  BY <1>2 DEF Waiting
<1>4. /\ u \in Seq(Caller) /\ ToSet(u) = ToSet(q) \ {e} /\ KeepsOrder(q, u, e)
      /\ \A i, j \in DOMAIN u : u[i] = u[j] => i = j
  <2> HIDE DEF q
  <2> QED  BY <1>2, <1>3, WithoutFacts
<1> HIDE DEF q, u
<1>5. ASSUME NEW i \in DOMAIN u
      PROVE  ProcessOf[u[i]] = p
  <2>1. u[i] \in ToSet(q)
    BY <1>4 DEF ToSet
  <2> QED  BY <1>2, <2>1 DEF ToSet
<1> QED  BY <1>1, <1>4, <1>5, LockStepInOrder DEF q

\* Waiters are served first come, first served, whoever comes, goes or gives up.
THEOREM NoOvertakingHolds == Spec => NoOvertaking
<1> DEFINE InOrder == \A c \in granted' \ granted : \A d \in Caller :
                        Ahead(d, c) => d \in granted' \/ pc'[d] = "out"
<1>1. IInv /\ [Next]_vars => [InOrder]_vars
  <2> SUFFICES ASSUME IInv, Next, NEW c \in granted' \ granted, NEW d \in Caller, Ahead(d, c)
               PROVE  d \in granted' \/ pc'[d] = "out"
    OBVIOUS
  <2>1. PICK e \in Caller : Enqueue(e) \/ Withdraw(e) \/ Release(e)
    BY DEF Next, CancelContext, Select, TakeGrant, SeeCancel, GetOSLock, AbandonOSLock,
           FailOSLock, Unlock
  <2>2. CASE Enqueue(e)
    BY <2>2, EnqueueInOrder
  <2>3. CASE Withdraw(e)
    <3>1. pc[e] = "withdrawing" /\ pc'[e] = "out"
      BY <2>3 DEF Withdraw, At, IInv, TypeOK
    <3>2. CASE e \in granted
      BY <2>3, <3>1, <3>2, ReleaseLockedInOrder DEF Withdraw, BackOut
    <3>3. CASE e \notin granted
      BY <2>3, <3>1, <3>3, LeaveQueueInOrder DEF Withdraw, BackOut
    <3> QED  BY <3>2, <3>3
  <2>4. CASE Release(e)
    <3>1. pc'[e] = "out" /\ e \in granted
      BY <2>4 DEF Release, At, IInv, TypeOK, GrantsAreHeld
    <3> QED  BY <2>4, <3>1, ReleaseLockedInOrder DEF Release
  <2> QED  BY <2>1, <2>2, <2>3, <2>4
<1> QED  BY <1>1, Invariance, PTL DEF Spec, NoOvertaking

-----------------------------------------------------------------------------
(***************************************************************************)
(* Refinement: what callers see of the package is a ReadWriteLock.         *)
(***************************************************************************)
Calls == [c \in Caller |-> CallOf(c)]

LEMMA CallsFacts ==
  ASSUME NEW c \in Caller
  PROVE  /\ Calls[c] = CallOf(c) /\ Calls'[c] = CallOf(c)'
         /\ pc[c] \in {"out", "releasing"} <=> CallOf(c) = Promise!Out
         /\ CallOf(c).stage = "held" <=> pc[c] = "inside"
         /\ pc[c] = "inside" => CallOf(c).mode = IF shared[c] THEN "shared" ELSE "exclusive"
         /\ pc[c] \notin {"out", "releasing", "inside"} =>
              CallOf(c) = Promise!Wanted(IF shared[c] THEN "shared" ELSE "exclusive")
         /\ pc[c] = "inside" =>
              CallOf(c) = Promise!Held(IF shared[c] THEN "shared" ELSE "exclusive")
BY DEF Calls, CallOf, Promise!Out, Promise!Wanted, Promise!Held

\* A step that moves c alone changes the call of c alone.
LEMMA OneCallMoves ==
  ASSUME NEW c \in Caller, \A d \in Caller \ {c} : pc'[d] = pc[d] /\ shared'[d] = shared[d]
  PROVE  Calls' = [Calls EXCEPT ![c] = CallOf(c)']
BY DEF Calls, CallOf

\* The call of c comes back.
LEMMA LeaveRefines ==
  ASSUME NEW c \in Caller, \A d \in Caller \ {c} : pc'[d] = pc[d] /\ shared'[d] = shared[d],
         pc[c] \notin {"out", "releasing"}, pc'[c] \in {"out", "releasing"}
  PROVE  Promise!Leave(c)
<1>1. CallOf(c)' = Promise!Out
  BY DEF CallOf, Promise!Out
<1>2. Calls' = [Calls EXCEPT ![c] = Promise!Out]
  BY <1>1, OneCallMoves
<1>3. Calls[c] # Promise!Out
  BY CallsFacts
<1> QED  BY <1>2, <1>3 DEF Promise!Leave, Calls

\* A step that no caller can see.
LEMMA StutterRefines ==
  ASSUME NEW c \in Caller, \A d \in Caller \ {c} : pc'[d] = pc[d] /\ shared'[d] = shared[d],
         shared'[c] = shared[c],
         \/ pc[c] \in {"out", "releasing"} /\ pc'[c] \in {"out", "releasing"}
         \/ pc[c] \in {"waiting", "withdrawing", "polling"}
            /\ pc'[c] \in {"waiting", "withdrawing", "polling"}
  PROVE  Calls' = Calls
BY DEF Calls, CallOf

LEMMA StepRefines ==
  ASSUME IInv, Next
  PROVE  Promise!Next \/ Calls' = Calls
<1>1. TypeOK /\ shared \in [Caller -> BOOLEAN]
  BY DEF IInv, TypeOK
<1>2. ASSUME NEW c \in Caller, Enqueue(c) PROVE Promise!Next
  <2>1. /\ pc[c] = "out" /\ pc'[c] = "waiting" /\ \A d \in Caller \ {c} : pc'[d] = pc[d]
    BY <1>1, <1>2, AtFacts DEF Enqueue, Location
  <2>2. PICK isShared \in BOOLEAN : shared' = [shared EXCEPT ![c] = isShared]
    BY <1>2 DEF Enqueue
  <2>3. \A d \in Caller \ {c} : shared'[d] = shared[d]
    BY <1>1, <2>2
  <2> DEFINE mode == IF shared'[c] THEN "shared" ELSE "exclusive"
  <2>4. CallOf(c)' = Promise!Wanted(mode)
    BY <2>1 DEF CallOf, Promise!Wanted
  <2>5. Calls' = [Calls EXCEPT ![c] = Promise!Wanted(mode)]
    BY <2>1, <2>3, <2>4, OneCallMoves
  <2>6. Calls[c] = Promise!Out
    BY <2>1, CallsFacts
  <2>7. Promise!Ask(c, mode) /\ mode \in Promise!Mode
    BY <2>5, <2>6 DEF Promise!Ask, Promise!Mode, Calls
  <2> QED  BY <2>7 DEF Promise!Next
<1>3. ASSUME NEW c \in Caller, GetOSLock(c) PROVE Promise!Next
  <2>1. /\ pc[c] = "polling" /\ pc'[c] = "inside" /\ \A d \in Caller \ {c} : pc'[d] = pc[d]
        /\ shared' = shared /\ Compatible(c)
    BY <1>1, <1>3, AtFacts DEF GetOSLock, Location
  <2> DEFINE mode == IF shared[c] THEN "shared" ELSE "exclusive"
  <2>2. Calls[c] = Promise!Wanted(mode)
    BY <2>1, CallsFacts
  <2>3. CallOf(c)' = Promise!Held(mode)
    BY <2>1 DEF CallOf, Promise!Held
  <2>4. Calls' = [Calls EXCEPT ![c] = Promise!Held(mode)]
    BY <2>1, <2>3, OneCallMoves
  <2>5. ASSUME NEW d \in Caller \ {c}, Calls[d].stage = "held"
        PROVE  mode = "shared" /\ Calls[d].mode = "shared"
    <3>1. pc[d] = "inside" /\ pc'[d] = "inside" /\ shared'[d] = shared[d] /\ shared'[c] = shared[c]
      BY <2>1, <2>5, CallsFacts
    <3>2. Exclusion'
      <4>1. IInv'
        BY <1>3, GetOSLockStep
      <4> QED  BY <4>1, InvExcludes, PTL
    <3>3. shared[c] /\ shared[d]
      BY <2>1, <3>1, <3>2 DEF Exclusion
    <3> QED  BY <3>1, <3>3, CallsFacts
  <2>6. Promise!Acquire(c, mode) /\ mode \in Promise!Mode
    BY <2>2, <2>4, <2>5 DEF Promise!Acquire, Promise!Mode, Calls
  <2> QED  BY <2>6 DEF Promise!Next
<1>4. ASSUME NEW c \in Caller, TakeGrant(c) \/ SeeCancel(c) \/ Withdraw(c) \/ Release(c)
                                 \/ AbandonOSLock(c) \/ FailOSLock(c) \/ Unlock(c)
      PROVE  Promise!Next \/ Calls' = Calls
  <2>1. /\ \A d \in Caller \ {c} : pc'[d] = pc[d] /\ shared'[d] = shared[d]
        /\ shared'[c] = shared[c]
    BY <1>1, <1>4 DEF TakeGrant, SeeCancel, Withdraw, Release, AbandonOSLock, FailOSLock, Unlock,
                      At, TypeOK
  <2>2. \/ pc[c] = "waiting" /\ pc'[c] \in {"releasing", "polling", "withdrawing"}
        \/ pc[c] = "withdrawing" /\ pc'[c] = "out"
        \/ pc[c] = "releasing" /\ pc'[c] = "out"
        \/ pc[c] \in {"polling", "inside"} /\ pc'[c] = "releasing"
    BY <1>1, <1>4 DEF TakeGrant, SeeCancel, Withdraw, Release, AbandonOSLock, FailOSLock, Unlock,
                      At, TypeOK
  <2>3. Promise!Leave(c) \/ Calls' = Calls
    BY <2>1, <2>2, LeaveRefines, StutterRefines
  <2> QED  BY <2>3 DEF Promise!Next
<1>5. ASSUME NEW c \in Caller, CancelContext(c) PROVE Calls' = Calls
  BY <1>5 DEF CancelContext, Calls, CallOf
<1> QED  BY <1>2, <1>3, <1>4, <1>5 DEF Next, Select

(***************************************************************************)
(* The package implements a readers-writer lock, for every number of       *)
(* callers and processes.                                                  *)
(***************************************************************************)
THEOREM Implementation == Spec => ImplementsReadWriteLock
<1>1. Init => Promise!Init
  BY DEF Init, Promise!Init, CallOf, Promise!Out
<1>2. IInv /\ [Next]_vars => [Promise!Next]_Calls
  <2> SUFFICES ASSUME IInv, [Next]_vars PROVE Promise!Next \/ Calls' = Calls
    OBVIOUS
  <2>1. CASE UNCHANGED vars
    BY <2>1 DEF vars, Calls, CallOf
  <2> QED  BY <2>1, StepRefines
<1> QED  BY <1>1, <1>2, Invariance, PTL DEF Spec, ImplementsReadWriteLock, Promise!Spec, Calls
=============================================================================
