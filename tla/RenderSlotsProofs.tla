------------------------- MODULE RenderSlotsProofs -------------------------
(***************************************************************************)
(* Proofs about RenderSlots, for any finite set of requests and any number *)
(* of permits.  IInv is inductive; the safety invariants follow from it.   *)
(***************************************************************************)
EXTENDS RenderSlots, FiniteSetTheorems, SequenceTheorems, TLAPS

-----------------------------------------------------------------------------
(* Lemmas about the operators of the model *)

\* Every set of requests is finite and has a natural number of members.
LEMMA RequestsFinite ==
  ASSUME NEW S \in SUBSET Request
  PROVE  IsFiniteSet(S) /\ Cardinality(S) \in Nat
BY RequestAssumption, FS_Subset, FS_CardinalityType

\* Taking a request out of the deque keeps the others, each of them once, in
\* their order.
LEMMA WithoutProperties ==
  ASSUME NEW q \in Seq(Request),
         \A i, j \in DOMAIN q : q[i] = q[j] => i = j,
         NEW r \in Request, \E i \in DOMAIN q : q[i] = r
  PROVE  LET p == Without(q, r)
         IN  /\ p \in Seq(Request)
             /\ \A s \in Request : (\E i \in DOMAIN p : p[i] = s) <=>
                                   s # r /\ \E i \in DOMAIN q : q[i] = s
             /\ \A i, j \in DOMAIN p : p[i] = p[j] => i = j
             /\ \A s, t \in Request :
                  (\E i, j \in DOMAIN p : i < j /\ p[i] = s /\ p[j] = t) <=>
                  /\ s # r /\ t # r
                  /\ \E i, j \in DOMAIN q : i < j /\ q[i] = s /\ q[j] = t
<1> DEFINE n == CHOOSE i \in DOMAIN q : q[i] = r
           front == SubSeq(q, 1, n - 1)
           back == SubSeq(q, n + 1, Len(q))
           p == front \o back
<1>1. /\ Len(q) \in Nat
      /\ DOMAIN q = 1..Len(q)
      /\ \A i \in 1..Len(q) : q[i] \in Request
  BY LenProperties
<1>2. n \in 1..Len(q) /\ q[n] = r
  BY <1>1
<1> HIDE DEF n
<1>3. /\ front \in Seq(Request)
      /\ Len(front) = n - 1
      /\ \A i \in 1..n-1 : front[i] = q[i]
  <2>1. \A i \in 1..n-1 : q[i] \in Request
    BY <1>1, <1>2
  <2>2. /\ SubSeq(q, 1, n - 1) \in Seq(Request)
        /\ Len(SubSeq(q, 1, n-1)) = IF 1 <= n-1 THEN n-1-1+1 ELSE 0
        /\ \A i \in 1 .. n-1-1+1 : SubSeq(q, 1, n-1)[i] = q[1+i-1]
    BY <2>1, <1>2, <1>1, SubSeqProperties
  <2> QED BY <2>2, <1>1, <1>2
<1>4. /\ back \in Seq(Request)
      /\ Len(back) = Len(q) - n
      /\ \A i \in 1..Len(q)-n : back[i] = q[n + i]
  <2>1. \A i \in n+1..Len(q) : q[i] \in Request
    BY <1>1, <1>2
  <2>2. /\ SubSeq(q, n+1, Len(q)) \in Seq(Request)
        /\ Len(SubSeq(q, n+1, Len(q))) = IF n+1 <= Len(q) THEN Len(q)-(n+1)+1 ELSE 0
        /\ \A i \in 1 .. Len(q)-(n+1)+1 : SubSeq(q, n+1, Len(q))[i] = q[(n+1)+i-1]
    BY <2>1, <1>2, <1>1, SubSeqProperties
  <2>3. (IF n+1 <= Len(q) THEN Len(q)-(n+1)+1 ELSE 0) = Len(q) - n
    <3>1. n \in Int /\ Len(q) \in Int /\ n <= Len(q)
      BY <1>1, <1>2
    <3>2. CASE n + 1 <= Len(q)
      BY <3>1, <3>2
    <3>3. CASE ~(n + 1 <= Len(q))
      <4>1. Len(q) - n = 0
        BY <3>1, <3>3
      <4> QED BY <3>3, <4>1
    <3> QED BY <3>2, <3>3
  <2>4. \A i \in 1..Len(q)-n : i \in 1..Len(q)-(n+1)+1 /\ (n+1)+i-1 = n + i
    BY <1>1, <1>2
  <2> QED BY <2>2, <2>3, <2>4
<1> HIDE DEF front, back
<1>5. /\ p \in Seq(Request)
      /\ Len(p) = Len(q) - 1
      /\ \A i \in 1..Len(q)-1 : p[i] = IF i < n THEN q[i] ELSE q[i + 1]
  <2>1. /\ front \o back \in Seq(Request)
        /\ Len(front \o back) = Len(front) + Len(back)
        /\ \A i \in 1..Len(front) + Len(back) :
             (front \o back)[i] = IF i <= Len(front) THEN front[i] ELSE back[i - Len(front)]
    <3>1. front \in Seq(Request) /\ back \in Seq(Request)
      BY <1>3, <1>4
    <3> QED BY <3>1, ConcatProperties, Zenon
  <2>2. Len(front) + Len(back) = Len(q) - 1
    BY <1>1, <1>2, <1>3, <1>4
  <2>3. ASSUME NEW i \in 1..Len(q)-1, i < n
        PROVE  i \in 1..n-1 /\ i <= Len(front)
    BY <2>3, <1>1, <1>2, <1>3
  <2>4. ASSUME NEW i \in 1..Len(q)-1, ~(i < n)
        PROVE  /\ i - Len(front) \in 1..Len(q)-n
               /\ ~(i <= Len(front))
               /\ n + (i - Len(front)) = i + 1
    BY <2>4, <1>1, <1>2, <1>3
  <2>5. \A i \in 1..Len(q)-1 : p[i] = IF i < n THEN q[i] ELSE q[i + 1]
    BY <2>1, <2>2, <2>3, <2>4, <1>3, <1>4
  <2> QED BY <2>1, <2>2, <2>5
<1>6. DOMAIN p = 1..Len(q)-1
  BY <1>5, LenProperties
<1> HIDE DEF p
<1>7. ASSUME NEW s \in Request, NEW i \in DOMAIN q, q[i] = s, s # r
      PROVE  \E j \in DOMAIN p : p[j] = s
  <2>1. CASE i < n
    <3>1. i \in 1..Len(q)-1
      BY <2>1, <1>1, <1>2
    <3> QED BY <3>1, <2>1, <1>7, <1>5, <1>6
  <2>2. CASE i > n
    <3>1. i - 1 \in 1..Len(q)-1 /\ ~(i - 1 < n) /\ (i - 1) + 1 = i
      BY <2>2, <1>1, <1>2
    <3> QED BY <3>1, <1>7, <1>5, <1>6
  <2> QED BY <2>1, <2>2, <1>1, <1>2, <1>7
<1> DEFINE at(j) == IF j < n THEN j ELSE j + 1
<1>8. ASSUME NEW j \in DOMAIN p
      PROVE  at(j) \in DOMAIN q /\ at(j) # n /\ p[j] = q[at(j)]
  BY <1>1, <1>2, <1>5, <1>6
<1>9. \A i, j \in DOMAIN p : p[i] = p[j] => i = j
  <2> SUFFICES ASSUME NEW i \in DOMAIN p, NEW j \in DOMAIN p, p[i] = p[j]
               PROVE  i = j
    OBVIOUS
  <2>1. at(i) = at(j)
    BY <1>8
  <2> QED BY <2>1, <1>1, <1>2, <1>6
<1>10. Without(q, r) = p
  BY DEF Without, n, front, back, p
<1>11. ASSUME NEW s \in Request, NEW j \in DOMAIN p, p[j] = s
       PROVE  s # r /\ \E i \in DOMAIN q : q[i] = s
  BY <1>11, <1>8, <1>2, <1>1
<1>12. ASSUME NEW i \in DOMAIN p, NEW j \in DOMAIN p, i < j
       PROVE  at(i) < at(j)
  BY <1>12, <1>1, <1>2, <1>6
<1>13. ASSUME NEW i \in DOMAIN q, i # n
       PROVE  \E j \in DOMAIN p : at(j) = i /\ p[j] = q[i]
  <2>1. CASE i < n
    <3>1. i \in 1..Len(q)-1
      BY <2>1, <1>1, <1>2
    <3> QED BY <3>1, <2>1, <1>5, <1>6
  <2>2. CASE i > n
    <3>1. i - 1 \in 1..Len(q)-1 /\ ~(i - 1 < n) /\ (i - 1) + 1 = i
      BY <2>2, <1>1, <1>2
    <3> QED BY <3>1, <1>5, <1>6
  <2> QED BY <2>1, <2>2, <1>13, <1>1, <1>2
<1>14. ASSUME NEW i \in DOMAIN p, NEW j \in DOMAIN p, at(i) < at(j)
       PROVE  i < j
  BY <1>14, <1>1, <1>2, <1>6
<1> HIDE DEF at
<1>15. ASSUME NEW s \in Request, NEW t \in Request
       PROVE  (\E i, j \in DOMAIN p : i < j /\ p[i] = s /\ p[j] = t) <=>
              /\ s # r /\ t # r
              /\ \E i, j \in DOMAIN q : i < j /\ q[i] = s /\ q[j] = t
  <2>1. ASSUME NEW i \in DOMAIN p, NEW j \in DOMAIN p, i < j, p[i] = s, p[j] = t
        PROVE  /\ s # r /\ t # r
               /\ \E k, l \in DOMAIN q : k < l /\ q[k] = s /\ q[l] = t
    BY <2>1, <1>8, <1>11, <1>12
  <2>2. ASSUME s # r, t # r,
               NEW k \in DOMAIN q, NEW l \in DOMAIN q, k < l, q[k] = s, q[l] = t
        PROVE  \E i, j \in DOMAIN p : i < j /\ p[i] = s /\ p[j] = t
    <3>1. k # n /\ l # n
      BY <2>2, <1>2
    <3>2. PICK i \in DOMAIN p : at(i) = k /\ p[i] = q[k]
      BY <3>1, <1>13
    <3>3. PICK j \in DOMAIN p : at(j) = l /\ p[j] = q[l]
      BY <3>1, <1>13
    <3> QED BY <2>2, <3>2, <3>3, <1>14
  <2> QED BY <2>1, <2>2
<1> QED BY <1>5, <1>7, <1>9, <1>10, <1>11, <1>15

\* WakeUp moves permits from the semaphore to waiters whose future was pending
\* and creates none; if it leaves one over, and was allowed as many grants as
\* there were permits, nobody is left waiting.
LEMMA WakeUpProperties ==
  ASSUME NEW v \in Nat, NEW f \in [Request -> Future], NEW k \in 0..v,
         WakeUp(v, f, k)
  PROVE  \E G \in SUBSET Pending(f) :
           /\ Cardinality(G) \in 0..k
           /\ value' = v - Cardinality(G)
           /\ value' \in 0..v
           /\ fut' \in [Request -> Future]
           /\ \A r \in Request : fut'[r] = IF r \in G THEN "result" ELSE f[r]
           /\ Pending(fut') = Pending(f) \ G
           /\ Cardinality(G) < k => Pending(fut') = {}
           /\ \A r \in G, s \in Pending(f) \ G : Ahead(r, s)
<1>1. PICK G \in FirstWaiters(f, k) :
           /\ value' = v - Cardinality(G)
           /\ fut' = [r \in Request |-> IF r \in G THEN "result" ELSE f[r]]
  BY DEF WakeUp
<1>2. G \in SUBSET Pending(f) /\ Cardinality(G) <= k
      /\ (Cardinality(G) < k => G = Pending(f))
      /\ \A r \in G, s \in Pending(f) \ G : Ahead(r, s)
  BY <1>1 DEF FirstWaiters
<1>3. Cardinality(G) \in 0..k
  BY <1>2, RequestsFinite DEF Pending
<1>4. value' \in 0..v
  BY <1>1, <1>3
<1>5. fut' \in [Request -> Future]
  BY <1>1 DEF Future
<1>6. \A r \in Request : fut'[r] = IF r \in G THEN "result" ELSE f[r]
  BY <1>1
<1>7. Pending(fut') = Pending(f) \ G
  BY <1>6 DEF Pending
<1> QED BY <1>1, <1>2, <1>3, <1>4, <1>5, <1>6, <1>7

\* Hence it conserves permits: f are the futures, and those who render after
\* the step render whatever becomes of the futures.
LEMMA WakeUpConserves ==
  ASSUME NEW v \in Nat, NEW f \in [Request -> Future], NEW k \in 0..v,
         WakeUp(v, f, k),
         \A r \in Pending(f) : pc'[r] # "rendering",
         v + Cardinality({r \in Request : pc'[r] = "rendering" \/ f[r] = "result"})
           = MaxConcurrent
  PROVE  PermitsConserved' /\ value' \in 0..MaxConcurrent
<1> DEFINE H == {r \in Request : pc'[r] = "rendering" \/ f[r] = "result"}
<1>1. PICK G \in SUBSET Pending(f) :
           /\ Cardinality(G) \in 0..k
           /\ value' = v - Cardinality(G)
           /\ value' \in 0..v
           /\ \A r \in Request : fut'[r] = IF r \in G THEN "result" ELSE f[r]
  BY WakeUpProperties
<1>2. H \cap G = {} /\ G \in SUBSET Request /\ Held' = H \cup G
  BY <1>1 DEF Pending, Held
<1>3. IsFiniteSet(H) /\ Cardinality(H) \in Nat /\ IsFiniteSet(G) /\ Cardinality(G) \in Nat
  BY <1>2, RequestsFinite
<1>4. Cardinality(H \cup G) = Cardinality(H) + Cardinality(G)
  BY <1>2, <1>3, FS_Union, FS_EmptySet
<1> QED
  BY <1>1, <1>2, <1>3, <1>4, MaxConcurrentAssumption DEF PermitsConserved

\* After a wake-up that was allowed at least one grant, a permit lies idle only
\* if nobody waits or somebody was just granted one.
LEMMA WakeUpLeavesNoneIdle ==
  ASSUME NEW v \in Nat, NEW f \in [Request -> Future], NEW k \in 0..v,
         k = v \/ k = 1, WakeUp(v, f, k)
  PROVE  NoIdlePermit'
<1>1. PICK G \in SUBSET Pending(f) :
           /\ Cardinality(G) \in 0..k
           /\ value' = v - Cardinality(G)
           /\ \A r \in Request : fut'[r] = IF r \in G THEN "result" ELSE f[r]
           /\ Cardinality(G) < k => Pending(fut') = {}
  BY WakeUpProperties
<1>2. CASE Cardinality(G) < k
  BY <1>1, <1>2 DEF NoIdlePermit
<1>3. CASE Cardinality(G) = k /\ k = v
  BY <1>1, <1>3 DEF NoIdlePermit
<1>4. CASE Cardinality(G) = k /\ k = 1
  <2>1. G # {} /\ G \subseteq Request
    BY <1>1, <1>4, FS_EmptySet DEF Pending
  <2> QED BY <2>1, <1>1 DEF NoIdlePermit
<1> QED BY <1>1, <1>2, <1>3, <1>4

-----------------------------------------------------------------------------
(* The inductive invariant *)

LEMMA InitInvariant == Init => IInv
<1> SUFFICES ASSUME Init PROVE IInv
  OBVIOUS
<1>1. Held = {} /\ Queued = {} /\ Rendering = {} /\ Pending(fut) = {}
  BY DEF Init, Held, Queued, Rendering, Pending
<1>2. TypeOK
  BY MaxConcurrentAssumption, EmptySeq
     DEF Init, TypeOK, Place, Future, Source, Answer
<1>3. PermitsConserved /\ GaugesTrue
  BY <1>1, FS_EmptySet, MaxConcurrentAssumption DEF Init, PermitsConserved, GaugesTrue
<1>4. NoIdlePermit
  BY <1>1 DEF NoIdlePermit
<1> QED BY <1>2, <1>3, <1>4 DEF IInv

\* A request that is turned away touches nothing.
LEMMA RefuseInvariant ==
  ASSUME IInv, NEW r \in Request, Refuse(r)
  PROVE  IInv'
<1> USE DEF IInv, Refuse, Finish
<1>1. TypeOK'
  BY DEF TypeOK, Place, Answer
<1>2. /\ Held' = Held /\ Queued' = Queued /\ Rendering' = Rendering
      /\ Pending(fut)' = Pending(fut)
  BY DEF TypeOK, Place, Held, Queued, Rendering, Pending
<1>3. PermitsConserved' /\ GaugesTrue'
  BY <1>2 DEF PermitsConserved, GaugesTrue
<1>4. NoIdlePermit'
  BY <1>2 DEF NoIdlePermit
<1> QED BY <1>1, <1>3, <1>4

\* The semaphore is not locked: a permit is free, and nobody is pending.
LEMMA AcquireAtOnceInvariant ==
  ASSUME IInv, NEW r \in Request, AcquireAtOnce(r)
  PROVE  IInv'
<1> USE DEF IInv, AcquireAtOnce
<1>1. value \in 1..MaxConcurrent /\ value' = value - 1
  BY MaxConcurrentAssumption DEF Locked, TypeOK
<1>2. TypeOK'
  BY <1>1, MaxConcurrentAssumption DEF TypeOK, Place
<1>3. /\ Held' = Held \cup {r} /\ r \notin Held
      /\ Queued' = Queued
      /\ Rendering' = Rendering \cup {r} /\ r \notin Rendering
  BY DEF TypeOK, Place, Future, Held, Queued, Rendering
<1>4. PermitsConserved'
  <2>1. Cardinality(Held') = Cardinality(Held) + 1 /\ Cardinality(Held) \in Nat
    BY <1>3, RequestsFinite, FS_AddElement DEF Held
  <2> QED BY <1>1, <2>1, MaxConcurrentAssumption DEF PermitsConserved
<1>5. GaugesTrue'
  <2>1. Cardinality(Rendering') = Cardinality(Rendering) + 1
    BY <1>3, RequestsFinite, FS_AddElement DEF Rendering
  <2> QED BY <1>3, <2>1 DEF GaugesTrue
<1>6. NoIdlePermit'
  <2>1. Pending(fut) = {}
    <3> SUFFICES ASSUME NEW s \in Request, fut[s] = "pending" PROVE FALSE
      BY DEF Pending
    <3>1. PICK i \in DOMAIN waiters : waiters[i] = s
      BY DEF TypeOK
    <3> QED BY <3>1 DEF Locked
  <2> QED BY <2>1 DEF NoIdlePermit, Pending
<1> QED BY <1>2, <1>4, <1>5, <1>6

\* The semaphore is locked: no permit is free, or another waiter is pending or
\* granted, and so NoIdlePermit holds of the newcomer as well.
LEMMA EnqueueInvariant ==
  ASSUME IInv, NEW r \in Request, Enqueue(r)
  PROVE  IInv'
<1> USE DEF IInv, Enqueue
<1>1. /\ waiters' \in Seq(Request)
      /\ DOMAIN waiters = 1..Len(waiters) /\ Len(waiters) \in Nat
      /\ DOMAIN waiters' = 1..Len(waiters) + 1
      /\ \A i \in 1..Len(waiters) : waiters'[i] = waiters[i]
      /\ waiters'[Len(waiters) + 1] = r
  <2>1. waiters \in Seq(Request)
    BY DEF TypeOK
  <2>2. /\ Append(waiters, r) \in Seq(Request)
        /\ Len(Append(waiters, r)) = Len(waiters) + 1
        /\ \A i \in 1..Len(waiters) : Append(waiters, r)[i] = waiters[i]
        /\ Append(waiters, r)[Len(waiters) + 1] = r
    BY <2>1, AppendProperties
  <2>3. DOMAIN Append(waiters, r) = 1..Len(Append(waiters, r))
        /\ DOMAIN waiters = 1..Len(waiters) /\ Len(waiters) \in Nat
    BY <2>1, <2>2, LenProperties
  <2> QED BY <2>2, <2>3
<1>2. \A i \in DOMAIN waiters : waiters[i] # r
  BY DEF TypeOK
<1>3. TypeOK'
  <2>1. \A s \in Request : fut'[s] # "none" <=> pc'[s] = "queued"
    BY DEF TypeOK
  <2>2. \A s \in Request : pc'[s] = "queued" <=>
                            \E i \in DOMAIN waiters' : waiters'[i] = s
    <3>1. ASSUME NEW s \in Request, s # r
          PROVE  pc'[s] = "queued" <=> \E i \in DOMAIN waiters' : waiters'[i] = s
      <4>1. pc'[s] = pc[s]
        BY <3>1 DEF TypeOK
      <4>2. (\E i \in DOMAIN waiters' : waiters'[i] = s) <=>
            (\E i \in DOMAIN waiters : waiters[i] = s)
        BY <1>1, <3>1
      <4> QED BY <4>1, <4>2 DEF TypeOK
    <3>2. pc'[r] = "queued" /\ \E i \in DOMAIN waiters' : waiters'[i] = r
      BY <1>1 DEF TypeOK
    <3> QED BY <3>1, <3>2
  <2>3. \A i, j \in DOMAIN waiters' : waiters'[i] = waiters'[j] => i = j
    BY <1>1, <1>2 DEF TypeOK
  <2> QED BY <1>1, <2>1, <2>2, <2>3 DEF TypeOK, Place, Future
<1>4. /\ Held' = Held
      /\ Queued' = Queued \cup {r} /\ r \notin Queued
      /\ Rendering' = Rendering
  BY DEF TypeOK, Place, Future, Held, Queued, Rendering
<1>5. PermitsConserved'
  BY <1>4 DEF PermitsConserved
<1>6. GaugesTrue'
  <2>1. Cardinality(Queued') = Cardinality(Queued) + 1
    BY <1>4, RequestsFinite, FS_AddElement DEF Queued
  <2> QED BY <1>4, <2>1 DEF GaugesTrue
<1>7. NoIdlePermit'
  <2> SUFFICES ASSUME value > 0
               PROVE  \E s \in Request : fut'[s] = "result"
    BY DEF NoIdlePermit
  <2>1. PICK i \in DOMAIN waiters : fut[waiters[i]] # "cancelled"
    BY DEF Locked, TypeOK
  <2>2. waiters[i] \in Request /\ fut[waiters[i]] \in {"pending", "result"}
    BY <1>1, <2>1 DEF TypeOK, Future
  <2>3. PICK s \in Request : fut[s] = "result"
    BY <2>2 DEF NoIdlePermit, Pending
  <2> QED BY <2>3 DEF TypeOK
<1> QED BY <1>3, <1>5, <1>6, <1>7

\* A cancellation, by the timer or by the client, is noted; it makes nobody
\* pending and takes no grant away.
LEMMA CancelInvariant ==
  ASSUME IInv, NEW r \in Request, NEW who \in Source, CancelTask(r, who)
  PROVE  IInv'
<1> USE DEF IInv, CancelTask
<1>1. TypeOK'
  BY DEF TypeOK, Future, Source
<1>2. /\ Held' = Held /\ Queued' = Queued /\ Rendering' = Rendering
      /\ Pending(fut)' \subseteq Pending(fut)
      /\ \A s \in Request : fut[s] = "result" => fut'[s] = "result"
  BY DEF TypeOK, Held, Queued, Rendering, Pending
<1>3. PermitsConserved' /\ GaugesTrue'
  BY <1>2 DEF PermitsConserved, GaugesTrue
<1>4. NoIdlePermit'
  BY <1>2 DEF NoIdlePermit
<1> QED BY <1>1, <1>3, <1>4

\* A queued request that leaves the deque, for wherever: the deque still lists
\* the queued requests, each of them once.
LEMMA LeaveDeque ==
  ASSUME TypeOK, NEW r \in Request, fut[r] # "none",
         waiters' = Without(waiters, r),
         NEW p \in Place \ {"queued"}, pc' = [pc EXCEPT ![r] = p],
         fut' \in [Request -> Future],
         \A s \in Request : fut'[s] # "none" <=> fut[s] # "none" /\ s # r
  PROVE  /\ waiters' \in Seq(Request)
         /\ \A s \in Request : fut'[s] # "none" <=> pc'[s] = "queued"
         /\ \A s \in Request : pc'[s] = "queued" <=>
                                \E i \in DOMAIN waiters' : waiters'[i] = s
         /\ \A i, j \in DOMAIN waiters' : waiters'[i] = waiters'[j] => i = j
<1>1. /\ waiters \in Seq(Request)
      /\ \A i, j \in DOMAIN waiters : waiters[i] = waiters[j] => i = j
      /\ \E i \in DOMAIN waiters : waiters[i] = r
  BY DEF TypeOK
<1>2. /\ waiters' \in Seq(Request)
      /\ \A s \in Request : (\E i \in DOMAIN waiters' : waiters'[i] = s) <=>
                            s # r /\ \E i \in DOMAIN waiters : waiters[i] = s
      /\ \A i, j \in DOMAIN waiters' : waiters'[i] = waiters'[j] => i = j
  BY <1>1, WithoutProperties
<1>3. \A s \in Request : pc'[s] = "queued" <=> s # r /\ pc[s] = "queued"
  BY DEF TypeOK
<1>4. \A s \in Request : fut[s] # "none" <=> pc[s] = "queued"
  BY DEF TypeOK
<1>5. \A s \in Request : pc[s] = "queued" <=>
                        \E i \in DOMAIN waiters : waiters[i] = s
  BY DEF TypeOK
<1> QED BY <1>2, <1>3, <1>4, <1>5

\* The gauge of waiting requests follows one that leaves the queue.
LEMMA OneFewerQueued ==
  ASSUME TypeOK, GaugesTrue, NEW r \in Request, pc[r] = "queued",
         NEW p \in Place \ {"queued"}, pc' = [pc EXCEPT ![r] = p],
         queue_waiting' = queue_waiting - 1
  PROVE  queue_waiting' = Cardinality(Queued') /\ queue_waiting' \in Nat
<1>1. Queued' = Queued \ {r} /\ r \in Queued
  BY DEF TypeOK, Queued
<1>2. Cardinality(Queued') = Cardinality(Queued) - 1 /\ Cardinality(Queued') \in Nat
  BY <1>1, RequestsFinite, FS_RemoveElement DEF Queued
<1> QED BY <1>2 DEF GaugesTrue

\* A request that was granted a permit keeps it: it was held already.
LEMMA AdmitInvariant ==
  ASSUME IInv, NEW r \in Request, Admit(r)
  PROVE  IInv'
<1> DEFINE f == [fut EXCEPT ![r] = "none"]
<1> USE DEF IInv, Admit
<1>1. /\ f \in [Request -> Future] /\ value \in Nat /\ value \in 0..value
      /\ WakeUp(value, f, value) /\ pc[r] = "queued"
      /\ \A s \in Request : f[s] = IF s = r THEN "none" ELSE fut[s]
  BY MaxConcurrentAssumption DEF TypeOK, Future, WakeAll
<1> HIDE DEF f
<1>2. /\ fut' \in [Request -> Future]
      /\ \A s \in Request : fut'[s] # "none" <=> f[s] # "none"
  <2>1. PICK G \in SUBSET Pending(f) :
          /\ fut' \in [Request -> Future]
          /\ \A s \in Request : fut'[s] = IF s \in G THEN "result" ELSE f[s]
    BY <1>1, WakeUpProperties
  <2> QED BY <2>1 DEF Pending
<1>3. PermitsConserved' /\ value' \in 0..MaxConcurrent
  <2>1. {s \in Request : pc'[s] = "rendering" \/ f[s] = "result"} = Held
    BY <1>1 DEF Held, TypeOK
  <2>2. \A s \in Pending(f) : pc'[s] # "rendering"
    BY <1>1 DEF Pending, TypeOK
  <2> QED BY <1>1, <2>1, <2>2, WakeUpConserves DEF PermitsConserved
<1>4. GaugesTrue' /\ queue_waiting' \in Nat /\ concurrent' \in Nat
  <2>1. queue_waiting' = Cardinality(Queued') /\ queue_waiting' \in Nat
    BY <1>1, OneFewerQueued DEF Place
  <2>2. Rendering' = Rendering \cup {r} /\ r \notin Rendering
    BY <1>1 DEF Rendering, TypeOK
  <2>3. Cardinality(Rendering') = Cardinality(Rendering) + 1
        /\ Cardinality(Rendering) \in Nat
    BY <2>2, RequestsFinite, FS_AddElement DEF Rendering
  <2> QED BY <2>1, <2>3 DEF GaugesTrue
<1>5. TypeOK'
  <2>1. \A s \in Request : fut'[s] # "none" <=> fut[s] # "none" /\ s # r
    BY <1>1, <1>2
  <2>2. /\ waiters' \in Seq(Request)
        /\ \A s \in Request : fut'[s] # "none" <=> pc'[s] = "queued"
        /\ \A s \in Request : pc'[s] = "queued" <=>
                               \E i \in DOMAIN waiters' : waiters'[i] = s
        /\ \A i, j \in DOMAIN waiters' : waiters'[i] = waiters'[j] => i = j
    BY <1>2, <2>1, LeaveDeque DEF Place
  <2> QED BY <1>2, <1>3, <1>4, <2>2 DEF TypeOK, Place
<1>6. NoIdlePermit'
  BY <1>1, WakeUpLeavesNoneIdle
<1> QED BY <1>3, <1>4, <1>5, <1>6

\* A request that gives up puts back the permit it had been granted, if any.
LEMMA GiveUpInvariant ==
  ASSUME IInv, NEW r \in Request, GiveUp(r)
  PROVE  IInv'
<1> DEFINE f == [fut EXCEPT ![r] = "none"]
           v == value + GivenBack(r)
           H == {s \in Request : pc'[s] = "rendering" \/ f[s] = "result"}
<1> USE DEF IInv, GiveUp, Finish
<1>1. /\ f \in [Request -> Future] /\ v \in Nat /\ v \in 0..v
      /\ v = value + GivenBack(r) /\ WakeUp(v, f, v) /\ pc[r] = "queued"
      /\ \A s \in Request : f[s] = IF s = r THEN "none" ELSE fut[s]
  BY MaxConcurrentAssumption DEF TypeOK, Future, WakeAll, GivenBack
<1> HIDE DEF f, v
<1>2. /\ fut' \in [Request -> Future]
      /\ \A s \in Request : fut'[s] # "none" <=> f[s] # "none"
  <2>1. PICK G \in SUBSET Pending(f) :
          /\ fut' \in [Request -> Future]
          /\ \A s \in Request : fut'[s] = IF s \in G THEN "result" ELSE f[s]
    BY <1>1, WakeUpProperties
  <2> QED BY <2>1 DEF Pending
<1>3. PermitsConserved' /\ value' \in 0..MaxConcurrent
  <2>1. H = Held \ {r}
    BY <1>1 DEF Held, TypeOK
  <2>2. Cardinality(H) = Cardinality(Held) - GivenBack(r)
        /\ Cardinality(Held) \in Nat
    <3>1. r \in Held <=> fut[r] = "result"
      BY <1>1 DEF Held
    <3>2. IsFiniteSet(Held) /\ Cardinality(Held) \in Nat
      BY RequestsFinite DEF Held
    <3>3. Cardinality(Held \ {r}) =
            IF r \in Held THEN Cardinality(Held) - 1 ELSE Cardinality(Held)
      BY <3>2, FS_RemoveElement
    <3> HIDE DEF H, GiveUp
    <3> QED BY <2>1, <3>1, <3>2, <3>3 DEF GivenBack
  <2>3. v + Cardinality(H) = MaxConcurrent
    BY <2>2, <1>1, MaxConcurrentAssumption DEF PermitsConserved, TypeOK, GivenBack
  <2>4. \A s \in Pending(f) : pc'[s] # "rendering"
    BY <1>1 DEF Pending, TypeOK
  <2> QED BY <1>1, <2>3, <2>4, WakeUpConserves
<1>4. GaugesTrue' /\ queue_waiting' \in Nat /\ concurrent' \in Nat
  <2>1. queue_waiting' = Cardinality(Queued') /\ queue_waiting' \in Nat
    BY <1>1, OneFewerQueued DEF Place, GaugeAfterGivingUp
  <2>2. Rendering' = Rendering
    BY <1>1 DEF Rendering, TypeOK
  <2> QED BY <2>1, <2>2 DEF GaugesTrue, TypeOK
<1>5. TypeOK'
  <2>1. \A s \in Request : fut'[s] # "none" <=> fut[s] # "none" /\ s # r
    BY <1>1, <1>2
  <2>2. /\ waiters' \in Seq(Request)
        /\ \A s \in Request : fut'[s] # "none" <=> pc'[s] = "queued"
        /\ \A s \in Request : pc'[s] = "queued" <=>
                               \E i \in DOMAIN waiters' : waiters'[i] = s
        /\ \A i, j \in DOMAIN waiters' : waiters'[i] = waiters'[j] => i = j
    BY <1>2, <2>1, LeaveDeque DEF Place
  <2> QED BY <1>2, <1>3, <1>4, <2>2 DEF TypeOK, Place, Answer
<1>6. NoIdlePermit'
  <2> QED BY <1>1, WakeUpLeavesNoneIdle
<1> QED BY <1>3, <1>4, <1>5, <1>6

\* A render that ends gives its permit back, and at most one waiter is granted.
LEMMA RenderEndsInvariant ==
  ASSUME IInv, NEW r \in Request, NEW a \in Answer, RenderEnds(r, a)
  PROVE  IInv'
<1> DEFINE v == value + 1
           H == {s \in Request : pc'[s] = "rendering" \/ fut[s] = "result"}
<1> USE DEF IInv, RenderEnds, Finish
<1>1. /\ fut \in [Request -> Future] /\ v = value + 1 /\ v \in Nat /\ 1 \in 0..v
      /\ WakeUp(v, fut, 1)
  BY MaxConcurrentAssumption DEF TypeOK, ReleaseFinally, Release
<1> HIDE DEF v
<1>2. /\ fut' \in [Request -> Future]
      /\ \A s \in Request : fut'[s] # "none" <=> fut[s] # "none"
  <2>1. PICK G \in SUBSET Pending(fut) :
          /\ fut' \in [Request -> Future]
          /\ \A s \in Request : fut'[s] = IF s \in G THEN "result" ELSE fut[s]
    BY <1>1, WakeUpProperties
  <2> QED BY <2>1 DEF Pending
<1>3. PermitsConserved' /\ value' \in 0..MaxConcurrent
  <2>1. H = Held \ {r} /\ r \in Held
    BY DEF Held, TypeOK
  <2>2. Cardinality(H) = Cardinality(Held) - 1 /\ Cardinality(Held) \in Nat
    BY <2>1, RequestsFinite, FS_RemoveElement DEF Held
  <2>3. v + Cardinality(H) = MaxConcurrent
    <3>1. value \in Nat /\ value + Cardinality(Held) = MaxConcurrent
      BY MaxConcurrentAssumption DEF PermitsConserved, TypeOK
    <3> HIDE DEF H, RenderEnds
    <3> QED BY <1>1, <2>2, <3>1
  <2>4. \A s \in Pending(fut) : pc'[s] # "rendering"
    BY DEF Pending, TypeOK
  <2> QED BY <1>1, <2>3, <2>4, WakeUpConserves
<1>4. GaugesTrue' /\ concurrent' \in Nat
  <2>1. Queued' = Queued
    BY DEF Queued, TypeOK
  <2>2. Rendering' = Rendering \ {r} /\ r \in Rendering
    BY DEF Rendering, TypeOK
  <2>3. Cardinality(Rendering') = Cardinality(Rendering) - 1
        /\ Cardinality(Rendering') \in Nat
    BY <2>2, RequestsFinite, FS_RemoveElement DEF Rendering
  <2> QED BY <2>1, <2>3 DEF GaugesTrue
<1>5. TypeOK'
  <2>1. \A s \in Request : pc'[s] = "queued" <=> pc[s] = "queued"
    BY DEF TypeOK
  <2> QED BY <1>2, <1>3, <1>4, <2>1 DEF TypeOK, Place
<1>6. NoIdlePermit'
  <2> QED BY <1>1, WakeUpLeavesNoneIdle
<1> QED BY <1>3, <1>4, <1>5, <1>6

\* One step of the system, whichever.
LEMMA StepInvariant == IInv /\ [Next]_vars => IInv'
<1> SUFFICES ASSUME IInv, [Next]_vars PROVE IInv'
  OBVIOUS
<1>1. ASSUME NEW r \in Request, Refuse(r) PROVE IInv'
  BY <1>1, RefuseInvariant
<1>2. ASSUME NEW r \in Request, AcquireAtOnce(r) PROVE IInv'
  BY <1>2, AcquireAtOnceInvariant
<1>3. ASSUME NEW r \in Request, Enqueue(r) PROVE IInv'
  BY <1>3, EnqueueInvariant
<1>4. ASSUME NEW r \in Request, QueueTimeout(r) \/ Disconnect(r) PROVE IInv'
  BY <1>4, CancelInvariant DEF QueueTimeout, Disconnect, Source
<1>5. ASSUME NEW r \in Request, Admit(r) PROVE IInv'
  BY <1>5, AdmitInvariant
<1>6. ASSUME NEW r \in Request, GiveUp(r) PROVE IInv'
  BY <1>6, GiveUpInvariant
<1>7. ASSUME NEW r \in Request, AnyEnd(r) PROVE IInv'
  BY <1>7, RenderEndsInvariant DEF AnyEnd
<1>8. CASE UNCHANGED vars
  BY <1>8 DEF vars, IInv, TypeOK, PermitsConserved, GaugesTrue, NoIdlePermit,
              Held, Queued, Rendering, Pending
<1> QED
  BY <1>1, <1>2, <1>3, <1>4, <1>5, <1>6, <1>7, <1>8 DEF Next, Finished

\* IInv holds in every state the route and the semaphore can reach.
THEOREM Invariance == Spec => []IInv
BY InitInvariant, StepInvariant, PTL DEF Spec

-----------------------------------------------------------------------------
(* What it implies *)

\* The variables keep their types and the deque lists exactly the queued.
THEOREM TypeCorrect == Spec => []TypeOK
BY Invariance, PTL DEF IInv

\* No interleaving of grants, timeouts, disconnects and ends loses a permit or
\* makes one up.
THEOREM NoPermitLeaks == Spec => []PermitsConserved
BY Invariance, PTL DEF IInv

\* No interleaving loses a wake-up: idle permits and waiters do not coexist
\* unless a granted waiter is about to run.
THEOREM NoLostWakeUp == Spec => []NoIdlePermit
BY Invariance, PTL DEF IInv

\* The two gauges are right in every reachable state.
THEOREM GaugesCorrect == Spec => []GaugesTrue
BY Invariance, PTL DEF IInv

\* At most MaxConcurrent requests render at a time.
THEOREM Capacity == Spec => []AtMostMaxConcurrent
<1>1. IInv => AtMostMaxConcurrent
  <2> SUFFICES ASSUME IInv PROVE AtMostMaxConcurrent
    OBVIOUS
  <2>1. Rendering \subseteq Held /\ Held \in SUBSET Request
    BY DEF Rendering, Held
  <2>2. Cardinality(Rendering) <= Cardinality(Held)
    BY <2>1, RequestsFinite, FS_Subset
  <2>3. Cardinality(Held) <= MaxConcurrent
    BY <2>1, RequestsFinite, MaxConcurrentAssumption DEF IInv, TypeOK, PermitsConserved
  <2> QED
    BY <2>1, <2>2, <2>3, RequestsFinite, MaxConcurrentAssumption
       DEF AtMostMaxConcurrent, Rendering
<1> QED BY <1>1, Invariance, PTL

-----------------------------------------------------------------------------
(* Order *)

\* Whoever is granted a permit by a wake-up is ahead of whoever still waits.
LEMMA WakeUpInOrder ==
  ASSUME NEW v \in Nat, NEW f \in [Request -> Future], NEW k \in 0..v,
         WakeUp(v, f, k),
         NEW r \in Request, f[r] # "result", fut'[r] = "result",
         NEW s \in Request, fut'[s] = "pending"
  PROVE  Ahead(r, s)
<1>1. PICK G \in SUBSET Pending(f) :
           /\ \A t \in Request : fut'[t] = IF t \in G THEN "result" ELSE f[t]
           /\ Pending(fut') = Pending(f) \ G
           /\ \A t \in G, u \in Pending(f) \ G : Ahead(t, u)
  BY WakeUpProperties
<1>2. r \in G
  BY <1>1
<1>3. s \in Pending(f) \ G
  BY <1>1 DEF Pending
<1> QED BY <1>1, <1>2, <1>3

\* A permit is never given past a request that came earlier and still waits.
THEOREM FirstComeFirstServed == Spec => InArrivalOrder
<1>1. IInv /\ [Next]_vars => [NoOvertaking]_vars
  <2> SUFFICES ASSUME IInv, Next,
                      NEW r \in Request, NEW s \in Request,
                      r \notin Held, r \in Held', fut[s] = "pending", fut'[s] = "pending"
               PROVE  Ahead(r, s)
    BY DEF NoOvertaking
  <2>1. pc[r] # "rendering" /\ fut[r] # "result"
        /\ (pc'[r] = "rendering" \/ fut'[r] = "result")
    BY DEF Held
  <2>2. TypeOK
    BY DEF IInv
  <2>3. ASSUME NEW q \in Request, Refuse(q) \/ Enqueue(q) PROVE FALSE
    BY <2>1, <2>2, <2>3 DEF Refuse, Enqueue, Finish, TypeOK
  <2>4. ASSUME NEW q \in Request, QueueTimeout(q) \/ Disconnect(q) PROVE FALSE
    BY <2>1, <2>2, <2>4 DEF QueueTimeout, Disconnect, CancelTask, TypeOK
  <2>5. ASSUME NEW q \in Request, AcquireAtOnce(q) PROVE FALSE
    <3>1. PICK i \in DOMAIN waiters : waiters[i] = s
      BY <2>2 DEF TypeOK
    <3> QED BY <3>1, <2>5 DEF AcquireAtOnce, Locked
  <2>6. ASSUME NEW q \in Request, Admit(q) PROVE Ahead(r, s)
    <3> DEFINE f == [fut EXCEPT ![q] = "none"]
    <3>1. value \in Nat /\ f \in [Request -> Future] /\ WakeUp(value, f, value)
          /\ fut[q] = "result"
      BY <2>2, <2>6, MaxConcurrentAssumption DEF TypeOK, Future, Admit, WakeAll
    <3>2. r # q /\ f[r] # "result"
      BY <2>1, <2>2, <3>1 DEF TypeOK
    <3>3. fut'[r] = "result"
      BY <2>1, <2>2, <2>6, <3>2 DEF Admit, TypeOK
    <3> HIDE DEF f
    <3> QED BY <3>1, <3>2, <3>3, WakeUpInOrder
  <2>7. ASSUME NEW q \in Request, GiveUp(q) PROVE Ahead(r, s)
    <3> DEFINE f == [fut EXCEPT ![q] = "none"]
               v == value + GivenBack(q)
    <3>1. v \in Nat /\ f \in [Request -> Future] /\ WakeUp(v, f, v)
      BY <2>2, <2>7, MaxConcurrentAssumption
         DEF TypeOK, Future, GiveUp, WakeAll, GivenBack
    <3>2. f[r] # "result"
      BY <2>1, <2>2 DEF TypeOK
    <3>3. fut'[r] = "result"
      BY <2>1, <2>2, <2>7 DEF GiveUp, Finish, TypeOK
    <3> HIDE DEF f, v
    <3> QED BY <3>1, <3>2, <3>3, WakeUpInOrder
  <2>8. ASSUME NEW q \in Request, AnyEnd(q) PROVE Ahead(r, s)
    <3> DEFINE v == value + 1
    <3>1. PICK a \in Answer : RenderEnds(q, a)
      BY <2>8 DEF AnyEnd
    <3>2. v \in Nat /\ 1 \in 0..v /\ fut \in [Request -> Future] /\ WakeUp(v, fut, 1)
      BY <2>2, <3>1, MaxConcurrentAssumption DEF TypeOK, RenderEnds, ReleaseFinally, Release
    <3>3. fut'[r] = "result"
      BY <2>1, <2>2, <3>1 DEF RenderEnds, Finish, TypeOK
    <3> HIDE DEF v
    <3> QED BY <2>1, <3>2, <3>3, WakeUpInOrder
  <2>9. CASE Finished
    BY <2>1, <2>9 DEF Finished, vars
  <2> QED BY <2>3, <2>4, <2>5, <2>6, <2>7, <2>8, <2>9 DEF Next
<1> QED BY <1>1, Invariance, PTL DEF Spec, InArrivalOrder

-----------------------------------------------------------------------------
(* The abstract pool.  A step of the route or of asyncio is one of the pool's *)
(* or none; a wake-up and what goes before it in the same step is one.       *)

Gone == {r \in Request : pc[r] = "answered" \/ fut[r] = "cancelled"}

Line == {p \in Pending(fut) \X Pending(fut) : Ahead(p[1], p[2])}

poolVars == <<Pending(fut), Line, Held, Gone>>

\* Nobody is in two places of the pool, and who is new is in none.
LEMMA PoolPlaces ==
  ASSUME TypeOK, NEW r \in Request
  PROVE  Pool!Fresh(r) <=> pc[r] = "new"
BY DEF TypeOK, Pool!Fresh, Pending, Held, Place, Future

LEMMA RefuseInPool ==
  ASSUME IInv, NEW r \in Request, Refuse(r)
  PROVE  Pool!Refuse(r)
<1>1. TypeOK /\ pc[r] = "new"
  BY DEF IInv, Refuse
<1>2. Gone' = Gone \cup {r}
  BY <1>1 DEF Gone, Refuse, Finish, TypeOK
<1>3. UNCHANGED <<Pending(fut), Line, Held>>
  BY <1>1 DEF Refuse, Finish, Pending, Line, Ahead, Held, TypeOK
<1> QED BY <1>1, <1>2, <1>3, PoolPlaces DEF Pool!Refuse, Gone, Line

\* Past cancelled waiters only: they have left the line.
LEMMA AcquireAtOnceInPool ==
  ASSUME IInv, NEW r \in Request, AcquireAtOnce(r)
  PROVE  Pool!Enter(r)
<1>1. TypeOK /\ pc[r] = "new" /\ ~Locked
  BY DEF IInv, AcquireAtOnce
<1>2. Pending(fut) = {}
  <2> SUFFICES ASSUME NEW s \in Request, fut[s] = "pending" PROVE FALSE
    BY DEF Pending
  <2>1. PICK i \in DOMAIN waiters : waiters[i] = s
    BY <1>1 DEF TypeOK
  <2> QED BY <2>1, <1>1 DEF Locked
<1>3. Cardinality(Held) < MaxConcurrent
  <2>1. value \in 1..MaxConcurrent
    BY <1>1, MaxConcurrentAssumption DEF Locked, TypeOK
  <2>2. Cardinality(Held) \in Nat
    BY RequestsFinite DEF Held
  <2> QED BY <2>1, <2>2, MaxConcurrentAssumption DEF IInv, PermitsConserved
<1>4. Held' = Held \cup {r}
  BY <1>1 DEF AcquireAtOnce, Held, TypeOK
<1>5. UNCHANGED <<Pending(fut), Line, Gone>>
  BY <1>1 DEF AcquireAtOnce, Pending, Line, Ahead, Gone, TypeOK
<1> QED
  BY <1>1, <1>2, <1>3, <1>4, <1>5, PoolPlaces
     DEF Pool!Enter, Gone, Line, Cardinality, Pool!Cardinality

\* The end of the deque is the end of the line.
LEMMA EnqueueInPool ==
  ASSUME IInv, NEW r \in Request, Enqueue(r)
  PROVE  Pool!Join(r)
<1>1. TypeOK /\ pc[r] = "new" /\ fut[r] = "none"
  BY DEF IInv, Enqueue, TypeOK
<1>2. /\ DOMAIN waiters = 1..Len(waiters) /\ Len(waiters) \in Nat
      /\ DOMAIN waiters' = 1..Len(waiters) + 1
      /\ \A i \in 1..Len(waiters) : waiters'[i] = waiters[i]
      /\ waiters'[Len(waiters) + 1] = r
  <2>1. waiters \in Seq(Request) /\ waiters' = Append(waiters, r)
    BY <1>1 DEF TypeOK, Enqueue
  <2> QED BY <2>1, AppendProperties, LenProperties
<1>3. Pending(fut)' = Pending(fut) \cup {r} /\ r \notin Pending(fut)
  BY <1>1 DEF Enqueue, Pending, TypeOK
<1>4. ASSUME NEW s \in Pending(fut), NEW t \in Pending(fut)
      PROVE  Ahead(s, t)' <=> Ahead(s, t)
  BY <1>2, <1>3 DEF Ahead
<1>5. ASSUME NEW s \in Pending(fut)
      PROVE  Ahead(s, r)'
  <2>1. PICK i \in DOMAIN waiters : waiters[i] = s
    BY <1>1 DEF Pending, TypeOK
  <2>2. i < Len(waiters) + 1 /\ i \in DOMAIN waiters'
    BY <1>2, <2>1
  <2>3. Len(waiters) + 1 \in DOMAIN waiters'
    BY <1>2
  <2>4. waiters'[i] = s /\ waiters'[Len(waiters) + 1] = r
    BY <1>2, <2>1
  <2> QED BY <2>2, <2>3, <2>4 DEF Ahead
<1>6. ASSUME NEW s \in Pending(fut)'
      PROVE  ~Ahead(r, s)'
  <2> SUFFICES ASSUME NEW i \in DOMAIN waiters', NEW j \in DOMAIN waiters',
                      i < j, waiters'[i] = r
               PROVE  FALSE
    BY DEF Ahead
  <2>1. i \in DOMAIN waiters
    BY <1>2
  <2>2. waiters[i] = r
    BY <1>2, <2>1
  <2> QED BY <2>1, <2>2, <1>1 DEF TypeOK
<1>7. Line' = Line \cup (Pending(fut) \X {r})
  BY <1>3, <1>4, <1>5, <1>6 DEF Line
<1>8. UNCHANGED <<Held, Gone>>
  BY <1>1 DEF Enqueue, Held, Gone, TypeOK
<1> QED BY <1>1, <1>3, <1>7, <1>8, PoolPlaces DEF Pool!Join, Gone, Line

\* A waiter that is cancelled leaves the line before its task runs; a
\* cancellation of anybody else is not the pool's business yet.
LEMMA CancelInPool ==
  ASSUME IInv, NEW r \in Request, NEW who \in Source, CancelTask(r, who)
  PROVE  Pool!Quit(r) \/ UNCHANGED poolVars
<1>1. TypeOK
  BY DEF IInv
<1>2. CASE fut[r] = "pending"
  <2>1. Pending(fut)' = Pending(fut) \ {r} /\ r \in Pending(fut)
    BY <1>1, <1>2 DEF CancelTask, Pending, TypeOK
  <2>2. Line' = {p \in Line : p[1] \in Pending(fut) \ {r} /\ p[2] \in Pending(fut) \ {r}}
    BY <2>1 DEF Line, Ahead, CancelTask
  <2>3. Gone' = Gone \cup {r} /\ Held' = Held
    BY <1>1, <1>2 DEF CancelTask, Gone, Held, TypeOK
  <2> QED BY <2>1, <2>2, <2>3 DEF Pool!Quit, Pool!Remain, Gone, Line
<1>3. CASE fut[r] # "pending"
  <2>1. fut' = fut /\ pc' = pc /\ waiters' = waiters
    BY <1>1, <1>3 DEF CancelTask, TypeOK
  <2> QED BY <2>1 DEF poolVars, Pending, Line, Ahead, Held, Gone
<1> QED BY <1>2, <1>3

\* A wake-up serves the head of the line, while leavers give their permits back.
LEMMA WakeUpInPool ==
  ASSUME NEW v \in Nat, NEW f \in [Request -> Future], NEW k \in 0..v, WakeUp(v, f, k),
         NEW leavers \in SUBSET Held,
         Pending(f) = Pending(fut),
         \A s, t \in Pending(fut') : Ahead(s, t)' <=> Ahead(s, t),
         {s \in Request : pc'[s] = "rendering" \/ f[s] = "result"} = Held \ leavers,
         Gone' = Gone \cup leavers,
         PermitsConserved', value' \in Nat
  PROVE  \/ \E S \in SUBSET Pending(fut) : S # {} /\ Pool!Serve(leavers, S)
         \/ Pool!Serve(leavers, {}) /\ (leavers = {} => UNCHANGED poolVars)
<1>1. PICK G \in SUBSET Pending(f) :
           /\ \A r \in Request : fut'[r] = IF r \in G THEN "result" ELSE f[r]
           /\ Pending(fut') = Pending(f) \ G
           /\ \A r \in G, s \in Pending(f) \ G : Ahead(r, s)
  BY WakeUpProperties
<1>2. G \in SUBSET Request /\ Pending(fut)' = Pending(fut) \ G
  BY <1>1 DEF Pending
<1>3. Held' = (Held \ leavers) \cup G
  BY <1>1, <1>2 DEF Held
<1>4. Cardinality(Held') <= MaxConcurrent
  <2>1. Cardinality(Held') \in Nat
    BY RequestsFinite DEF Held
  <2> QED BY <2>1, MaxConcurrentAssumption DEF PermitsConserved
<1>5. Line' = {p \in Line : p[1] \in Pending(fut) \ G /\ p[2] \in Pending(fut) \ G}
  BY <1>2 DEF Line
<1>6. \A r \in G, s \in Pending(fut) \ G : <<r, s>> \in Line
  BY <1>1 DEF Line
<1>7. Pool!Serve(leavers, G)
  BY <1>2, <1>3, <1>4, <1>5, <1>6
     DEF Pool!Serve, Pool!Remain, Gone, Line, Cardinality, Pool!Cardinality
<1>8. CASE G # {}
  BY <1>1, <1>7, <1>8
<1>9. CASE G = {}
  <2>1. leavers = {} => UNCHANGED poolVars
    BY <1>2, <1>3, <1>5, <1>9 DEF poolVars, Line
  <2> QED BY <1>7, <1>9, <2>1
<1> QED BY <1>8, <1>9

\* Who leaves the deque leaves the order of those who still wait as it was.
LEMMA OrderKept ==
  ASSUME TypeOK, NEW r \in Request, pc[r] = "queued", waiters' = Without(waiters, r)
  PROVE  \A s, t \in Request : s # r /\ t # r => (Ahead(s, t)' <=> Ahead(s, t))
<1>1. /\ waiters \in Seq(Request)
      /\ \A i, j \in DOMAIN waiters : waiters[i] = waiters[j] => i = j
      /\ \E i \in DOMAIN waiters : waiters[i] = r
  BY DEF TypeOK
<1>2. \A s, t \in Request :
        (\E i, j \in DOMAIN waiters' : i < j /\ waiters'[i] = s /\ waiters'[j] = t) <=>
        /\ s # r /\ t # r
        /\ \E i, j \in DOMAIN waiters : i < j /\ waiters[i] = s /\ waiters[j] = t
  BY <1>1, WithoutProperties
<1> QED BY <1>2 DEF Ahead

\* A granted request held its permit before it ran; what it finds left over it
\* hands on.
LEMMA AdmitInPool ==
  ASSUME IInv, NEW r \in Request, Admit(r)
  PROVE  Pool!HandOver \/ UNCHANGED poolVars
<1> DEFINE f == [fut EXCEPT ![r] = "none"]
<1>1. /\ TypeOK /\ fut[r] = "result" /\ pc[r] = "queued"
      /\ f \in [Request -> Future] /\ value \in Nat /\ value \in 0..value
      /\ WakeUp(value, f, value)
      /\ \A s \in Request : f[s] = IF s = r THEN "none" ELSE fut[s]
  BY MaxConcurrentAssumption DEF IInv, Admit, TypeOK, Future, WakeAll
<1>2. PermitsConserved' /\ value' \in Nat
  BY AdmitInvariant, MaxConcurrentAssumption DEF IInv, TypeOK
<1> HIDE DEF f
<1>3. PICK G \in SUBSET Pending(f) :
        \A s \in Request : fut'[s] = IF s \in G THEN "result" ELSE f[s]
  BY <1>1, WakeUpProperties
<1>4. Pending(f) = Pending(fut) /\ r \notin Pending(fut')
  BY <1>1, <1>3 DEF Pending
<1>5. \A s, t \in Pending(fut') : Ahead(s, t)' <=> Ahead(s, t)
  BY <1>1, <1>4, OrderKept DEF Admit, Pending
<1>6. {s \in Request : pc'[s] = "rendering" \/ f[s] = "result"} = Held \ {}
  BY <1>1 DEF Held, Admit, TypeOK
<1>7. Gone' = Gone \cup {}
  BY <1>1, <1>3 DEF Gone, Admit, TypeOK, Pending
<1>8. \/ \E S \in SUBSET Pending(fut) : S # {} /\ Pool!Serve({}, S)
      \/ UNCHANGED poolVars
  BY <1>1, <1>2, <1>4, <1>5, <1>6, <1>7, WakeUpInPool
<1> QED BY <1>8 DEF Pool!HandOver

\* A request that gives up with a permit in hand leaves; without one it left when
\* it was cancelled, and only hands on what it finds.
LEMMA GiveUpInPool ==
  ASSUME IInv, NEW r \in Request, GiveUp(r)
  PROVE  Pool!Leave(r) \/ Pool!HandOver \/ UNCHANGED poolVars
<1> DEFINE f == [fut EXCEPT ![r] = "none"]
           v == value + GivenBack(r)
           leavers == IF fut[r] = "result" THEN {r} ELSE {}
<1>1. /\ TypeOK /\ fut[r] \in {"result", "cancelled"} /\ pc[r] = "queued"
      /\ f \in [Request -> Future] /\ v \in Nat /\ v \in 0..v
      /\ WakeUp(v, f, v)
      /\ \A s \in Request : f[s] = IF s = r THEN "none" ELSE fut[s]
  BY MaxConcurrentAssumption DEF IInv, GiveUp, TypeOK, Future, WakeAll, GivenBack
<1>2. PermitsConserved' /\ value' \in Nat
  BY GiveUpInvariant, MaxConcurrentAssumption DEF IInv, TypeOK
<1>0. leavers \in SUBSET Held
  BY DEF Held
<1> HIDE DEF f, v
<1>3. PICK G \in SUBSET Pending(f) :
        \A s \in Request : fut'[s] = IF s \in G THEN "result" ELSE f[s]
  BY <1>1, WakeUpProperties
<1>4. Pending(f) = Pending(fut) /\ r \notin Pending(fut')
  BY <1>1, <1>3 DEF Pending
<1>5. \A s, t \in Pending(fut') : Ahead(s, t)' <=> Ahead(s, t)
  BY <1>1, <1>4, OrderKept DEF GiveUp, Pending
<1>6. {s \in Request : pc'[s] = "rendering" \/ f[s] = "result"} = Held \ leavers
  BY <1>1 DEF Held, GiveUp, Finish, TypeOK
<1>7. Gone' = Gone \cup leavers
  BY <1>1, <1>3 DEF Gone, GiveUp, Finish, TypeOK, Pending
<1> HIDE DEF leavers
<1>8. \/ \E S \in SUBSET Pending(fut) : S # {} /\ Pool!Serve(leavers, S)
      \/ Pool!Serve(leavers, {}) /\ (leavers = {} => UNCHANGED poolVars)
  BY <1>0, <1>1, <1>2, <1>4, <1>5, <1>6, <1>7, WakeUpInPool
<1>9. CASE leavers = {}
  BY <1>8, <1>9 DEF Pool!HandOver
<1>10. CASE leavers = {r}
  BY <1>0, <1>8, <1>10 DEF Pool!Leave
<1> QED BY <1>9, <1>10 DEF leavers

LEMMA RenderEndsInPool ==
  ASSUME IInv, NEW r \in Request, NEW a \in Answer, RenderEnds(r, a)
  PROVE  Pool!Leave(r)
<1> DEFINE v == value + 1
<1>1. /\ TypeOK /\ pc[r] = "rendering" /\ fut[r] = "none"
      /\ fut \in [Request -> Future] /\ v \in Nat /\ 1 \in 0..v
      /\ WakeUp(v, fut, 1)
  BY MaxConcurrentAssumption DEF IInv, RenderEnds, TypeOK, ReleaseFinally, Release
<1>2. PermitsConserved' /\ value' \in Nat
  BY RenderEndsInvariant, MaxConcurrentAssumption DEF IInv, TypeOK
<1> HIDE DEF v
<1>3. PICK G \in SUBSET Pending(fut) :
        \A s \in Request : fut'[s] = IF s \in G THEN "result" ELSE fut[s]
  BY <1>1, WakeUpProperties
<1>4. {r} \in SUBSET Held
  BY <1>1 DEF Held
<1>5. \A s, t \in Pending(fut') : Ahead(s, t)' <=> Ahead(s, t)
  BY DEF Ahead, RenderEnds
<1>6. {s \in Request : pc'[s] = "rendering" \/ fut[s] = "result"} = Held \ {r}
  BY <1>1 DEF Held, RenderEnds, Finish, TypeOK
<1>7. Gone' = Gone \cup {r}
  BY <1>1, <1>3 DEF Gone, RenderEnds, Finish, TypeOK, Pending
<1>8. \E S \in SUBSET Pending(fut) : Pool!Serve({r}, S)
  BY <1>1, <1>2, <1>4, <1>5, <1>6, <1>7, WakeUpInPool
<1> QED BY <1>4, <1>8 DEF Pool!Leave

LEMMA PoolInit == Init => Pool!Init
<1> SUFFICES ASSUME Init PROVE Pool!Init
  OBVIOUS
<1>1. Pending(fut) = {} /\ Line = {} /\ Held = {} /\ Gone = {}
  BY DEF Init, Pending, Line, Held, Gone
<1> QED BY <1>1 DEF Pool!Init, Line, Gone

LEMMA PoolStep == IInv /\ [Next]_vars => [Pool!Next]_(Pool!vars)
<1> SUFFICES ASSUME IInv, [Next]_vars PROVE [Pool!Next]_(Pool!vars)
  OBVIOUS
<1>0. SUFFICES Pool!Next \/ UNCHANGED poolVars
  BY DEF Pool!vars, poolVars, Line, Gone
<1>1. ASSUME NEW r \in Request, Refuse(r) PROVE Pool!Next
  BY <1>1, RefuseInPool DEF Pool!Next
<1>2. ASSUME NEW r \in Request, AcquireAtOnce(r) PROVE Pool!Next
  BY <1>2, AcquireAtOnceInPool DEF Pool!Next
<1>3. ASSUME NEW r \in Request, Enqueue(r) PROVE Pool!Next
  BY <1>3, EnqueueInPool DEF Pool!Next
<1>4. ASSUME NEW r \in Request, QueueTimeout(r) \/ Disconnect(r)
      PROVE  Pool!Next \/ UNCHANGED poolVars
  BY <1>4, CancelInPool DEF Pool!Next, QueueTimeout, Disconnect, Source
<1>5. ASSUME NEW r \in Request, Admit(r) PROVE Pool!Next \/ UNCHANGED poolVars
  BY <1>5, AdmitInPool DEF Pool!Next
<1>6. ASSUME NEW r \in Request, GiveUp(r) PROVE Pool!Next \/ UNCHANGED poolVars
  BY <1>6, GiveUpInPool DEF Pool!Next
<1>7. ASSUME NEW r \in Request, AnyEnd(r) PROVE Pool!Next
  BY <1>7, RenderEndsInPool DEF Pool!Next, AnyEnd
<1>8. CASE UNCHANGED vars
  BY <1>8 DEF vars, poolVars, Pending, Line, Ahead, Held, Gone
<1> QED
  BY <1>1, <1>2, <1>3, <1>4, <1>5, <1>6, <1>7, <1>8 DEF Next, Finished

\* Whatever grants, timeouts, disconnects and ends do to each other, the route and
\* asyncio together take only steps that the pool of PermitPool may take: permits
\* go to the head of the line, never past it, and never more than there are.
THEOREM PermitPoolImplemented == Spec => Pool!Safely
BY Invariance, PoolInit, PoolStep, PTL DEF Spec, Pool!Safely

=============================================================================
