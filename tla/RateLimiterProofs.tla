-------------------------- MODULE RateLimiterProofs --------------------------
(***************************************************************************)
(* Proofs about RateLimiter, for every set of clients, every limit, window *)
(* and number of clients, and without the bound on time in the argument.   *)
(***************************************************************************)
EXTENDS RateLimiter, SequenceTheorems, TLAPS

\* Default provers, in the order they are tried, with time limits in seconds.
USE SMTT(60), ZenonT(60), SMTT(90), SMTT(120)

\* A deque is the tail of what was admitted, and what was popped has expired.
TailOfAdmitted ==
  \A c \in Clients :
    /\ Len(events[c]) <= Len(admitted[c])
    /\ \A i \in 1 .. Len(events[c]) :
         events[c][i] = admitted[c][Len(admitted[c]) - Len(events[c]) + i]
    /\ \A i \in 1 .. Len(admitted[c]) - Len(events[c]) :
         admitted[c][i] <= now - Window

\* A key is in the dictionary once, and its deque is not empty: the search for
\* an empty deque finds none, and the eviction takes the first key.
KeysInUse ==
  /\ \A i, j \in 1 .. Len(keys) : keys[i] = keys[j] => i = j
  /\ \A i \in 1 .. Len(keys) : events[keys[i]] # <<>>

\* A promised time is not before the oldest event of the window expires.
PromiseCovers ==
  \A c \in Clients :
    promised[c] >= 0 /\ events[c] # <<>> => events[c][1] + Window <= promised[c]

IInv ==
  /\ TypeOK /\ TailOfAdmitted /\ KeysInUse /\ PromiseCovers
  /\ Bounded /\ WindowBound

\* What the popleft loop leaves and what it takes.
LEMMA PrunedDeque ==
  ASSUME now \in Nat, NEW q \in Seq(Nat), NEW live \in Pruned(q)
  PROVE  /\ live \in Seq(Nat)
         /\ Len(live) <= Len(q)
         /\ \A i \in 1 .. Len(live) : live[i] = q[Len(q) - Len(live) + i]
         /\ \A i \in 1 .. Len(q) - Len(live) : q[i] <= now - Window
         /\ live # <<>> => live[1] > now - Window
  <1> USE LimiterConstants
  <1>1. PICK k \in 0 .. Len(q) :
          /\ live = SubSeq(q, k + 1, Len(q))
          /\ \A i \in 1 .. k : Expired(q[i])
          /\ k < Len(q) => ~Expired(q[k + 1])
    BY DEF Pruned
  <1>2. Len(live) = Len(q) - k /\ live \in Seq(Nat)
    BY <1>1
  <1>3. \A i \in 1 .. Len(live) : live[i] = q[k + i]
    BY <1>1, <1>2
  <1>4. live # <<>> => k < Len(q)
    BY <1>1, <1>2
  <1>5. live # <<>> => live[1] = q[k + 1] /\ q[k + 1] \in Nat
    <2> SUFFICES ASSUME live # <<>>
                 PROVE  live[1] = q[k + 1] /\ q[k + 1] \in Nat
      OBVIOUS
    <2>1. k + 1 \in 1 .. Len(q) /\ 1 \in 1 .. Len(live)
      BY <1>2, <1>4
    <2>2. live[1] = q[k + 1]
      BY <1>3, <2>1
    <2>3. q[k + 1] \in Nat
      BY <2>1
    <2> QED BY <2>2, <2>3
  <1>6. live # <<>> => live[1] > now - Window
    BY <1>1, <1>4, <1>5 DEF Expired
  <1>7. \A i \in 1 .. Len(q) - Len(live) : q[i] <= now - Window
    BY <1>1, <1>2 DEF Expired
  <1>8. Len(q) \in Nat /\ k \in Nat /\ Len(live) <= Len(q) /\ Len(q) - Len(live) = k
    BY <1>1, <1>2
  <1>9. \A i \in 1 .. Len(live) : live[i] = q[Len(q) - Len(live) + i]
    BY Zenon, <1>3, <1>8
  <1> QED
    BY <1>2, <1>6, <1>7, <1>8, <1>9

\* Rounding up to whole seconds never promises too little.
LEMMA CeilCovers ==
  ASSUME NEW x \in Int
  PROVE  CeilSeconds(x) \in Int /\ PerSecond * CeilSeconds(x) >= x
  <1> DEFINE a == x + PerSecond - 1
             d == a \div PerSecond
  <1>1. PerSecond \in Nat \ {0} /\ a \in Int
    BY LimiterConstants
  <1>2. d \in Int /\ a % PerSecond \in 0 .. PerSecond - 1
        /\ a = PerSecond * d + (a % PerSecond)
    <2> HIDE DEF a
    <2> QED BY <1>1
  <1>3. PerSecond * d \in Int
    BY <1>1, <1>2
  <1>4. PerSecond * d >= x
    BY <1>1, <1>2, <1>3
  <1> QED
    BY <1>2, <1>4 DEF CeilSeconds

\* Removing the first key moves the others up.
LEMMA WithoutFirst ==
  ASSUME NEW order \in Seq(Clients), order # <<>>
  PROVE  /\ Without(order, {1}) \in Seq(Clients)
         /\ Len(Without(order, {1})) = Len(order) - 1
         /\ \A i \in 1 .. Len(order) - 1 : Without(order, {1})[i] = order[i + 1]
  <1> DEFINE rest == SubSeq(order, 2, Len(order))
  <1>1. (CHOOSE i \in {1} : TRUE) = 1
    OBVIOUS
  <1>2. Len(order) \in Nat \ {0}
    OBVIOUS
  <1>3. /\ rest \in Seq(Clients) /\ Len(rest) = Len(order) - 1
        /\ \A i \in 1 .. Len(order) - 1 : rest[i] = order[i + 1]
    <2>1. /\ 2 \in 1 .. Len(order) + 1 /\ Len(order) \in 2 - 1 .. Len(order)
          /\ Len(order) - 2 + 1 = Len(order) - 1
          /\ \A i \in 1 .. Len(order) - 1 : 2 + i - 1 = i + 1
      BY <1>2
    <2>2. /\ rest \in Seq(Clients) /\ Len(rest) = Len(order) - 2 + 1
          /\ \A i \in 1 .. Len(order) - 2 + 1 : rest[i] = order[2 + i - 1]
      BY <2>1, SubSeqProperties
    <2> QED BY <2>1, <2>2
  <1>4. SubSeq(order, 1, 0) = <<>>
    BY <1>2
  <1>5. Without(order, {1}) = <<>> \o rest
    BY <1>1, <1>4 DEF Without
  <1>6. <<>> \o rest = rest
    BY <1>3
  <1> QED
    BY Zenon, <1>3, <1>5, <1>6

\* The dictionary between setdefault and the eviction: the deque of c is new,
\* every key has a deque that is not empty.
LEMMA OrderInUse ==
  ASSUME IInv, NEW c \in Clients, NEW live \in Seq(Nat)
  PROVE  LET order == Inserted(c)
             deques == [events EXCEPT ![c] = Append(live, now)]
         IN /\ order \in Seq(Clients) /\ order # <<>>
            /\ Len(order) <= MaxClients + 1
            /\ \A i, j \in 1 .. Len(order) : order[i] = order[j] => i = j
            /\ \A i \in 1 .. Len(order) : deques[order[i]] # <<>>
            /\ \A d \in Clients : (\E i \in 1 .. Len(order) : order[i] = d)
                                  <=> Tracked(d) \/ d = c
  <1> DEFINE order == Inserted(c)
             deques == [events EXCEPT ![c] = Append(live, now)]
  <1> HIDE DEF order, deques
  <1> USE LimiterConstants DEF IInv
  <1>0. keys \in Seq(Clients) /\ Len(keys) \in Nat /\ Len(keys) <= MaxClients
        /\ events \in [Clients -> Seq(Nat)] /\ now \in Nat
    BY DEF TypeOK, Bounded
  <1>1. Append(live, now) # <<>>
    <2>1. Len(Append(live, now)) = Len(live) + 1 /\ Len(live) \in Nat
      BY <1>0
    <2>2. Len(Append(live, now)) # 0
      BY <2>1
    <2>3. Len(<<>>) = 0
      OBVIOUS
    <2> QED BY <2>2, <2>3, Zenon
  <1>2. \A d \in Clients : deques[d] = IF d = c THEN Append(live, now) ELSE events[d]
    BY <1>0 DEF deques
  <1>5. \A d \in Clients : d = c \/ events[d] # <<>> => deques[d] # <<>>
    BY Zenon, <1>1, <1>2
  <1>6. \A i \in 1 .. Len(keys) : keys[i] \in Clients /\ events[keys[i]] # <<>>
    BY <1>0 DEF KeysInUse
  <1>3. CASE Tracked(c)
    <2>1. order = keys
      BY <1>3 DEF Inserted, order
    <2>3. order # <<>>
      BY <1>0, <1>3, <2>1 DEF Tracked
    <2>4. \A i \in 1 .. Len(order) : deques[order[i]] # <<>>
      BY <1>5, <1>6, <2>1, Zenon
    <2>5. \A d \in Clients : (\E i \in 1 .. Len(order) : order[i] = d)
                             <=> Tracked(d) \/ d = c
      BY <1>3, <2>1, Zenon DEF Tracked
    <2>6. Len(order) <= MaxClients + 1
      BY <1>0, <2>1
    <2> QED
      BY Zenon, <1>0, <2>1, <2>3, <2>4, <2>5, <2>6 DEF KeysInUse, order, deques
  <1>4. CASE ~Tracked(c)
    <2>1. order = Append(keys, c)
      BY <1>4 DEF Inserted, order
    <2>2. /\ order \in Seq(Clients) /\ Len(order) = Len(keys) + 1
          /\ \A i \in 1 .. Len(keys) : order[i] = keys[i] /\ keys[i] \in Clients
          /\ order[Len(keys) + 1] = c
      BY <1>0, <2>1
    <2>3. \A i \in 1 .. Len(order) : i \in 1 .. Len(keys) \/ i = Len(keys) + 1
      BY <1>0, <2>2
    <2>4. \A i \in 1 .. Len(keys) : i \in 1 .. Len(order) /\ keys[i] # c
      BY <1>0, <1>4, <2>2 DEF Tracked
    <2>5. \A i, j \in 1 .. Len(order) : order[i] = order[j] => i = j
      BY <2>2, <2>3, <2>4 DEF KeysInUse
    <2>6. \A i \in 1 .. Len(order) : deques[order[i]] # <<>>
      <3>1. ASSUME NEW i \in 1 .. Len(order), i \in 1 .. Len(keys)
            PROVE  deques[order[i]] # <<>>
        BY <1>5, <1>6, <2>2, <3>1, Zenon
      <3>2. deques[order[Len(keys) + 1]] # <<>>
        BY <1>5, <2>2, Zenon
      <3> QED BY <2>3, <3>1, <3>2, Zenon
    <2>7. Len(keys) + 1 \in 1 .. Len(order)
      BY <1>0, <2>2
    <2>8. \A d \in Clients : (\E i \in 1 .. Len(order) : order[i] = d)
                             <=> Tracked(d) \/ d = c
      BY <2>2, <2>3, <2>4, <2>7 DEF Tracked
    <2>9. order # <<>> /\ Len(order) <= MaxClients + 1
      BY <1>0, <2>2
    <2> QED
      BY <2>2, <2>5, <2>6, <2>8, <2>9 DEF order, deques
  <1> QED
    BY <1>3, <1>4 DEF order, deques

\* With no empty deque the eviction takes the first key, or none.
LEMMA EvictsFirst ==
  ASSUME NEW order \in Seq(Clients), order # <<>>, NEW deques,
         \A i \in 1 .. Len(order) : deques[order[i]] # <<>>
  PROVE  Evicted(order, deques) = IF Len(order) <= MaxClients THEN {} ELSE {1}
  <1>1. 1 \in 1 .. Len(order)
    OBVIOUS
  <1>2. ~(\E e \in 1 .. Len(order) : deques[order[e]] = <<>>)
    OBVIOUS
  <1> QED
    BY Zenon, <1>1, <1>2 DEF Evicted

LEMMA InitIInv == Init => IInv
  <1> SUFFICES ASSUME Init PROVE IInv
    OBVIOUS
  <1> USE LimiterConstants DEF Init
  <1>1. TypeOK
    BY DEF TypeOK
  <1>2. TailOfAdmitted /\ WindowBound
    BY DEF TailOfAdmitted, WindowBound
  <1>3. KeysInUse /\ PromiseCovers /\ Bounded
    BY DEF KeysInUse, PromiseCovers, Bounded, Tracked
  <1> QED
    BY <1>1, <1>2, <1>3 DEF IInv

\* Time only lets more events expire.
LEMMA TickIInv ==
  ASSUME IInv, Tick
  PROVE  IInv'
  <1> USE LimiterConstants DEF IInv, Tick
  <1>1. TypeOK'
    BY DEF TypeOK
  <1>2. TailOfAdmitted'
    <2>1. now \in Nat /\ now' = now + 1 /\ now - Window <= now' - Window
          /\ admitted \in [Clients -> Seq(Nat)] /\ events \in [Clients -> Seq(Nat)]
      BY DEF TypeOK
    <2>2. ASSUME NEW c \in Clients, NEW i \in 1 .. Len(admitted[c]) - Len(events[c])
          PROVE  admitted[c][i] <= now' - Window
      <3>1. admitted[c][i] <= now - Window
        BY Zenon, <2>2 DEF TailOfAdmitted
      <3>2. admitted[c][i] \in Nat
        <4>1. i \in 1 .. Len(admitted[c])
          BY <2>1, <2>2
        <4> QED BY <2>1, <4>1
      <3> QED BY <2>1, <3>1, <3>2
    <2> QED
      BY Zenon, <2>2 DEF TailOfAdmitted
  <1>3. KeysInUse' /\ PromiseCovers' /\ Bounded' /\ WindowBound'
    BY DEF KeysInUse, PromiseCovers, Bounded, WindowBound, Tracked
  <1> QED
    BY <1>1, <1>2, <1>3

\* A deque that only loses expired events is still the tail of what was
\* admitted, and what it has lost has expired.
LEMMA PrunedTail ==
  ASSUME IInv, NEW c \in Clients, NEW live \in Pruned(events[c])
  PROVE  /\ live \in Seq(Nat)
         /\ Len(live) <= Len(events[c]) /\ Len(live) <= Len(admitted[c])
         /\ \A i \in 1 .. Len(live) :
              live[i] = admitted[c][Len(admitted[c]) - Len(live) + i]
         /\ \A i \in 1 .. Len(admitted[c]) - Len(live) :
              admitted[c][i] <= now - Window
         /\ live # <<>> => live[1] > now - Window
  <1> USE LimiterConstants
  <1> DEFINE q == events[c]
             h == admitted[c]
  <1>1. now \in Nat /\ q \in Seq(Nat) /\ h \in Seq(Nat)
    BY DEF IInv, TypeOK
  <1>2. /\ Len(q) <= Len(h)
        /\ \A i \in 1 .. Len(q) : q[i] = h[Len(h) - Len(q) + i]
        /\ \A i \in 1 .. Len(h) - Len(q) : h[i] <= now - Window
    BY Zenon DEF IInv, TailOfAdmitted
  <1>3. /\ live \in Seq(Nat) /\ Len(live) <= Len(q)
        /\ \A i \in 1 .. Len(live) : live[i] = q[Len(q) - Len(live) + i]
        /\ \A i \in 1 .. Len(q) - Len(live) : q[i] <= now - Window
        /\ live # <<>> => live[1] > now - Window
    BY Zenon, <1>1, PrunedDeque
  <1> HIDE DEF q, h
  <1>4. Len(live) \in Nat /\ Len(q) \in Nat /\ Len(h) \in Nat
    BY <1>1, <1>3
  <1>5. ASSUME NEW i \in 1 .. Len(live)
        PROVE  live[i] = h[Len(h) - Len(live) + i]
    <2>1. /\ Len(q) - Len(live) + i \in 1 .. Len(q)
          /\ Len(h) - Len(q) + (Len(q) - Len(live) + i) = Len(h) - Len(live) + i
      BY <1>3, <1>4
    <2> QED BY <1>2, <1>3, <2>1
  <1>6. ASSUME NEW i \in 1 .. Len(h) - Len(live)
        PROVE  h[i] <= now - Window
    <2>1. CASE i \in 1 .. Len(h) - Len(q)
      BY <1>2, <2>1
    <2>2. CASE i \notin 1 .. Len(h) - Len(q)
      <3> DEFINE k == i - (Len(h) - Len(q))
      <3>1. k \in 1 .. Len(q) - Len(live) /\ k \in 1 .. Len(q)
            /\ Len(h) - Len(q) + k = i
        BY <1>2, <1>3, <1>4, <2>2
      <3> HIDE DEF k
      <3>2. q[k] = h[i]
        BY <1>2, <3>1
      <3> QED BY <1>3, <3>1, <3>2
    <2> QED BY <2>1, <2>2
  <1>7. Len(live) <= Len(h)
    BY <1>2, <1>3, <1>4
  <1> QED
    BY <1>3, <1>5, <1>6, <1>7 DEF q, h

LEMMA RefuseIInv ==
  ASSUME IInv, NEW c \in Clients, Refuse(c)
  PROVE  IInv'
  <1> USE LimiterConstants
  <1>1. PICK live \in Pruned(events[c]) :
          /\ ~HasRoom(live)
          /\ events' = [events EXCEPT ![c] = live]
          /\ promised' = [promised EXCEPT ![c] = now + PerSecond * RetryAfter(live)]
          /\ UNCHANGED <<now, keys, admitted>>
    BY Zenon DEF Refuse
  <1>2. /\ live \in Seq(Nat)
        /\ Len(live) <= Len(events[c]) /\ Len(live) <= Len(admitted[c])
        /\ \A i \in 1 .. Len(live) :
             live[i] = admitted[c][Len(admitted[c]) - Len(live) + i]
        /\ \A i \in 1 .. Len(admitted[c]) - Len(live) :
             admitted[c][i] <= now - Window
    BY PrunedTail
  <1>3. /\ now \in Nat /\ keys \in Seq(Clients) /\ events \in [Clients -> Seq(Nat)]
        /\ admitted \in [Clients -> Seq(Nat)] /\ promised \in [Clients -> Int]
    BY DEF IInv, TypeOK
  <1>4. Len(live) >= Limit /\ live # <<>> /\ live[1] \in Nat
    <2>1. Len(live) \in Nat /\ Len(live) >= Limit
      BY <1>1, <1>2 DEF HasRoom
    <2>2. 1 \in 1 .. Len(live)
      BY <2>1
    <2> QED BY <1>2, <2>1, <2>2
  <1>5. /\ PerSecond * RetryAfter(live) \in Int
        /\ PerSecond * RetryAfter(live) >= Window - (now - live[1])
    <2> DEFINE x == Window - (now - live[1])
    <2>1. x \in Int
      BY <1>3, <1>4
    <2>2. CeilSeconds(x) \in Int /\ PerSecond * CeilSeconds(x) >= x
      BY <2>1, CeilCovers
    <2>3. CASE CeilSeconds(x) < 1
      <3>1. RetryAfter(live) = 1
        BY <2>3 DEF RetryAfter
      <3>2. CeilSeconds(x) <= 0 /\ PerSecond > 0
        BY <2>2, <2>3
      <3>3. PerSecond * CeilSeconds(x) <= 0
        BY <2>2, <3>2
      <3>4. x <= 0
        BY <2>1, <2>2, <3>3
      <3> QED BY <2>1, <3>1, <3>4
    <2>4. CASE ~(CeilSeconds(x) < 1)
      <3>1. RetryAfter(live) = CeilSeconds(x)
        BY <2>4 DEF RetryAfter
      <3> QED BY <2>2, <3>1
    <2> QED BY <2>3, <2>4
  <1>6. /\ events'[c] = live /\ \A d \in Clients \ {c} : events'[d] = events[d]
        /\ promised'[c] = now + PerSecond * RetryAfter(live)
        /\ \A d \in Clients \ {c} : promised'[d] = promised[d]
        /\ now' = now /\ keys' = keys /\ admitted' = admitted
    BY <1>1, <1>3
  <1>7. TypeOK'
    <2>1. events' \in [Clients -> Seq(Nat)]
      BY <1>1, <1>2, <1>3
    <2>2. now + PerSecond * RetryAfter(live) \in Int
      BY <1>3, <1>5
    <2>3. promised' \in [Clients -> Int]
      BY <1>1, <1>3, <2>2
    <2> QED BY <1>3, <1>6, <2>1, <2>3 DEF TypeOK
  <1>8. TailOfAdmitted'
    <2>1. ASSUME NEW d \in Clients
          PROVE  /\ Len(events'[d]) <= Len(admitted[d])
                 /\ \A i \in 1 .. Len(events'[d]) :
                      events'[d][i] = admitted[d][Len(admitted[d]) - Len(events'[d]) + i]
                 /\ \A i \in 1 .. Len(admitted[d]) - Len(events'[d]) :
                      admitted[d][i] <= now - Window
      <3>1. CASE d = c
        BY Zenon, <1>2, <1>6, <3>1
      <3>2. CASE d # c
        <4>1. events'[d] = events[d]
          BY <1>6, <3>2
        <4> QED BY Zenon, <4>1 DEF IInv, TailOfAdmitted
      <3> QED BY Zenon, <3>1, <3>2
    <2> QED BY Zenon, <1>6, <2>1 DEF TailOfAdmitted
  <1>9. KeysInUse'
    <2>1. \A i \in 1 .. Len(keys) : keys[i] \in Clients /\ events[keys[i]] # <<>>
      BY <1>3 DEF IInv, KeysInUse
    <2>2. \A i \in 1 .. Len(keys) : events'[keys[i]] # <<>>
      BY <1>4, <1>6, <2>1, Zenon
    <2> QED BY <1>6, <2>2 DEF IInv, KeysInUse
  <1>10. PromiseCovers'
    <2>1. events'[c][1] + Window <= promised'[c]
      BY <1>3, <1>4, <1>5, <1>6
    <2> QED BY <1>6, <2>1 DEF IInv, PromiseCovers
  <1>11. Bounded'
    <2>1. Tracked(c)
      <3>1. events[c] # <<>>
        BY <1>2, <1>3, <1>4
      <3> QED BY <3>1 DEF IInv, Bounded
    <2>2. \A d \in Clients : Tracked(d)' <=> Tracked(d)
      BY <1>6 DEF Tracked
    <2>3. \A d \in Clients : Len(events'[d]) <= Limit
      <3>1. Len(live) <= Limit
        BY <1>2, <1>3 DEF IInv, Bounded
      <3> QED BY <1>6, <3>1 DEF IInv, Bounded
    <2>4. \A d \in Clients : ~Tracked(d) => events'[d] = <<>>
      BY <1>6, <2>1 DEF IInv, Bounded
    <2> QED BY <1>6, <2>2, <2>3, <2>4 DEF IInv, Bounded
  <1>12. WindowBound'
    BY Zenon, <1>6 DEF IInv, WindowBound
  <1> QED
    BY <1>7, <1>8, <1>9, <1>10, <1>11, <1>12 DEF IInv

LEMMA AdmitIInv ==
  ASSUME IInv, NEW c \in Clients, Admit(c)
  PROVE  IInv'
  <1> USE LimiterConstants
  <1>1. PICK live \in Pruned(events[c]) :
          LET deques == [events EXCEPT ![c] = Append(live, now)]
              order == Inserted(c)
              gone == Evicted(order, deques)
              out(d) == \E i \in gone : order[i] = d
          IN /\ HasRoom(live)
             /\ keys' = Without(order, gone)
             /\ events' = [d \in Clients |-> IF out(d) THEN <<>> ELSE deques[d]]
             /\ admitted' = [d \in Clients |->
                  IF out(d) THEN <<>>
                  ELSE IF d = c THEN Append(admitted[c], now) ELSE admitted[d]]
             /\ promised' = [promised EXCEPT ![c] = -1]
             /\ UNCHANGED now
    BY Zenon DEF Admit
  <1> DEFINE deques == [events EXCEPT ![c] = Append(live, now)]
             order == Inserted(c)
             gone == Evicted(order, deques)
             out(d) == \E i \in gone : order[i] = d
  <1>2. /\ live \in Seq(Nat)
        /\ Len(live) <= Len(events[c]) /\ Len(live) <= Len(admitted[c])
        /\ \A i \in 1 .. Len(live) :
             live[i] = admitted[c][Len(admitted[c]) - Len(live) + i]
        /\ \A i \in 1 .. Len(admitted[c]) - Len(live) :
             admitted[c][i] <= now - Window
    BY PrunedTail
  <1>3. /\ now \in Nat /\ keys \in Seq(Clients) /\ events \in [Clients -> Seq(Nat)]
        /\ admitted \in [Clients -> Seq(Nat)] /\ promised \in [Clients -> Int]
    BY DEF IInv, TypeOK
  <1>4. /\ order \in Seq(Clients) /\ order # <<>>
        /\ Len(order) <= MaxClients + 1
        /\ \A i, j \in 1 .. Len(order) : order[i] = order[j] => i = j
        /\ \A i \in 1 .. Len(order) : deques[order[i]] # <<>>
        /\ \A d \in Clients : (\E i \in 1 .. Len(order) : order[i] = d)
                              <=> Tracked(d) \/ d = c
    BY Zenon, <1>2, OrderInUse
  <1>5. gone = IF Len(order) <= MaxClients THEN {} ELSE {1}
    BY Zenon, <1>4, EvictsFirst
  <1>6. /\ HasRoom(live)
        /\ keys' = Without(order, gone)
        /\ events' = [d \in Clients |-> IF out(d) THEN <<>> ELSE deques[d]]
        /\ admitted' = [d \in Clients |->
             IF out(d) THEN <<>>
             ELSE IF d = c THEN Append(admitted[c], now) ELSE admitted[d]]
        /\ promised' = [promised EXCEPT ![c] = -1]
        /\ now' = now
    BY <1>1
  <1>7. \A d \in Clients : deques[d] = IF d = c THEN Append(live, now) ELSE events[d]
    BY <1>3
  <1>8. deques \in [Clients -> Seq(Nat)]
    BY <1>2, <1>3
  <1>9. \A d \in Clients :
          \/ out(d) /\ events'[d] = <<>> /\ admitted'[d] = <<>>
          \/ /\ ~out(d) /\ d = c
             /\ events'[d] = Append(live, now)
             /\ admitted'[d] = Append(admitted[c], now)
          \/ ~out(d) /\ d # c /\ events'[d] = events[d] /\ admitted'[d] = admitted[d]
    <2> HIDE DEF out, deques
    <2> QED BY Zenon, <1>6, <1>7
  \* The keys that are left are the keys of the deques that are left.
  <1>10. /\ keys' \in Seq(Clients) /\ Len(keys') <= MaxClients
         /\ \A i, j \in 1 .. Len(keys') : keys'[i] = keys'[j] => i = j
         /\ \A i \in 1 .. Len(keys') :
              /\ keys'[i] \in Clients /\ ~out(keys'[i])
              /\ deques[keys'[i]] # <<>>
         /\ \A d \in Clients :
              (Tracked(d) \/ d = c) /\ ~out(d) => \E i \in 1 .. Len(keys') : keys'[i] = d
    <2> HIDE DEF deques, order, gone
    <2>1. Len(order) \in Nat \ {0} /\ \A i \in 1 .. Len(order) : order[i] \in Clients
      BY <1>4
    <2>2. CASE Len(order) <= MaxClients
      <3>1. gone = {} /\ keys' = order
        BY <1>5, <1>6, <2>2 DEF Without
      <3> QED BY <1>4, <2>1, <2>2, <3>1
    <2>3. CASE ~(Len(order) <= MaxClients)
      <3>1. gone = {1}
        BY <1>5, <2>3
      <3>2. /\ keys' \in Seq(Clients) /\ Len(keys') = Len(order) - 1
            /\ \A i \in 1 .. Len(order) - 1 : keys'[i] = order[i + 1]
        BY <1>4, <1>6, <3>1, WithoutFirst
      <3>3. \A d : out(d) <=> order[1] = d
        BY <3>1
      <3>4. Len(keys') <= MaxClients
        BY <1>4, <2>1, <3>2
      <3>5. \A i \in 1 .. Len(keys') :
              i + 1 \in 1 .. Len(order) /\ i + 1 # 1 /\ keys'[i] = order[i + 1]
        BY <2>1, <3>2
      <3>6. 1 \in 1 .. Len(order)
        BY <2>1
      <3>7. \A i, j \in 1 .. Len(keys') : keys'[i] = keys'[j] => i = j
        <4> SUFFICES ASSUME NEW i \in 1 .. Len(keys'), NEW j \in 1 .. Len(keys'),
                            keys'[i] = keys'[j]
                     PROVE  i = j
          OBVIOUS
        <4>1. i + 1 = j + 1
          BY <1>4, <3>5
        <4> QED BY <4>1
      <3>8. \A i \in 1 .. Len(keys') :
              keys'[i] \in Clients /\ ~out(keys'[i]) /\ deques[keys'[i]] # <<>>
        <4> HIDE DEF out
        <4> SUFFICES ASSUME NEW i \in 1 .. Len(keys')
                     PROVE  /\ keys'[i] \in Clients /\ ~out(keys'[i])
                            /\ deques[keys'[i]] # <<>>
          OBVIOUS
        <4>1. i + 1 \in 1 .. Len(order) /\ i + 1 # 1 /\ keys'[i] = order[i + 1]
          BY <3>5
        <4>2. order[1] # order[i + 1]
          BY <1>4, <3>6, <4>1
        <4>3. ~out(keys'[i])
          BY <3>3, <4>1, <4>2
        <4>4. keys'[i] \in Clients /\ deques[keys'[i]] # <<>>
          BY <1>4, <2>1, <4>1, Zenon
        <4> QED BY <4>3, <4>4
      <3>9. ASSUME NEW d \in Clients, Tracked(d) \/ d = c, ~out(d)
            PROVE  \E i \in 1 .. Len(keys') : keys'[i] = d
        <4>1. PICK i \in 1 .. Len(order) : order[i] = d
          BY <1>4, <3>9
        <4>2. i # 1
          BY <3>3, <3>9, <4>1
        <4>3. i - 1 \in 1 .. Len(order) - 1 /\ (i - 1) + 1 = i
          BY <2>1, <4>2
        <4> QED BY Zenon, <3>2, <4>1, <4>3
      <3> QED BY <3>2, <3>4, <3>7, <3>8, <3>9
    <2> QED BY <2>2, <2>3
  <1> HIDE DEF deques, order, gone, out
  <1>11. TypeOK'
    <2>1. Append(admitted[c], now) \in Seq(Nat) /\ <<>> \in Seq(Nat)
      BY <1>3
    <2>2. events' \in [Clients -> Seq(Nat)]
      BY <1>6, <1>8, <2>1
    <2>3. admitted' \in [Clients -> Seq(Nat)]
      BY <1>3, <1>6, <2>1
    <2>4. promised' \in [Clients -> Int]
      BY <1>3, <1>6
    <2> QED BY <1>3, <1>6, <1>10, <2>2, <2>3, <2>4 DEF TypeOK
  <1>12. TailOfAdmitted'
    <2>1. ASSUME NEW d \in Clients
          PROVE  /\ Len(events'[d]) <= Len(admitted'[d])
                 /\ \A i \in 1 .. Len(events'[d]) :
                      events'[d][i] =
                        admitted'[d][Len(admitted'[d]) - Len(events'[d]) + i]
                 /\ \A i \in 1 .. Len(admitted'[d]) - Len(events'[d]) :
                      admitted'[d][i] <= now - Window
      <3>1. CASE out(d)
        <4>1. events'[d] = <<>> /\ admitted'[d] = <<>>
          BY <1>9, <3>1
        <4>2. Len(events'[d]) = 0 /\ Len(admitted'[d]) = 0
          BY <4>1
        <4> QED BY <4>2
      <3>2. CASE ~out(d) /\ d = c
        <4> DEFINE h == admitted[c]
                   q == Append(live, now)
                   g == Append(h, now)
        <4>1. h \in Seq(Nat) /\ Len(h) \in Nat /\ Len(live) \in Nat
          BY <1>2, <1>3
        <4>2. /\ Len(q) = Len(live) + 1 /\ q[Len(live) + 1] = now
              /\ \A i \in 1 .. Len(live) : q[i] = live[i]
          BY <1>2, <1>3
        <4>3. /\ Len(g) = Len(h) + 1 /\ g[Len(h) + 1] = now
              /\ \A i \in 1 .. Len(h) : g[i] = h[i]
          BY <1>3, <4>1
        <4>4. /\ Len(live) <= Len(h)
              /\ \A i \in 1 .. Len(live) : live[i] = h[Len(h) - Len(live) + i]
              /\ \A i \in 1 .. Len(h) - Len(live) : h[i] <= now - Window
          BY <1>2
        <4>5. events'[d] = q /\ admitted'[d] = g
          BY <1>9, <3>2
        <4> HIDE DEF h, q, g
        <4>6. Len(q) <= Len(g) /\ Len(g) - Len(q) = Len(h) - Len(live)
          BY <4>1, <4>2, <4>3, <4>4
        <4>7. ASSUME NEW i \in 1 .. Len(q)
              PROVE  q[i] = g[Len(g) - Len(q) + i]
          <5>1. CASE i \in 1 .. Len(live)
            <6>1. Len(h) - Len(live) + i \in 1 .. Len(h)
              BY <4>1, <4>4, <5>1
            <6> QED BY <4>2, <4>3, <4>4, <4>6, <5>1, <6>1
          <5>2. CASE i = Len(live) + 1
            <6>1. Len(g) - Len(q) + i = Len(h) + 1
              BY <4>1, <4>6, <5>2
            <6> QED BY <4>2, <4>3, <5>2, <6>1
          <5> QED BY <4>1, <4>2, <5>1, <5>2
        <4>8. ASSUME NEW i \in 1 .. Len(g) - Len(q)
              PROVE  g[i] <= now - Window
          <5>1. i \in 1 .. Len(h) - Len(live) /\ i \in 1 .. Len(h)
            BY <4>1, <4>6
          <5> QED BY <4>3, <4>4, <5>1
        <4> QED BY <4>5, <4>6, <4>7, <4>8
      <3>3. CASE ~out(d) /\ d # c
        <4>1. events'[d] = events[d] /\ admitted'[d] = admitted[d]
          BY <1>9, <3>3
        <4> QED BY Zenon, <4>1 DEF IInv, TailOfAdmitted
      <3> QED BY Zenon, <3>1, <3>2, <3>3
    <2>2. now' = now
      BY <1>6
    <2> QED
      BY <2>1, <2>2, Zenon DEF TailOfAdmitted
  <1>13. KeysInUse'
    <2>1. \A i \in 1 .. Len(keys') : events'[keys'[i]] # <<>>
      BY <1>6, <1>10
    <2> QED BY <1>10, <2>1 DEF KeysInUse
  <1>14. PromiseCovers'
    <2>1. promised'[c] = -1 /\ \A d \in Clients \ {c} : promised'[d] = promised[d]
      BY <1>3, <1>6
    <2>2. ASSUME NEW d \in Clients, promised'[d] >= 0, events'[d] # <<>>
          PROVE  events'[d][1] + Window <= promised'[d]
      <3>1. d # c
        BY <2>1, <2>2
      <3>2. events'[d] = events[d] /\ promised'[d] = promised[d]
        BY <1>9, <2>1, <2>2, <3>1
      <3> QED BY <2>2, <3>2 DEF IInv, PromiseCovers
    <2> QED BY <2>2 DEF PromiseCovers
  <1>15. Bounded'
    <2>1. Len(Append(live, now)) <= Limit
      BY <1>2, <1>3, <1>6 DEF HasRoom
    <2>2. Len(<<>>) <= Limit
      OBVIOUS
    <2>3. \A d \in Clients : Len(events'[d]) <= Limit
      BY <1>9, <2>1, <2>2 DEF IInv, Bounded
    <2>4. ASSUME NEW d \in Clients, ~(\E i \in 1 .. Len(keys') : keys'[i] = d)
          PROVE  events'[d] = <<>>
      <3>1. out(d) \/ (~Tracked(d) /\ d # c)
        BY <1>10, <2>4
      <3>2. ~Tracked(d) => events[d] = <<>>
        BY DEF IInv, Bounded
      <3> QED BY <1>9, <3>1, <3>2
    <2> QED BY <1>10, <2>3, <2>4 DEF Bounded, Tracked
  <1>16. WindowBound'
    <2> SUFFICES ASSUME NEW d \in Clients, NEW i \in 1 .. Len(admitted'[d]) - Limit
                 PROVE  admitted'[d][i + Limit] - admitted'[d][i] >= Window
      BY DEF WindowBound
    <2>1. CASE out(d)
      <3>1. Len(admitted'[d]) = 0
        BY <1>9, <2>1
      <3> QED BY <3>1
    <2>2. CASE ~out(d) /\ d = c
      <3> DEFINE h == admitted[c]
                 g == Append(h, now)
      <3>1. /\ h \in Seq(Nat) /\ Len(h) \in Nat /\ Len(live) \in Nat
            /\ Len(live) < Limit
        BY <1>2, <1>3, <1>6 DEF HasRoom
      <3>2. /\ Len(g) = Len(h) + 1 /\ g[Len(h) + 1] = now
            /\ \A k \in 1 .. Len(h) : g[k] = h[k]
        BY <1>3, <3>1
      <3>3. \A k \in 1 .. Len(h) - Len(live) : h[k] <= now - Window
        BY <1>2
      <3>4. \A k \in 1 .. Len(h) - Limit : h[k + Limit] - h[k] >= Window
        BY DEF IInv, WindowBound
      <3>5. admitted'[d] = g
        BY <1>9, <2>2
      <3> HIDE DEF h, g
      <3>6. i \in 1 .. Len(h) /\ h[i] \in Nat /\ g[i] = h[i]
        BY <3>1, <3>2, <3>5
      <3>7. CASE i + Limit = Len(h) + 1
        <4>1. i \in 1 .. Len(h) - Len(live)
          BY <3>1, <3>6, <3>7
        <4>2. h[i] <= now - Window
          BY <3>3, <4>1
        <4>3. admitted'[d][i + Limit] = now /\ admitted'[d][i] = h[i]
          BY <3>2, <3>5, <3>6, <3>7
        <4>4. now - h[i] >= Window
          BY <1>3, <3>6, <4>2
        <4> QED BY <4>3, <4>4
      <3>8. CASE i + Limit # Len(h) + 1
        <4>1. i \in 1 .. Len(h) - Limit /\ i + Limit \in 1 .. Len(h)
          BY <3>1, <3>2, <3>5, <3>8
        <4>2. h[i + Limit] - h[i] >= Window
          BY <3>4, <4>1
        <4>3. admitted'[d][i + Limit] = h[i + Limit] /\ admitted'[d][i] = h[i]
          BY <3>2, <3>5, <3>6, <4>1
        <4> QED BY <4>2, <4>3
      <3> QED BY <3>7, <3>8
    <2>3. CASE ~out(d) /\ d # c
      BY <1>9, <2>3 DEF IInv, WindowBound
    <2> QED BY <2>1, <2>2, <2>3
  <1> QED
    BY <1>11, <1>12, <1>13, <1>14, <1>15, <1>16 DEF IInv

\* The invariant is inductive.
THEOREM LimiterInductive == Spec => []IInv
  <1>1. IInv /\ [Next]_vars => IInv'
    <2> SUFFICES ASSUME IInv, [Next]_vars PROVE IInv'
      OBVIOUS
    <2>1. CASE Tick
      BY <2>1, TickIInv
    <2>2. ASSUME NEW c \in Clients, Admit(c) PROVE IInv'
      BY <2>2, AdmitIInv
    <2>3. ASSUME NEW c \in Clients, Refuse(c) PROVE IInv'
      BY <2>3, RefuseIInv
    <2>4. CASE UNCHANGED vars
      BY <2>4 DEF vars, IInv, TypeOK, TailOfAdmitted, KeysInUse, PromiseCovers,
                  Bounded, WindowBound, Tracked
    <2> QED
      BY <2>1, <2>2, <2>3, <2>4 DEF Next
  <1> QED
    BY InitIInv, <1>1, PTL DEF Spec

\* allow keeps to its types, whatever clients ask and when.
THEOREM LimiterTypes == Spec => []TypeOK
  BY LimiterInductive, PTL DEF IInv

\* The limiter's memory is bounded by max_clients and by the limit, although
\* the eviction never finds the empty deque it looks for first.
THEOREM LimiterBounded == Spec => []Bounded
  BY LimiterInductive, PTL DEF IInv

\* No window holds more than Limit requests of a client that keeps its key.
THEOREM LimiterWindow == Spec => []WindowBound
  BY LimiterInductive, PTL DEF IInv

\* A client that waits for as long as it is told is admitted.
THEOREM LimiterRetryAfter == Spec => []RetryAfterSuffices
  <1>1. IInv => RetryAfterSuffices
    <2> SUFFICES ASSUME IInv, NEW c \in Clients,
                        promised[c] >= 0, promised[c] <= now,
                        NEW live \in Pruned(events[c])
                 PROVE  HasRoom(live)
      BY DEF RetryAfterSuffices
    <2> USE LimiterConstants
    <2>1. /\ now \in Nat /\ events[c] \in Seq(Nat) /\ promised[c] \in Int
          /\ Len(events[c]) \in Nat /\ Len(events[c]) <= Limit
      BY DEF IInv, TypeOK, Bounded
    <2>2. /\ live \in Seq(Nat) /\ Len(live) \in Nat /\ Len(live) <= Len(events[c])
          /\ \A i \in 1 .. Len(live) : live[i] = events[c][Len(events[c]) - Len(live) + i]
          /\ live # <<>> => live[1] > now - Window
      <3> DEFINE q == events[c]
      <3>1. q \in Seq(Nat) /\ live \in Pruned(q)
        BY <2>1
      <3> HIDE DEF q
      <3>2. /\ live \in Seq(Nat) /\ Len(live) <= Len(q)
            /\ \A i \in 1 .. Len(live) : live[i] = q[Len(q) - Len(live) + i]
            /\ live # <<>> => live[1] > now - Window
        BY <2>1, <3>1, PrunedDeque
      <3> QED BY <3>2 DEF q
    <2>3. CASE Len(live) < Len(events[c])
      BY <2>1, <2>2, <2>3 DEF HasRoom
    <2>4. CASE Len(live) = Len(events[c]) /\ live # <<>>
      <3>1. 1 \in 1 .. Len(live) /\ Len(events[c]) - Len(live) + 1 = 1
        BY <2>1, <2>2, <2>4
      <3>2. live[1] = events[c][1] /\ events[c] # <<>> /\ events[c][1] \in Nat
        BY <2>1, <2>2, <2>4, <3>1
      <3>3. events[c][1] + Window <= promised[c]
        BY <3>2 DEF IInv, PromiseCovers
      <3> QED BY <2>1, <2>2, <2>4, <3>2, <3>3
    <2>5. CASE live = <<>>
      BY <2>5 DEF HasRoom
    <2> QED BY <2>1, <2>2, <2>3, <2>4, <2>5
  <1> QED
    BY LimiterInductive, <1>1, PTL
=============================================================================
