---------------------------- MODULE RateLimiter -----------------------------
(***************************************************************************)
(* The sliding-window rate limiter in front of the gateway's API           *)
(* (common/rate_limit.py, rate_limit_requests in gateway/app.py).          *)
(*                                                                         *)
(* The middleware calls allow on the event loop, so a call is one step.    *)
(* Time passes in ticks; a second has PerSecond of them, since the window  *)
(* is measured in fractions of a second and Retry-After in whole ones.     *)
(***************************************************************************)
EXTENDS Integers, Sequences

CONSTANTS
  Clients,      \* client keys: the hosts requests come from
  Limit,        \* requests a window; 0 switches the limiter off, not modelled
  Window,       \* window_seconds, in ticks
  PerSecond,    \* ticks a second
  MaxClients,   \* max_clients: deques kept
  MaxTime       \* bound: ticks

ASSUME LimiterConstants ==
  /\ Limit \in Nat \ {0} /\ Window \in Nat \ {0} /\ PerSecond \in Nat \ {0}
  /\ MaxClients \in Nat \ {0} /\ MaxTime \in Nat

VARIABLES
  now,        \* time.monotonic()
  keys,       \* the keys of _events in the order of their insertion
  events,     \* _events: the deque of each client, empty without a key
  admitted,   \* history: requests admitted since the client's key was inserted
  promised    \* history: when the last Retry-After of a client is over

vars == <<now, keys, events, admitted, promised>>

TypeOK ==
  /\ now \in Nat
  /\ keys \in Seq(Clients)
  /\ events \in [Clients -> Seq(Nat)]
  /\ admitted \in [Clients -> Seq(Nat)]
  /\ promised \in [Clients -> Int]

Init ==
  /\ now = 0
  /\ keys = <<>>
  /\ events = [c \in Clients |-> <<>>]
  /\ admitted = [c \in Clients |-> <<>>]
  /\ promised = [c \in Clients |-> -1]

Tick ==
  /\ now < MaxTime
  /\ now' = now + 1
  /\ UNCHANGED <<keys, events, admitted, promised>>

Tracked(c) == \E i \in 1 .. Len(keys) : keys[i] = c

Expired(t) == t <= now - Window

\* The popleft loop: what is left of a deque after its expired head.
Pruned(q) ==
  {SubSeq(q, k + 1, Len(q)) : k \in {k \in 0 .. Len(q) :
     /\ \A i \in 1 .. k : Expired(q[i])
     /\ k < Len(q) => ~Expired(q[k + 1])}}

\* setdefault: the dictionary keeps the order of insertion.
Inserted(c) == IF Tracked(c) THEN keys ELSE Append(keys, c)

\* Mutant: no client is ever evicted.
NeverEvicted(order, deques) == {}

\* _evict_one_empty_client, when there are too many keys: the first client with
\* an empty deque, else the first client.
Evicted(order, deques) ==
  IF Len(order) <= MaxClients THEN {}
  ELSE {i \in 1 .. Len(order) :
          IF \E e \in 1 .. Len(order) : deques[order[e]] = <<>>
          THEN /\ deques[order[i]] = <<>>
               /\ \A e \in 1 .. i - 1 : deques[order[e]] # <<>>
          ELSE i = 1}

\* Mutant: one request too many.
HasRoomInclusive(live) == Len(live) <= Limit

HasRoom(live) == Len(live) < Limit

\* Mutant: the evicted key leaves an empty entry behind.
WithHole(order, gone) == [i \in 1 .. Len(order) |-> IF i \in gone THEN "" ELSE order[i]]

\* Without the entry at position i, if there is one.
Without(order, gone) ==
  IF gone = {} THEN order
  ELSE LET i == CHOOSE i \in gone : TRUE
       IN SubSeq(order, 1, i - 1) \o SubSeq(order, i + 1, Len(order))

\* allow(c) is True: the request is recorded, and a client may be evicted.
Admit(c) ==
  \E live \in Pruned(events[c]) :
    LET deques == [events EXCEPT ![c] = Append(live, now)]
        order == Inserted(c)
        gone == Evicted(order, deques)
        out(d) == \E i \in gone : order[i] = d
    IN /\ HasRoom(live)
       /\ keys' = Without(order, gone)
       /\ events' = [d \in Clients |-> IF out(d) THEN <<>> ELSE deques[d]]
       /\ admitted' = [d \in Clients |->
                         IF out(d) THEN <<>>
                         ELSE IF d = c THEN Append(admitted[c], now) ELSE admitted[d]]
       /\ promised' = [promised EXCEPT ![c] = -1]
       /\ UNCHANGED now

\* Mutant: whole seconds are rounded down.
RoundedDown(ticks) == ticks \div PerSecond

CeilSeconds(ticks) == (ticks + PerSecond - 1) \div PerSecond

\* retry_after: until the oldest event of the window expires, at least 1.
RetryAfter(live) ==
  LET seconds == CeilSeconds(Window - (now - live[1]))
  IN IF seconds < 1 THEN 1 ELSE seconds

\* allow(c) is False: 429 with Retry-After.
Refuse(c) ==
  \E live \in Pruned(events[c]) :
    /\ ~HasRoom(live)
    /\ events' = [events EXCEPT ![c] = live]
    /\ promised' = [promised EXCEPT ![c] = now + PerSecond * RetryAfter(live)]
    /\ UNCHANGED <<now, keys, admitted>>

Next == Tick \/ \E c \in Clients : Admit(c) \/ Refuse(c)

Spec == Init /\ [][Next]_vars

-----------------------------------------------------------------------------
(* Properties *)

\* The dictionary never holds more than max_clients deques, and those of other
\* clients are empty: the memory of the limiter is bounded by allow's eviction.
Bounded ==
  /\ Len(keys) <= MaxClients
  /\ \A c \in Clients : ~Tracked(c) => events[c] = <<>>
  /\ \A c \in Clients : Len(events[c]) <= Limit

\* No window holds more than Limit admitted requests of a client, as long as its
\* key is kept: a request and the Limit-th after it are a window apart.
WindowBound ==
  \A c \in Clients : \A i \in 1 .. Len(admitted[c]) - Limit :
    admitted[c][i + Limit] - admitted[c][i] >= Window

\* A client that waits for as long as Retry-After says is admitted: the oldest
\* of its events is expired then, and with it there is room in the window.
RetryAfterSuffices ==
  \A c \in Clients :
    promised[c] >= 0 /\ promised[c] <= now =>
      \A live \in Pruned(events[c]) : HasRoom(live)
=============================================================================
