---------------------------- MODULE RateLimiter ----------------------------
(***************************************************************************)
(* web.rateLimiter, which stands before POST /login and GET /token: a      *)
(* sliding log of admissions per client address.  allow takes the time     *)
(* before it takes the lock, so calls may enter the lock in another order  *)
(* than the one their times have.                                          *)
(*                                                                         *)
(* Times are kept as ages, which Tick increments; "t.After(now - window)"  *)
(* is then "the age of t exceeds the age of now by less than window".  An  *)
(* age stops at Horizon, from where no call counts it any more.            *)
(***************************************************************************)
EXTENDS Integers, Sequences, FiniteSets

CONSTANTS
  Clients,    \* client addresses: the keys of the map
  Threads,    \* requests that are in the middleware at once
  Limit,      \* 20 in server.go
  Window,     \* one minute in server.go
  MaxDelay    \* bound on the time between time.Now() and the lock

ASSUME RateLimiterAssumption ==
  /\ Limit \in Nat \ {0}
  /\ Window \in Nat /\ MaxDelay \in Nat /\ MaxDelay < Window

Horizon == Window + MaxDelay
Ages == 0..Horizon
Older(age) == IF age < Horizon THEN age + 1 ELSE Horizon
Passed == [none |-> TRUE]

VARIABLES
  entries,   \* client -> ages of the admissions it has on record
  call,      \* thread -> the client it asks for and the age of its "now"
  admitted   \* history: client -> ages of its admissions, up to the horizon

vars == <<entries, call, admitted>>

Call == [client : Clients, now : 0..MaxDelay]

TypeOK ==
  /\ entries \in [Clients -> Seq(Ages)] /\ \A c \in Clients : Len(entries[c]) <= Limit
  /\ admitted \in [Clients -> Seq(Ages)]
  /\ call \in [Threads -> Call \cup {Passed}]

Init ==
  /\ entries  = [c \in Clients |-> <<>>]
  /\ admitted = [c \in Clients |-> <<>>]
  /\ call = [t \in Threads |-> Passed]

\* The middleware takes the host of RemoteAddr; allow calls time.Now().
Arrive(t) ==
  /\ call[t] = Passed
  /\ \E c \in Clients : call' = [call EXCEPT ![t] = [client |-> c, now |-> 0]]
  /\ UNCHANGED <<entries, admitted>>

\* The loop over the entries of a client: those younger than "bound" are kept.
Recent(ages, bound) ==
  LET kept[k \in 0..Len(ages)] ==
        IF k = 0 THEN <<>>
        ELSE IF ages[k] < bound THEN Append(kept[k - 1], ages[k]) ELSE kept[k - 1]
  IN kept[Len(ages)]

BUG_allow_RecordsDenied(t) ==   \* now is appended before the limit is looked at
  /\ call[t] # Passed
  /\ LET c == call[t].client
         now == call[t].now
         recent == Recent(entries[c], now + Window)
     IN IF Len(recent) >= Limit
        THEN /\ entries' = [entries EXCEPT ![c] = Append(Tail(recent), now)]
             /\ UNCHANGED admitted
        ELSE /\ entries'  = [entries  EXCEPT ![c] = Append(recent, now)]
             /\ admitted' = [admitted EXCEPT ![c] = Append(@, now)]
  /\ call' = [call EXCEPT ![t] = Passed]

BUG_allow_OffByOne(t) ==   \* len(recent) > limit
  /\ call[t] # Passed
  /\ LET c == call[t].client
         now == call[t].now
         recent == Recent(entries[c], now + Window)
     IN IF Len(recent) > Limit
        THEN /\ entries' = [entries EXCEPT ![c] = recent]
             /\ UNCHANGED admitted
        ELSE /\ entries'  = [entries  EXCEPT ![c] = Append(recent, now)]
             /\ admitted' = [admitted EXCEPT ![c] = Append(@, now)]
  /\ call' = [call EXCEPT ![t] = Passed]

BUG_allow_EvictsEarly(t) ==   \* one time unit is enough to be forgotten
  /\ call[t] # Passed
  /\ LET c == call[t].client
         now == call[t].now
         recent == Recent(entries[c], now + 1)
     IN IF Len(recent) >= Limit
        THEN /\ entries' = [entries EXCEPT ![c] = recent]
             /\ UNCHANGED admitted
        ELSE /\ entries'  = [entries  EXCEPT ![c] = Append(recent, now)]
             /\ admitted' = [admitted EXCEPT ![c] = Append(@, now)]
  /\ call' = [call EXCEPT ![t] = Passed]

\* Under the lock: forget what the window has left behind; deny or record.
allow(t) ==
  /\ call[t] # Passed
  /\ LET c == call[t].client
         now == call[t].now
         recent == Recent(entries[c], now + Window)
     IN IF Len(recent) >= Limit
        THEN /\ entries' = [entries EXCEPT ![c] = recent]
             /\ UNCHANGED admitted
        ELSE /\ entries'  = [entries  EXCEPT ![c] = Append(recent, now)]
             /\ admitted' = [admitted EXCEPT ![c] = Append(@, now)]
  /\ call' = [call EXCEPT ![t] = Passed]

\* A unit of time goes by; no call waits for the lock longer than MaxDelay.
Aged(ages) == [k \in DOMAIN ages |-> Older(ages[k])]

Tick ==
  /\ \A t \in Threads : call[t] # Passed => call[t].now < MaxDelay
  /\ entries'  = [c \in Clients |-> Aged(entries[c])]
  /\ admitted' = [c \in Clients |-> Recent(Aged(admitted[c]), Horizon)]
  /\ call' = [t \in Threads |-> IF call[t] = Passed THEN Passed
                                ELSE [call[t] EXCEPT !.now = @ + 1]]

Next == Tick \/ \E t \in Threads : Arrive(t) \/ allow(t)

\* Time goes by, and a mutex that is free again is handed to whoever waits.
Spec == Init /\ [][Next]_vars
             /\ WF_vars(Tick) /\ \A t \in Threads : WF_vars(allow(t))

-----------------------------------------------------------------------------
\* A client is let through at most Limit times in any period of that length.
AtMostLimitIn(period) ==
  \A c \in Clients : \A first \in Ages :
    Cardinality({k \in DOMAIN admitted[c] :
                   first <= admitted[c][k] /\ admitted[c][k] < first + period}) <= Limit

\* Taking the time outside the lock makes the window shorter by as much as a call
\* waits, and by no more: a call that was overtaken finds that the overtaker has
\* already forgotten admissions that are still in the window of its own "now".
LimitKept == AtMostLimitIn(Window - MaxDelay)

\* Denied calls are not recorded, so no client shuts itself out by insisting: one
\* that always asks again is let through again and again.
NotShutOut ==
  \A c \in Clients :
    []<>(\E t \in Threads : call[t] # Passed /\ call[t].client = c)
      => []<>(\E k \in DOMAIN admitted[c] : admitted[c][k] <= MaxDelay)
=============================================================================
