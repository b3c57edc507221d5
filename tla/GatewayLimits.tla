--------------------------- MODULE GatewayLimits ---------------------------
(***************************************************************************)
(* What a request to the gateway takes and gives back                       *)
(* (internal/gateway/limiter.go and prepareProviderRequest of service.go):  *)
(* a slot of the limiter, a slot of its key and a part of the key's monthly *)
(* tokens. The used tokens are read from the store before the limiter is    *)
(* locked, are recorded after the answer and before the lease ends, and     *)
(* every reconfiguration puts a new service with an empty limiter behind    *)
(* the listener while the requests in flight keep theirs. One month, keys   *)
(* with a monthly limit, and requests that passed authentication.           *)
(***************************************************************************)
EXTENDS Integers, FiniteSets

CONSTANTS
    Calls,           \* requests in flight at once
    Keys,            \* gateway keys
    GlobalSlots,     \* maxGlobalConcurrency
    KeySlots,        \* values of a key's MaxConcurrency, 0 when it has none
    MonthlyLimit,    \* MonthlyTokenLimit of a key
    Asked,           \* maximum outputs a client asks for, 0 when it names none
    DefaultOutput,   \* defaultOutputReservation
    MaxUse,          \* bound: tokens a call uses
    Generations      \* bound: services made, 1..Generations

ASSUME GatewayLimitsAssumption ==
    /\ {GlobalSlots, MonthlyLimit, DefaultOutput, Generations} \subseteq Nat \ {0}
    /\ MaxUse \in Nat /\ Asked \subseteq Nat /\ KeySlots \subseteq Nat
    /\ IsFiniteSet(Calls)

VARIABLES
    current,     \* the generation of the service behind the listener
    limiter,     \* generation -> [taken, inFlight, reserved], the last two by key
    call,        \* request -> [pc, on, key, read, tokens]: on: generation that serves it
    used,        \* key -> tokens in api_requests
    excess,      \* history: key -> tokens used beyond what their calls had reserved
    raced        \* history: keys given a reservation on figures that were out of date

limitVars == <<current, limiter, call, used, excess, raced>>

NoCall == [pc |-> "idle", on |-> 0, key |-> "none", read |-> 0, tokens |-> 0]

LimitsInit ==
    /\ current = 1
    /\ limiter = [g \in 1..Generations |->
                     [taken |-> 0, inFlight |-> [k \in Keys |-> 0], reserved |-> [k \in Keys |-> 0]]]
    /\ call = [c \in Calls |-> NoCall]
    /\ used = [k \in Keys |-> 0]
    /\ excess = [k \in Keys |-> 0]
    /\ raced = {}

\* The requests that hold a lease, and with those that hold a slot of the limiter
\* just before they are given one and just after they gave it back.
Leasing == {c \in Calls : call[c].pc \in {"read", "reserve", "generate", "release"}}
Holding == Leasing \cup {c \in Calls : call[c].pc \in {"admit", "leave"}}

\* What calls hold reserved, counted token by token.
Tokens(calls) == Cardinality(UNION {{c} \X (1..call[c].tokens) : c \in calls})

\* Requests of a key whose reservation stands: with the answer to come, or recorded.
Generating(k) == {c \in Calls : call[c].pc = "generate" /\ call[c].key = k}
Reserving(k) == {c \in Calls : call[c].pc \in {"generate", "release"} /\ call[c].key = k}

\* A new service replaces the one behind the listener.
Replaced ==
    /\ current < Generations
    /\ current' = current + 1
    /\ UNCHANGED <<limiter, call, used, excess, raced>>

\* switchHandler.ServeHTTP reads the handler, and serves with it whatever comes.
Route(c) ==
    /\ call[c].pc = "idle"
    /\ \E k \in Keys : call' = [call EXCEPT ![c] = [NoCall EXCEPT !.pc = "routed", !.on = current, !.key = k]]
    /\ UNCHANGED <<current, limiter, used, excess, raced>>

\* acquireIngress takes a slot of the channel first, and then the lock, under
\* which a key at its limit gives the slot back.
AcquireGlobal(c) ==
    LET g == call[c].on IN
    /\ call[c].pc = "routed"
    /\ \/ /\ limiter[g].taken >= GlobalSlots
          /\ call' = [call EXCEPT ![c] = NoCall]
          /\ UNCHANGED limiter
       \/ /\ limiter[g].taken < GlobalSlots
          /\ limiter' = [limiter EXCEPT ![g].taken = @ + 1]
          /\ call' = [call EXCEPT ![c].pc = "admit"]
    /\ UNCHANGED <<current, used, excess, raced>>

\* The key's MaxConcurrency is the one it had when it was authenticated.
acquireIngress(c) ==
    LET g == call[c].on
        k == call[c].key
        AtLimit(slots) == slots > 0 /\ limiter[g].inFlight[k] >= slots
    IN
    /\ call[c].pc = "admit"
    /\ \E slots \in KeySlots :
          \/ /\ AtLimit(slots)
             /\ limiter' = [limiter EXCEPT ![g].taken = @ - 1]
             /\ call' = [call EXCEPT ![c] = NoCall]
          \/ /\ ~AtLimit(slots)
             /\ limiter' = [limiter EXCEPT ![g].inFlight[k] = @ + 1]
             /\ call' = [call EXCEPT ![c].pc = "read"]
    /\ UNCHANGED <<current, used, excess, raced>>

\* The request is invalid, its model is refused or the store fails.
Reject(c) ==
    /\ call[c].pc = "read"
    /\ call' = [call EXCEPT ![c].pc = "release"]
    /\ UNCHANGED <<current, limiter, used, excess, raced>>

\* GetGatewayKeyMonthlyUsage, and the part of what remains that is wanted.
ReadUsage(c) ==
    LET remaining == MonthlyLimit - used[call[c].key]
        Allowed(asked) == remaining > 0 /\ asked <= remaining
    IN
    /\ call[c].pc = "read"
    /\ \/ \E asked \in Asked :
            /\ ~Allowed(asked)
            /\ call' = [call EXCEPT ![c].pc = "release"]
       \/ \E asked \in Asked :
            /\ Allowed(asked)
            /\ call' = [call EXCEPT ![c].pc = "reserve", ![c].read = used[call[c].key],
                           ![c].tokens = IF asked > 0 THEN asked
                                         ELSE IF DefaultOutput > remaining THEN remaining ELSE DefaultOutput]
    /\ UNCHANGED <<current, limiter, used, excess, raced>>

\* Whether a reservation is decided on less than what was used and is held.
OutOfDate(c) ==
    LET k == call[c].key IN
    \/ call[c].read # used[k]
    \/ \E d \in Reserving(k) : call[d].on # call[c].on /\ call[d].tokens > 0

\* A slip: what the requests in flight have reserved is not counted.
ReserveOnUsage(c) ==
    LET g == call[c].on
        k == call[c].key
    IN
    /\ call[c].pc = "reserve"
    /\ \/ /\ call[c].read + call[c].tokens > MonthlyLimit
          /\ call' = [call EXCEPT ![c].pc = "release", ![c].tokens = 0]
          /\ UNCHANGED <<limiter, raced>>
       \/ /\ call[c].read + call[c].tokens <= MonthlyLimit
          /\ limiter' = [limiter EXCEPT ![g].reserved[k] = @ + call[c].tokens]
          /\ call' = [call EXCEPT ![c].pc = "generate"]
          /\ raced' = IF OutOfDate(c) THEN raced \cup {k} ELSE raced
    /\ UNCHANGED <<current, used, excess>>

Reserve(c) ==
    LET g == call[c].on
        k == call[c].key
        wanted == call[c].read + limiter[g].reserved[k] + call[c].tokens
    IN
    /\ call[c].pc = "reserve"
    /\ \/ /\ wanted > MonthlyLimit
          /\ call' = [call EXCEPT ![c].pc = "release", ![c].tokens = 0]
          /\ UNCHANGED <<limiter, raced>>
       \/ /\ wanted <= MonthlyLimit
          /\ limiter' = [limiter EXCEPT ![g].reserved[k] = @ + call[c].tokens]
          /\ call' = [call EXCEPT ![c].pc = "generate"]
          /\ raced' = IF OutOfDate(c) THEN raced \cup {k} ELSE raced
    /\ UNCHANGED <<current, used, excess>>

\* recordGatewayRequest writes what the provider reported, or fails and is only
\* logged: a call that used nothing.
Record(c) ==
    LET k == call[c].key IN
    /\ call[c].pc = "generate"
    /\ \E n \in 0..MaxUse :
          /\ used' = [used EXCEPT ![k] = @ + n]
          /\ excess' = [excess EXCEPT ![k] = IF n > call[c].tokens THEN @ + n - call[c].tokens ELSE @]
    /\ call' = [call EXCEPT ![c].pc = "release"]
    /\ UNCHANGED <<current, limiter, raced>>

\* The key's figures are given back under the lock, and the slot after it.
Release(c) ==
    LET g == call[c].on
        k == call[c].key
        held == limiter[g].reserved[k]
    IN
    /\ call[c].pc = "release"
    /\ limiter' = [limiter EXCEPT
                      ![g].inFlight[k] = IF @ > 0 THEN @ - 1 ELSE @,
                      ![g].reserved[k] = IF held > call[c].tokens THEN held - call[c].tokens ELSE 0]
    /\ call' = [call EXCEPT ![c] = [NoCall EXCEPT !.pc = "leave", !.on = g, !.key = k]]
    /\ UNCHANGED <<current, used, excess, raced>>

ReleaseGlobal(c) ==
    /\ call[c].pc = "leave"
    /\ limiter' = [limiter EXCEPT ![call[c].on].taken = @ - 1]
    /\ call' = [call EXCEPT ![c] = NoCall]
    /\ UNCHANGED <<current, used, excess, raced>>

LimitsNext ==
    \/ Replaced
    \/ \E c \in Calls :
          \/ Route(c) \/ AcquireGlobal(c) \/ acquireIngress(c) \/ Reject(c) \/ ReadUsage(c)
          \/ Reserve(c) \/ Record(c) \/ Release(c) \/ ReleaseGlobal(c)

LimitsSpec == LimitsInit /\ [][LimitsNext]_limitVars

-----------------------------------------------------------------------------
\* A limiter counts exactly the leases open on it, and its slots also the requests
\* just before and just after their lease, whatever was refused halfway or runs on
\* a service replaced since. And the tokens of a key, used or promised to a call
\* whose answer is to come, stay within its monthly limit but for what calls use
\* beyond their reservation, as long as no reservation was granted on usage that
\* another call had outdated, or by a limiter that did not know of one held
\* elsewhere.
AllowanceKept ==
    /\ \A g \in 1..Generations :
          LET leases == {c \in Leasing : call[c].on = g} IN
          /\ limiter[g].taken = Cardinality({c \in Holding : call[c].on = g})
          /\ \A k \in Keys :
                /\ limiter[g].inFlight[k] = Cardinality({c \in leases : call[c].key = k})
                /\ limiter[g].reserved[k] = Tokens(Reserving(k) \cap leases)
    /\ \A k \in Keys \ raced : used[k] + Tokens(Generating(k)) <= MonthlyLimit + excess[k]
=============================================================================
