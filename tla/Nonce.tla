------------------------------- MODULE Nonce -------------------------------
(***************************************************************************)
(* MultikeyNonceGenerator: every websocket and REST client of the process  *)
(* draws its authentication nonces and subscription IDs from it.  GetNonce *)
(* runs under the mutex m from the reading of the clock to the formatting  *)
(* of the result, hence one action.                                        *)
(***************************************************************************)
EXTENDS Naturals

CONSTANTS Scale,        \* nonces per second: 1000 in the code
          OpsPerTick,   \* calls per second: "up to 999 operations per tick"
          MaxClock      \* bound on the clock

ASSUME NonceAssumption ==
    /\ Scale \in Nat
    /\ OpsPerTick \in Nat
    /\ OpsPerTick < Scale
    /\ MaxClock \in Nat

VARIABLES
    clock,  \* time.Now().Unix()
    ts, nonce,
    last,   \* the last nonce Bitfinex has seen from the API key
    ops     \* calls in the current second

vars == <<clock, ts, nonce, last, ops>>

Init ==
    /\ clock = 0
    /\ ts = clock * Scale
    /\ nonce = 1
    /\ last = 0
    /\ ops = 0

\* The rest of GetNonce once the counter is advanced or set.
Issue(t, k) ==
    /\ ts' = t
    /\ nonce' = k
    /\ last' = t + k

\* Faulty variant: a new second starts at 0.
GetNonceFromZero ==
    LET n == clock * Scale IN
    /\ ops < OpsPerTick
    /\ ops' = ops + 1
    /\ IF ts = n THEN Issue(ts, nonce + 1) ELSE Issue(n, 0)
    /\ UNCHANGED clock

GetNonce ==
    LET n == clock * Scale IN
    /\ ops < OpsPerTick
    /\ ops' = ops + 1
    /\ IF ts = n THEN Issue(ts, nonce + 1) ELSE Issue(n, 1)
    /\ UNCHANGED clock

Tick ==
    /\ clock < MaxClock
    /\ \E c \in (clock + 1)..MaxClock : clock' = c
    /\ ops' = 0
    /\ UNCHANGED <<ts, nonce, last>>

\* The process dies and init() runs in its successor, in a later second.
\* Neither a restart within the second nor a wall clock that is set back is
\* allowed for: the code repeats nonces then.
Restart ==
    /\ clock < MaxClock
    /\ clock' = clock + 1
    /\ ts' = clock' * Scale
    /\ nonce' = 1
    /\ ops' = 0
    /\ UNCHANGED last

Next == GetNonce \/ Tick \/ Restart

Spec == Init /\ [][Next]_vars
-----------------------------------------------------------------------------
\* The types of the generator's state; a second's calls are bounded.
TypeOK ==
    /\ clock \in Nat
    /\ ts \in Nat
    /\ nonce \in Nat
    /\ last \in Nat
    /\ ops \in 0..OpsPerTick

\* "GetNonce makes a new nonce": each one is greater than all before it,
\* across the seconds, at the limit of a second's nonces and over restarts.
NonceGrows == [][last' # last \/ ops' = ops + 1 => last' > last]_vars
=============================================================================
