---------------------------- MODULE NonceProofs ----------------------------
(***************************************************************************)
(* Nonces grow for every Scale greater than the number of calls a second.  *)
(***************************************************************************)
EXTENDS Nonce, TLAPS

\* The inductive invariant.  While the generator works in the current second
\* its counter is bounded by the calls made there and last is its newest
\* nonce; otherwise last is no greater than the base of the current second.
\* NonceGrows alone is not inductive: it says nothing of how far the counter
\* of a past second may have run.
Current == ts = clock * Scale => nonce <= ops + 1 /\ last <= ts + nonce

Past == ts # clock * Scale => last <= clock * Scale

IInv == TypeOK /\ ts <= clock * Scale /\ Current /\ Past

\* Two seconds are Scale nonces apart.
LEMMA Apart ==
    ASSUME NEW c \in Nat, NEW d \in Nat, c < d
    PROVE  c * Scale + Scale <= d * Scale
<1>1. PICK k \in Nat : d = c + 1 + k
  <2>1. d - c - 1 \in Nat /\ d = c + 1 + (d - c - 1)
    OBVIOUS
  <2> QED BY <2>1
<1>2. (c + 1 + k) * Scale = c * Scale + Scale + k * Scale /\ k * Scale >= 0
  BY NonceAssumption
<1>3. c * Scale \in Nat /\ k * Scale \in Nat
  BY NonceAssumption
<1> QED BY <1>1, <1>2, <1>3, NonceAssumption

\* init() establishes the invariant.
LEMMA InitInv == Init => IInv
<1>1. 0 * Scale = 0
  BY NonceAssumption
<1> QED BY <1>1, NonceAssumption DEF Init, IInv, TypeOK, Current, Past

\* A call keeps the invariant and returns a greater nonce.
LEMMA GetNonceInv ==
    ASSUME IInv, GetNonce
    PROVE  IInv' /\ last' > last
<1>1. clock * Scale \in Nat
  BY NonceAssumption DEF IInv, TypeOK
<1> DEFINE n == clock * Scale
<1>2. /\ ops < OpsPerTick /\ ops' = ops + 1 /\ clock' = clock
      /\ IF ts = n THEN Issue(ts, nonce + 1) ELSE Issue(n, 1)
  BY DEF GetNonce
<1>3. (clock * Scale)' = n
  BY <1>2
<1>4. /\ n \in Nat /\ TypeOK /\ ts <= n
      /\ ts = n => nonce <= ops + 1 /\ last <= ts + nonce
      /\ ts # n => last <= n
  BY <1>1 DEF IInv, Current, Past
<1> HIDE DEF n
<1>5. TypeOK' /\ ts' <= n
  BY <1>2, <1>4, NonceAssumption DEF TypeOK, Issue
<1>6. ts' = n /\ nonce' <= ops' + 1 /\ last' <= ts' + nonce' /\ last' > last
  BY <1>2, <1>4, NonceAssumption DEF TypeOK, Issue
<1>7. Current' /\ Past'
  BY <1>3, <1>6 DEF Current, Past
<1> QED BY <1>3, <1>5, <1>6, <1>7 DEF IInv

\* At the start of a later second every nonce given out is no greater than
\* its base: this is where the limit on the calls of a second is needed.
LEMMA LaterSecond ==
    ASSUME IInv, NEW c \in Nat, clock < c
    PROVE  /\ last <= c * Scale /\ ts < c * Scale
           /\ c * Scale \in Nat
<1>1. clock * Scale \in Nat /\ c * Scale \in Nat /\ Scale > 0
  BY NonceAssumption DEF IInv, TypeOK
<1>2. clock * Scale + Scale <= c * Scale
  BY Apart DEF IInv, TypeOK
<1> DEFINE n == clock * Scale  m == c * Scale
<1>3. /\ n \in Nat /\ m \in Nat /\ n + Scale <= m /\ TypeOK /\ ts <= n
      /\ ts = n => nonce <= ops + 1 /\ last <= ts + nonce
      /\ ts # n => last <= n
  BY <1>1, <1>2 DEF IInv, Current, Past
<1> HIDE DEF n, m
<1>4. last <= m /\ ts < m
  BY <1>1, <1>3, NonceAssumption DEF TypeOK
<1> QED BY <1>1, <1>4 DEF m

\* Every step keeps the invariant.
LEMMA NextInv == IInv /\ [Next]_vars => IInv'
<1> SUFFICES ASSUME IInv, [Next]_vars PROVE IInv'
  OBVIOUS
<1>1. CASE GetNonce
  BY <1>1, GetNonceInv
<1>2. CASE Tick \/ Restart
  <2>1. clock \in Nat /\ clock' \in Nat /\ clock < clock' /\ ops' = 0 /\ last' = last
    BY <1>2, NonceAssumption DEF Tick, Restart, IInv, TypeOK
  <2> DEFINE m == clock' * Scale
  <2>2. last <= m /\ ts < m /\ m \in Nat
    BY <2>1, LaterSecond
  <2>3. \/ ts' = ts /\ nonce' = nonce
        \/ ts' = m /\ nonce' = 1
    BY <1>2 DEF Tick, Restart
  <2>4. (clock * Scale)' = m
    OBVIOUS
  <2> HIDE DEF m
  <2>5. TypeOK' /\ ts' <= m
    BY <2>1, <2>2, <2>3, NonceAssumption DEF IInv, TypeOK
  <2>6. /\ ts' = m => nonce' <= ops' + 1 /\ last' <= ts' + nonce'
        /\ ts' # m => last' <= m
    BY <2>1, <2>2, <2>3 DEF IInv, TypeOK
  <2> QED BY <2>4, <2>5, <2>6 DEF IInv, Current, Past
<1>3. CASE UNCHANGED vars
  BY <1>3 DEF vars, IInv, TypeOK, Current, Past
<1> QED BY <1>1, <1>2, <1>3 DEF Next

\* The invariant holds of every behaviour.
THEOREM Safety == Spec => []IInv
BY InitInv, NextInv, PTL DEF Spec

\* "GetNonce makes a new nonce", for every Scale and every rate below it.
THEOREM NoncesGrow == Spec => NonceGrows
<1>1. ASSUME IInv, [Next]_vars
      PROVE  [last' # last \/ ops' = ops + 1 => last' > last]_vars
  <2>1. CASE GetNonce
    BY <1>1, <2>1, GetNonceInv
  <2>2. CASE Tick \/ Restart
    BY <1>1, <2>2 DEF Tick, Restart, IInv, TypeOK
  <2>3. CASE UNCHANGED vars
    BY <2>3
  <2> QED BY <1>1, <2>1, <2>2, <2>3 DEF Next
<1> QED BY <1>1, Safety, PTL DEF Spec, NonceGrows
=============================================================================
