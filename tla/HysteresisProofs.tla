-------------------------- MODULE HysteresisProofs --------------------------
(***************************************************************************)
(* What the decider's constructor and its Evaluate return, for every       *)
(* threshold and every reading.                                            *)
(***************************************************************************)
EXTENDS Hysteresis, TLAPS

\* New: a fresh decider is well formed whatever threshold it is asked for.
LEMMA NewDeciderType ==
  ASSUME NEW h \in Nat
  PROVE  /\ NewDecider(h) \in Deciders
         /\ NewDecider(h).need >= 1
         /\ NewDecider(h).streak = 0
         /\ NewDecider(h).candidate = NewDecider(h).current
  BY DEF NewDecider, Deciders, Verdicts

\* Evaluate on a well-formed decider: its type, and the two ways it can go.
LEMMA EvaluateCases ==
  ASSUME NEW d \in Deciders, NEW v \in Verdicts,
         d.streak < d.need, d.streak = 0 => d.candidate = d.current
  PROVE  LET e == Evaluate(d, v)
             run == IF v = d.candidate THEN d.streak + 1 ELSE 1
         IN  /\ e \in Deciders
             /\ e.need = d.need
             /\ e.candidate = v
             /\ (v = d.current \/ run >= d.need) => e.current = v /\ e.streak = 0
             /\ ~(v = d.current \/ run >= d.need)
                  => e.current = d.current /\ e.streak = run /\ run < d.need
  <1> DEFINE e == Evaluate(d, v)
             run == IF v = d.candidate THEN d.streak + 1 ELSE 1
  <1>1. run \in Nat /\ d.need \in Nat
    BY DEF Deciders
  <1>2. CASE v = d.current \/ run >= d.need
    <2>1. e = [need |-> d.need, current |-> v, candidate |-> v, streak |-> 0]
      BY <1>2 DEF Evaluate, Deciders
    <2>2. e \in Deciders
      BY <2>1 DEF Deciders
    <2>3. QED
      BY <1>2, <2>1, <2>2
  <1>3. CASE ~(v = d.current \/ run >= d.need)
    <2>1. e = [need |-> d.need, current |-> d.current, candidate |-> v,
               streak |-> run]
      BY <1>3 DEF Evaluate, Deciders
    <2>2. e \in Deciders
      BY <1>1, <2>1 DEF Deciders
    <2>3. run < d.need
      BY <1>1, <1>3
    <2>4. QED
      BY <1>3, <2>1, <2>2, <2>3
  <1>4. QED
    BY <1>2, <1>3

\* Evaluate keeps a decider a decider, whatever it was counting.
LEMMA EvaluateType ==
  ASSUME NEW d \in Deciders, NEW v \in Verdicts
  PROVE  Evaluate(d, v) \in Deciders
  <1> DEFINE run == IF v = d.candidate THEN d.streak + 1 ELSE 1
  <1>1. run \in Nat /\ d.need \in Nat \ {0} /\ d.current \in Verdicts
    BY DEF Deciders
  <1>2. CASE v = d.current \/ run >= d.need
    <2>1. Evaluate(d, v) = [need |-> d.need, current |-> v, candidate |-> v,
                            streak |-> 0]
      BY <1>2 DEF Evaluate, Deciders
    <2>2. QED
      BY <1>1, <2>1 DEF Deciders
  <1>3. CASE ~(v = d.current \/ run >= d.need)
    <2>1. Evaluate(d, v) = [need |-> d.need, current |-> d.current, candidate |-> v,
                            streak |-> run]
      BY <1>3 DEF Evaluate, Deciders
    <2>2. QED
      BY <1>1, <2>1 DEF Deciders
  <1>4. QED
    BY <1>2, <1>3

=============================================================================
