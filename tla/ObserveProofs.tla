--------------------------- MODULE ObserveProofs ---------------------------
(***************************************************************************)
(* What the daemon observes, for every value of the constants: the decider *)
(* and its thresholds, the watcher of the tunnels, the endpoints and the   *)
(* store of what windows taught, and the lookups of the exit's country.    *)
(***************************************************************************)
EXTENDS Decision, Watcher, Endpoints, LearnedStore, Lookups, HysteresisProofs, FiniteSetTheorems,
        SequenceTheorems

\* The counters and the history tell the same story: a candidate other than
\* the committed verdict is being counted exactly while the latest readings
\* contradict it, and never as far as the threshold.
Consistent ==
  /\ agree <= decider.need
  /\ last = "none" <=> agree = 0
  /\ decider.streak = 0 => decider.candidate = decider.current
  /\ decider.streak < decider.need

IInv == TypeOK /\ FlipIsPrompt /\ PendingIsHonest /\ Consistent

\* Init: nothing has been read and nothing is being counted.
LEMMA DecisionInit == Init => IInv
  <1> SUFFICES ASSUME Init PROVE IInv
    OBVIOUS
  <1>1. PICK h \in Thresholds : decider = NewDecider(h)
    BY DEF Init
  <1>2. h \in Nat
    BY ThresholdsAssumption
  <1>3. QED
    BY <1>1, <1>2, NewDeciderType
    DEF Init, IInv, TypeOK, FlipIsPrompt, PendingIsHonest, Consistent,
        PendingVerdict, Deciders

\* A step of any kind keeps the invariant.
LEMMA DecisionStep == IInv /\ [Next]_vars => IInv'
  <1> SUFFICES ASSUME IInv, [Next]_vars PROVE IInv'
    OBVIOUS
  <1>1. ASSUME NEW v \in Verdicts, Reading(v) PROVE IInv'
    <2> DEFINE run == IF v = decider.candidate THEN decider.streak + 1 ELSE 1
    <2>1. /\ decider \in Deciders /\ agree \in Nat
          /\ last \in Verdicts \cup {"none"}
      BY DEF IInv, TypeOK
    <2>2. /\ decider' \in Deciders
          /\ decider'.need = decider.need
          /\ decider'.candidate = v
          /\ (v = decider.current \/ run >= decider.need)
               => decider'.current = v /\ decider'.streak = 0
          /\ ~(v = decider.current \/ run >= decider.need)
               => decider'.current = decider.current /\ decider'.streak = run
                  /\ run < decider.need
      BY <1>1, <2>1, EvaluateCases DEF Reading, IInv, Consistent
    <2>3. TypeOK'
      BY <1>1, <2>1, <2>2 DEF Reading, TypeOK, Deciders
    <2>4. Consistent'
      BY <1>1, <2>1, <2>2
      DEF Reading, IInv, Consistent, PendingIsHonest, Deciders, Verdicts
    <2>5. PendingIsHonest'
      BY <1>1, <2>1, <2>2
      DEF Reading, IInv, Consistent, PendingIsHonest, PendingVerdict,
          FlipIsPrompt, Deciders, Verdicts
    <2>6. FlipIsPrompt'
      BY <1>1, <2>1, <2>2
      DEF Reading, IInv, Consistent, PendingIsHonest, PendingVerdict,
          FlipIsPrompt, Deciders, Verdicts
    <2>7. QED
      BY <2>3, <2>4, <2>5, <2>6 DEF IInv
  <1>2. ASSUME Replace PROVE IInv'
    <2>1. PICK h \in Thresholds : decider' = NewDecider(h)
      BY <1>2 DEF Replace
    <2>2. h \in Nat
      BY ThresholdsAssumption
    <2>3. QED
      BY <1>2, <2>1, <2>2, NewDeciderType
      DEF Replace, IInv, TypeOK, FlipIsPrompt, PendingIsHonest, Consistent,
          PendingVerdict, Deciders
  <1>3. CASE UNCHANGED vars
    BY <1>3 DEF vars, IInv, TypeOK, FlipIsPrompt, PendingIsHonest, Consistent,
                PendingVerdict
  <1>4. QED
    BY <1>1, <1>2, <1>3 DEF Next, FailedReading

\* The state of the decider stays well formed, whatever it reads.
THEOREM DecisionTypeCorrect == Spec => []TypeOK
  <1>1. Spec => []IInv
    BY DecisionInit, DecisionStep, PTL DEF Spec
  <1>2. IInv => TypeOK
    BY DEF IInv
  <1>3. QED
    BY <1>1, <1>2, PTL

\* Once `need' successful readings in a row agree, theirs is the verdict acted
\* on: no history of earlier readings and failed lookups can delay the flip.
THEOREM DecisionFlipIsPrompt == Spec => []FlipIsPrompt
  <1>1. Spec => []IInv
    BY DecisionInit, DecisionStep, PTL DEF Spec
  <1>2. IInv => FlipIsPrompt
    BY DEF IInv
  <1>3. QED
    BY <1>1, <1>2, PTL

\* The progress `status' reports counts exactly the contradicting readings.
THEOREM DecisionPendingIsHonest == Spec => []PendingIsHonest
  <1>1. Spec => []IInv
    BY DecisionInit, DecisionStep, PTL DEF Spec
  <1>2. IInv => PendingIsHonest
    BY DEF IInv
  <1>3. QED
    BY <1>1, <1>2, PTL

\* Both at once: what the readings agreed on decides, and is what is reported.
THEOREM DecisionAgreementDecides == Spec => []AgreementDecides
  <1>1. FlipIsPrompt /\ PendingIsHonest => AgreementDecides
    BY DEF AgreementDecides
  <1>2. QED
    BY <1>1, DecisionFlipIsPrompt, DecisionPendingIsHonest, PTL

\* The committed verdict never changes before the threshold is reached.
THEOREM DecisionFlipIsEarned == Spec => FlipIsEarned
  <1> DEFINE Earned == decider'.current # decider.current
                         => \/ Replace
                            \/ agree' = decider.need /\ last' = decider'.current
  <1>1. IInv /\ [Next]_vars => [Earned]_vars
    <2> SUFFICES ASSUME IInv, Next PROVE [Earned]_vars
      OBVIOUS
    <2>1. ASSUME NEW v \in Verdicts, Reading(v) PROVE Earned
      <3> DEFINE run == IF v = decider.candidate THEN decider.streak + 1 ELSE 1
      <3>1. /\ decider \in Deciders /\ agree \in Nat
            /\ last \in Verdicts \cup {"none"}
        BY DEF IInv, TypeOK
      <3>2. /\ (v = decider.current \/ run >= decider.need)
                 => decider'.current = v /\ decider'.streak = 0
            /\ ~(v = decider.current \/ run >= decider.need)
                 => decider'.current = decider.current
        BY <2>1, <3>1, EvaluateCases DEF Reading, IInv, Consistent
      <3>3. SUFFICES ASSUME decider'.current # decider.current
                     PROVE  agree' = decider.need /\ last' = decider'.current
        OBVIOUS
      <3>4. v # decider.current /\ decider'.current = v /\ run >= decider.need
        BY <3>2, <3>3
      <3>5. last' = decider'.current
        BY <2>1, <3>4 DEF Reading
      <3>6. agree' = decider.need
        BY <2>1, <3>1, <3>4
        DEF Reading, IInv, Consistent, PendingIsHonest, PendingVerdict,
            Deciders, Verdicts
      <3>7. QED
        BY <3>5, <3>6
    <2>2. QED
      BY <2>1 DEF Next, FailedReading, vars
  <1>2. Spec => []IInv
    BY DecisionInit, DecisionStep, PTL DEF Spec
  <1>3. QED
    BY <1>1, <1>2, PTL DEF Spec, FlipIsEarned

-----------------------------------------------------------------------------
(* The exit lookups.                                                       *)

\* The providers that give an answer, and those of them that give a country.
Answers(ps) == {i \in Slots : Lookup(Providers[i], ps[i]) # Failed}
Saying(ps, c) == {i \in Answers(ps) : ps[i].cc = c}

\* The providers asked are finitely many positions in the configured list.
LEMMA SlotsAreFinite == IsFiniteSet(Slots) /\ Slots \subseteq Nat
  <1>1. Providers \in Seq({"plain", "explicit", "flagged", "unknown"})
    BY LookupsAssumption
  <1>2. DOMAIN Providers = 1 .. Len(Providers) /\ Len(Providers) \in Nat
    BY <1>1
  <1>3. IsFiniteSet(1 .. Len(Providers))
    BY <1>2, FS_Interval
  <1>4. QED
    BY <1>2, <1>3, FS_Subset DEF Slots

\* Of some providers one comes first.
LEMMA FirstOf ==
  ASSUME NEW S \in SUBSET Slots, S # {}
  PROVE  \E i \in S : \A j \in S : i <= j
  <1> DEFINE Upto(i) == {j \in S : j <= i}
             Heads == {Upto(i) : i \in S}
  <1>1. IsFiniteSet(S) /\ S \subseteq Nat
    BY SlotsAreFinite, FS_Subset
  <1>2. IsWellFoundedOn(StrictSubsetOrdering(S), SUBSET S)
    BY <1>1, FS_StrictSubsetOrderingWellFounded, FS_FiniteSubsetsOfFinite
  <1>3. Heads \subseteq SUBSET S /\ Heads # {}
    OBVIOUS
  <1>4. \E T \in Heads : \A U \in Heads : <<U, T>> \notin StrictSubsetOrdering(S)
    <2> HIDE DEF Heads
    <2> QED BY <1>2, <1>3, WFMin
  <1>5. PICK i \in S : \A U \in Heads : <<U, Upto(i)>> \notin StrictSubsetOrdering(S)
    BY <1>4
  <1>6. ASSUME NEW j \in S, j < i PROVE FALSE
    <2>1. Upto(j) \in Heads /\ Upto(j) \in SUBSET S /\ Upto(i) \in SUBSET S
      OBVIOUS
    <2>2. Upto(j) \subseteq Upto(i)
      <3> SUFFICES ASSUME NEW k \in S, k <= j PROVE k <= i
        OBVIOUS
      <3>1. i \in Nat /\ j \in Nat /\ k \in Nat
        BY <1>1
      <3>2. QED
        BY <1>6, <3>1
    <2>3. i \in Upto(i) /\ i \notin Upto(j)
      BY <1>1, <1>6
    <2>4. <<Upto(j), Upto(i)>> \in StrictSubsetOrdering(S)
      BY <2>1, <2>2, <2>3 DEF StrictSubsetOrdering
    <2>5. QED
      BY <1>5, <2>1, <2>4
  <1>7. QED
    BY <1>1, <1>6

\* What a provider answers is either no reading, or its address and country.
LEMMA LookupCases ==
  ASSUME NEW ps \in [Slots -> Replies], NEW i \in Slots
  PROVE  LET r == Lookup(Providers[i], ps[i])
         IN  \/ r = Failed
             \/ /\ r \in [ip : Ips, cc : Codes] /\ r # Failed
                /\ r.ip = ps[i].ip /\ r.cc = ps[i].cc /\ ps[i].arrives
                /\ Providers[i] = "explicit" => ps[i].says = "success"
                /\ Providers[i] = "flagged" => ps[i].says # "error"
  <1>1. ps[i] \in [arrives : BOOLEAN, says : {"success", "error", "nothing"},
                   ip : Ips \cup {"malformed"}, cc : Codes \cup {"malformed"}]
    BY LookupsAssumption
  <1>2. QED
    BY <1>1, LookupsAssumption DEF Lookup, Failed

\* The chosen reading is one of those there are, in either mode.
LEMMA OnceIsAReading ==
  ASSUME NEW q \in BOOLEAN, NEW ps \in [Slots -> Replies]
  PROVE  LET r == Once(q, [i \in Slots |-> Lookup(Providers[i], ps[i])])
         IN  r = Failed \/ \E i \in Answers(ps) : r = Lookup(Providers[i], ps[i])
  <1> DEFINE readings == [i \in Slots |-> Lookup(Providers[i], ps[i])]
             good == {i \in Slots : readings[i] # Failed}
             votes(i) == Cardinality({j \in good : readings[j].cc = readings[i].cc})
             elected == {i \in good : votes(i) >= Cardinality(good) \div 2 + 1}
  <1>1. good = Answers(ps) /\ \A i \in Slots : readings[i] = Lookup(Providers[i], ps[i])
    BY DEF Answers
  <1>2. good \in SUBSET Slots /\ elected \in SUBSET good
    OBVIOUS
  <1>3. Majority(readings) =
          IF elected = {} THEN Failed
          ELSE readings[CHOOSE i \in elected : \A j \in elected : i <= j]
    BY DEF Majority
  <1>4. FirstSuccess(readings) =
          IF good = {} THEN Failed ELSE readings[CHOOSE i \in good : \A j \in good : i <= j]
    BY DEF FirstSuccess
  <1> HIDE DEF readings, good, elected
  <1>5. elected # {} => (CHOOSE i \in elected : \A j \in elected : i <= j) \in elected
    BY <1>2, FirstOf
  <1>6. good # {} => (CHOOSE i \in good : \A j \in good : i <= j) \in good
    BY <1>2, FirstOf
  <1>7. \/ Once(q, readings) = Failed
        \/ \E i \in good : Once(q, readings) = readings[i]
    BY <1>2, <1>3, <1>4, <1>5, <1>6 DEF Once
  <1>8. QED
    BY <1>1, <1>2, <1>7 DEF readings

\* With a quorum, the chosen country is the one more than half of the answers give.
LEMMA MajorityElects ==
  ASSUME NEW ps \in [Slots -> Replies]
  PROVE  LET r == Once(TRUE, [i \in Slots |-> Lookup(Providers[i], ps[i])])
             more == {c \in Codes : 2 * Cardinality(Saying(ps, c)) > Cardinality(Answers(ps))}
         IN  more = IF r = Failed THEN {} ELSE {r.cc}
  <1> DEFINE readings == [i \in Slots |-> Lookup(Providers[i], ps[i])]
             good == {i \in Slots : readings[i] # Failed}
             votes(i) == Cardinality({j \in good : readings[j].cc = readings[i].cc})
             elected == {i \in good : votes(i) >= Cardinality(good) \div 2 + 1}
             more == {c \in Codes : 2 * Cardinality(Saying(ps, c)) > Cardinality(Answers(ps))}
             chosen == CHOOSE i \in elected : \A j \in elected : i <= j
  <1>1. good = Answers(ps) /\ \A i \in Slots : readings[i] = Lookup(Providers[i], ps[i])
    BY DEF Answers
  <1>2. \A i \in Answers(ps) : readings[i].cc = ps[i].cc /\ ps[i].cc \in Codes
                               /\ readings[i] # Failed
    BY <1>1, LookupCases
  <1>3. \A i \in Answers(ps) :
          {j \in good : readings[j].cc = readings[i].cc} = Saying(ps, ps[i].cc)
    BY <1>1, <1>2 DEF Saying
  <1>4. /\ IsFiniteSet(Answers(ps)) /\ Cardinality(Answers(ps)) \in Nat
        /\ \A c : /\ Saying(ps, c) \subseteq Answers(ps)
                  /\ IsFiniteSet(Saying(ps, c)) /\ Cardinality(Saying(ps, c)) \in Nat
    <2>1. IsFiniteSet(Answers(ps))
      BY SlotsAreFinite, FS_Subset DEF Answers
    <2>2. \A c : Saying(ps, c) \in SUBSET Answers(ps)
      BY DEF Saying
    <2>3. QED
      BY <2>1, <2>2, FS_Subset, FS_CardinalityType
  <1>5. \A i \in Answers(ps) : i \in elected <=> ps[i].cc \in more
    <2> SUFFICES ASSUME NEW i \in Answers(ps) PROVE i \in elected <=> ps[i].cc \in more
      OBVIOUS
    <2>1. i \in good /\ votes(i) = Cardinality(Saying(ps, ps[i].cc))
      BY <1>1, <1>3
    <2>2. i \in elected <=> Cardinality(Saying(ps, ps[i].cc)) >= Cardinality(good) \div 2 + 1
      BY <2>1
    <2>3. ps[i].cc \in more
            <=> 2 * Cardinality(Saying(ps, ps[i].cc)) > Cardinality(Answers(ps))
      BY <1>2
    <2>4. ASSUME NEW m \in Nat, NEW n \in Nat
          PROVE  m >= n \div 2 + 1 <=> 2 * m > n
      OBVIOUS
    <2> HIDE DEF elected, more, good
    <2>5. QED
      BY <1>1, <1>4, <2>2, <2>3, <2>4
  <1>6. Once(TRUE, readings) = IF elected = {} THEN Failed ELSE readings[chosen]
    BY DEF Once, Majority
  <1>7. elected \in SUBSET Answers(ps) /\ elected \in SUBSET Slots
    BY <1>1
  <1>8. \A c \in more : \E i \in elected : ps[i].cc = c
    <2> SUFFICES ASSUME NEW c \in more PROVE \E i \in elected : ps[i].cc = c
      OBVIOUS
    <2>1. Cardinality(Saying(ps, c)) # 0
      BY <1>4
    <2>2. Saying(ps, c) # {}
      BY <2>1, FS_EmptySet
    <2>3. PICK i \in Answers(ps) : ps[i].cc = c
      BY <2>2 DEF Saying
    <2> HIDE DEF elected, more
    <2>4. QED
      BY <1>5, <2>3
  <1>9. \A c, d \in more : c = d
    <2> SUFFICES ASSUME NEW c \in more, NEW d \in more PROVE c = d
      OBVIOUS
    <2>1. Cardinality(Saying(ps, c)) + Cardinality(Saying(ps, d)) > Cardinality(Answers(ps))
      BY <1>4
    <2>2. Saying(ps, c) \cap Saying(ps, d) # {}
      BY <1>4, <2>1, FS_MajoritiesIntersect
    <2>3. QED
      BY <2>2 DEF Saying
  <1> HIDE DEF readings, good, elected, more
  <1>10. CASE elected = {}
    BY <1>6, <1>8, <1>10 DEF more, readings
  <1>11. CASE elected # {}
    <2>1. chosen \in elected
      BY <1>7, <1>11, FirstOf
    <2> HIDE DEF chosen
    <2>2. ps[chosen].cc \in more
      BY <1>5, <1>7, <2>1
    <2>3. readings[chosen] # Failed /\ readings[chosen].cc = ps[chosen].cc
      BY <1>2, <1>7, <2>1
    <2>4. more = {readings[chosen].cc} /\ Once(TRUE, readings) = readings[chosen]
      BY <1>6, <1>9, <1>11, <2>2, <2>3
    <2>5. QED
      BY <2>3, <2>4 DEF more, readings
  <1>12. QED
    BY <1>10, <1>11

\* The last reading is what the providers' last answers come to, ...
ReadingIsOurs == res = Once(quorum, [i \in Slots |-> Lookup(Providers[i], replies[i])])
\* ... and the address kept is that of the last success.
LastIsKept ==
  /\ exits = <<>> => lastGoodIP = "none"
  /\ exits # <<>> => lastGoodIP = exits[Len(exits)]

LookInv ==
  LookTypeOK /\ ReadingIsOurs /\ LastIsKept /\ ShownAddressIsCurrent /\ FailoverIsNoticed

LEMMA LookInitially == LookInit => LookInv
  <1> SUFFICES ASSUME LookInit PROVE LookInv
    OBVIOUS
  <1>1. replies \in [Slots -> Replies] /\ Answers(replies) = {}
    BY DEF LookInit, Answers, Lookup
  <1>2. ReadingIsOurs
    BY <1>1, OnceIsAReading DEF LookInit, ReadingIsOurs
  <1>3. exits \in Seq(Ips) /\ Len(exits) <= 2 /\ v6wait \in 0 .. V6Interval
    BY LookupsAssumption DEF LookInit
  <1>4. LookTypeOK
    BY <1>1, <1>3 DEF LookInit, LookTypeOK
  <1>5. QED
    BY <1>2, <1>4, EmptySeq
    DEF LookInit, LookInv, LastIsKept, ShownAddressIsCurrent, FailoverIsNoticed

\* Invalidating, and looking up or waiting, keep what is shown current.
LEMMA Ipv6Kept ==
  ASSUME LookTypeOK, ShownAddressIsCurrent,
         \/ InvalidateIPv6 /\ cut' = TRUE
         \/ MaybeLookupIPv6
         \/ UNCHANGED <<ipv6, v6wait, cut>>
  PROVE  /\ ShownAddressIsCurrent'
         /\ ipv6' \in {"public", "none"} /\ v6wait' \in 0 .. V6Interval /\ cut' \in BOOLEAN
  <1>1. v6wait \in 0 .. V6Interval /\ V6Rearm \in Nat /\ V6Interval \in Nat /\ V6Rearm <= V6Interval
    <2>1. v6wait \in 0 .. V6Interval
      BY DEF LookTypeOK
    <2>2. QED
      BY <2>1, LookupsAssumption
  <1>2. CASE InvalidateIPv6 /\ cut' = TRUE
    BY <1>1, <1>2 DEF InvalidateIPv6, ShownAddressIsCurrent
  <1>3. CASE MaybeLookupIPv6
    <2>1. CASE v6wait > 0
      BY <1>1, <1>3, <2>1 DEF MaybeLookupIPv6, ShownAddressIsCurrent, LookTypeOK
    <2>2. CASE ~(v6wait > 0)
      <3>1. ipv6' \in {"public", "none"} /\ v6wait' = V6Interval /\ ~cut'
        BY <1>3, <2>2 DEF MaybeLookupIPv6, OnceIPv6
      <3>2. cut' = FALSE
        BY <1>3, <2>2 DEF MaybeLookupIPv6
      <3>3. QED
        <4>1. v6wait' \in 0 .. V6Interval
          BY <1>1, <3>1
        <4>2. QED
          BY <3>1, <3>2, <4>1 DEF ShownAddressIsCurrent
    <2>3. QED
      BY <2>1, <2>2
  <1>4. CASE UNCHANGED <<ipv6, v6wait, cut>>
    BY <1>4 DEF ShownAddressIsCurrent, LookTypeOK
  <1>5. QED
    BY <1>2, <1>3, <1>4

\* Of what comes the latest are kept.
LEMMA LatestAreKept ==
  ASSUME NEW S, NEW s \in Seq(S), NEW x \in S, NEW most \in Nat \ {0},
         NEW n \in Nat, n = Len(s), n <= most
  PROVE  LET t == Append(IF n < most THEN s ELSE Tail(s), x)
             m == IF n < most THEN n + 1 ELSE most
         IN  /\ t \in Seq(S) /\ m \in Nat /\ m = Len(t) /\ t # <<>> /\ t[m] = x
             /\ \A k \in 1 .. m - 1 : t[m - k] = s[n + 1 - k]
  <1> DEFINE kept == IF n < most THEN s ELSE Tail(s)
             m == IF n < most THEN n + 1 ELSE most
  <1>1. s = <<>> => n = 0
    BY EmptySeq
  <1>2. /\ kept \in Seq(S) /\ Len(kept) = m - 1
        /\ \A k \in 1 .. m - 1 : kept[m - k] = s[n + 1 - k]
    <2>1. CASE n < most
      BY <2>1
    <2>2. CASE n = most
      <3>1. /\ Tail(s) \in Seq(S) /\ Len(Tail(s)) = n - 1
            /\ \A i \in 1 .. n - 1 : Tail(s)[i] = s[i + 1]
        <4>1. s # <<>>
          BY <1>1, <2>2
        <4>2. QED
          BY <4>1, HeadTailProperties
      <3>2. m = n /\ kept = Tail(s)
        BY <2>2
      <3>3. ASSUME NEW k \in 1 .. n - 1 PROVE Tail(s)[n - k] = s[n + 1 - k]
        <4>1. n - k \in 1 .. n - 1 /\ (n - k) + 1 = n + 1 - k
          BY <3>3
        <4>2. QED
          BY <3>1, <4>1
      <3>4. QED
        BY <3>1, <3>2, <3>3
    <2>3. QED
      BY <2>1, <2>2
  <1> HIDE DEF kept
  <1>3. /\ Append(kept, x) \in Seq(S) /\ Len(Append(kept, x)) = Len(kept) + 1
        /\ Append(kept, x)[Len(kept) + 1] = x /\ Append(kept, x) # <<>>
        /\ \A i \in 1 .. Len(kept) : Append(kept, x)[i] = kept[i]
    BY <1>2, AppendProperties
  <1>4. m \in Nat \ {0} /\ m = Len(Append(kept, x)) /\ Append(kept, x)[m] = x
    BY <1>2, <1>3
  <1>5. ASSUME NEW k \in 1 .. m - 1 PROVE Append(kept, x)[m - k] = s[n + 1 - k]
    <2>1. m - k \in 1 .. Len(kept)
      BY <1>2, <1>4
    <2>2. QED
      BY <1>2, <1>3, <2>1
  <1>6. QED
    BY <1>3, <1>4, <1>5 DEF kept

\* Every successful reading is compared with the one before it.
LEMMA ExitIsObserved ==
  ASSUME LookTypeOK, LastIsKept, NEW reading \in [ip : Ips, cc : Codes], NEW blocks,
         ObserveExitIP(reading, blocks), Witness(reading.ip)
  PROVE  /\ LastIsKept' /\ FailoverIsNoticed'
         /\ lastGoodIP' \in Ips /\ changes' \in BOOLEAN
         /\ exits' \in Seq(Ips) /\ Len(exits') <= 2
  <1>1. PICK ip \in Ips : ip = reading.ip /\ ip # "none"
    BY LookupsAssumption
  <1>2. PICK n \in Nat : n = Len(exits) /\ n <= 2
    BY LenProperties DEF LookTypeOK
  <1>3. /\ exits' = Append(IF n < 2 THEN exits ELSE Tail(exits), ip) /\ lastGoodIP' = ip
        /\ changes' = (lastGoodIP # "none" /\ ip # lastGoodIP)
    BY <1>1, <1>2 DEF Witness, ObserveExitIP
  <1>4. exits \in Seq(Ips)
    BY DEF LookTypeOK
  <1>5. PICK m \in Nat :
          /\ exits' \in Seq(Ips) /\ m = Len(exits') /\ m <= 2 /\ exits' # <<>>
          /\ exits'[m] = ip
          /\ n = 0 => m = 1
          /\ n # 0 => m = 2 /\ exits'[1] = exits[n]
    <2> DEFINE m == IF n < 2 THEN n + 1 ELSE 2
    <2>1. /\ exits' \in Seq(Ips) /\ m \in Nat /\ m = Len(exits') /\ exits' # <<>> /\ exits'[m] = ip
          /\ \A k \in 1 .. m - 1 : exits'[m - k] = exits[n + 1 - k]
      BY <1>1, <1>2, <1>3, <1>4, LatestAreKept
    <2>2. ASSUME n # 0 PROVE m = 2 /\ exits'[1] = exits[n]
      <3>1. m = 2 /\ 1 \in 1 .. m - 1 /\ m - 1 = 1 /\ n + 1 - 1 = n
        BY <1>2, <2>2
      <3> HIDE DEF m
      <3>2. exits'[m - 1] = exits[n + 1 - 1]
        BY <2>1, <3>1
      <3>3. QED
        BY <3>1, <3>2
    <2>3. (n = 0 => m = 1) /\ m <= 2
      BY <1>2
    <2> HIDE DEF m
    <2>4. QED
      BY <2>1, <2>2, <2>3
  <1>6. n = 0 <=> exits = <<>>
    BY <1>2, <1>4, EmptySeq
  <1>7. /\ n = 0 => lastGoodIP = "none"
        /\ n # 0 => lastGoodIP = exits[n] /\ lastGoodIP # "none"
    <2>1. n # 0 => exits[n] \in Ips
      BY <1>2, <1>4, ElementOfSeq
    <2>2. QED
      BY <1>2, <1>6, <2>1, LookupsAssumption DEF LastIsKept
  <1>8. changes' <=> m = 2 /\ exits'[1] # exits'[2]
    BY <1>3, <1>5, <1>7
  <1>9. FailoverIsNoticed'
    BY <1>5, <1>8, Zenon DEF FailoverIsNoticed
  <1>10. LastIsKept'
    BY <1>3, <1>5 DEF LastIsKept
  <1>11. QED
    BY <1>1, <1>3, <1>5, <1>9, <1>10

\* A look at the exit, whatever the providers answer, and the loss of the tunnel keep the
\* invariant.
LEMMA LookStep == LookInv /\ [LookNext]_lookVars => LookInv'
  <1> SUFFICES ASSUME LookInv, [LookNext]_lookVars PROVE LookInv'
    OBVIOUS
  <1>1. ASSUME NEW ps \in [Slots -> Replies], NEW blocks \in BOOLEAN, ReadExit(ps, blocks)
        PROVE  LookInv'
    <2> DEFINE reading == Once(quorum, [i \in Slots |-> Lookup(Providers[i], ps[i])])
    <2>1. /\ replies' = ps /\ quorum' = quorum /\ res' = reading
          /\ ReadingIsOurs'
      BY <1>1 DEF ReadExit, ReadingIsOurs
    <2>2. reading \in [ip : Ips, cc : Codes] \cup {Failed}
      <3>1. \/ reading = Failed
            \/ \E i \in Answers(ps) : reading = Lookup(Providers[i], ps[i])
        BY OnceIsAReading DEF LookInv, LookTypeOK
      <3>2. QED
        BY <3>1, LookupCases DEF Answers
    <2>3. ShownAddressIsCurrent' /\ ipv6' \in {"public", "none"}
          /\ v6wait' \in 0 .. V6Interval /\ cut' \in BOOLEAN
      BY <1>1, Ipv6Kept DEF ReadExit, LookInv
    <2>4. CASE reading = Failed
      <3>1. UNCHANGED <<lastGoodIP, changes, exits>>
        BY <1>1, <2>4 DEF ReadExit
      <3>2. QED
        BY <2>1, <2>2, <2>3, <3>1
        DEF LookInv, LookTypeOK, LastIsKept, FailoverIsNoticed
    <2>5. CASE reading # Failed
      <3>1. ObserveExitIP(reading, blocks) /\ Witness(reading.ip)
        BY <1>1, <2>5 DEF ReadExit
      <3> HIDE DEF reading
      <3>2. LastIsKept' /\ FailoverIsNoticed' /\ lastGoodIP' \in Ips /\ changes' \in BOOLEAN
            /\ exits' \in Seq(Ips) /\ Len(exits') <= 2
        BY <2>2, <2>5, <3>1, ExitIsObserved DEF LookInv
      <3>3. QED
        BY <2>1, <2>2, <2>3, <3>2 DEF LookInv, LookTypeOK
    <2>6. QED
      BY <2>4, <2>5
  <1>2. CASE TunnelLost
    <2>1. ShownAddressIsCurrent' /\ ipv6' \in {"public", "none"}
          /\ v6wait' \in 0 .. V6Interval /\ cut' \in BOOLEAN
      BY <1>2, Ipv6Kept DEF TunnelLost, LookInv
    <2>2. QED
      BY <1>2, <2>1
      DEF TunnelLost, LookInv, LookTypeOK, ReadingIsOurs, LastIsKept, FailoverIsNoticed
  <1>3. CASE UNCHANGED lookVars
    BY <1>3 DEF lookVars, LookInv, LookTypeOK, ReadingIsOurs, LastIsKept, FailoverIsNoticed,
                ShownAddressIsCurrent
  <1>4. QED
    BY <1>1, <1>2, <1>3 DEF LookNext

\* For any list of providers and any answers: the country acted on is a majority's, no
\* refusal is taken for a reading, the address shown is current and a failover noticed.
THEOREM LookupsKeepPromise == LookSpec => []LookupsPromise
  <1>1. LookInv => LookupsPromise
    <2> SUFFICES ASSUME LookInv PROVE QuorumIsAMajority /\ RefusalsAreNoReadings
      BY DEF LookInv, LookupsPromise
    <2>1. quorum \in BOOLEAN /\ replies \in [Slots -> Replies]
      BY DEF LookInv, LookTypeOK
    <2>2. ASSUME quorum PROVE QuorumIsAMajority
      <3>1. quorum = TRUE
        BY <2>1, <2>2
      <3>2. res = Once(TRUE, [i \in Slots |-> Lookup(Providers[i], replies[i])])
        BY <3>1 DEF LookInv, ReadingIsOurs
      <3>3. QED
        BY <2>1, <3>2, MajorityElects DEF QuorumIsAMajority, Saying, Answers
    <2>3. RefusalsAreNoReadings
      <3> SUFFICES ASSUME res # Failed
                   PROVE  \E i \in Slots :
                            /\ replies[i].ip = res.ip /\ replies[i].cc = res.cc
                            /\ replies[i].arrives
                            /\ Providers[i] = "explicit" => replies[i].says = "success"
                            /\ Providers[i] = "flagged" => replies[i].says # "error"
        BY DEF RefusalsAreNoReadings
      <3>1. PICK i \in Answers(replies) : res = Lookup(Providers[i], replies[i])
        BY <2>1, OnceIsAReading DEF LookInv, ReadingIsOurs
      <3>2. i \in Slots
        BY DEF Answers
      <3>3. QED
        BY <2>1, <3>1, <3>2, LookupCases
    <2>4. QED
      BY <2>2, <2>3 DEF QuorumIsAMajority
  <1>2. QED
    BY <1>1, LookInitially, LookStep, PTL DEF LookSpec

-----------------------------------------------------------------------------
(* The learned store.                                                      *)

\* What a function maps a finite set onto is finite, and no larger.
LEMMA ImageIsFinite ==
  ASSUME NEW S, IsFiniteSet(S), NEW T, NEW f \in [S -> T], \A t \in T : \E s \in S : f[s] = t
  PROVE  IsFiniteSet(T) /\ Cardinality(T) <= Cardinality(S)
  <1>1. f \in Surjection(S, T)
    BY DEF Surjection
  <1>2. QED
    BY <1>1, FS_Surjection

LEMMA RecordsAreFinite == IsFiniteSet(Records)
  <1> DEFINE Triples == (Names \X Servers) \X (0 .. TTL + 1)
             f == [t \in Triples |-> [name |-> t[1][1], addr |-> t[1][2], age |-> t[2]]]
  <1>1. IsFiniteSet(Triples)
    <2>1. IsFiniteSet(0 .. TTL + 1)
      BY StoreAssumption, FS_Interval
    <2>2. IsFiniteSet(Names \X Servers)
      BY StoreAssumption, FS_Product
    <2>3. QED
      BY <2>1, <2>2, FS_Product
  <1>2. f \in [Triples -> Records]
    BY DEF Records
  <1>3. ASSUME NEW r \in Records PROVE \E t \in Triples : f[t] = r
    <2>1. <<<<r.name, r.addr>>, r.age>> \in Triples
      BY DEF Records
    <2>2. f[<<<<r.name, r.addr>>, r.age>>] = r
      BY <2>1 DEF Records
    <2>3. QED
      BY <2>1, <2>2
  <1> HIDE DEF Triples, f
  <1>4. QED
    BY <1>1, <1>2, <1>3, ImageIsFinite

\* A set of records as the file may hold it.
WellKept(recs) ==
  /\ recs \subseteq Records
  /\ \A n \in Names : /\ Cardinality(Of(recs, n)) <= MaxPerEntry
                      /\ \A r, q \in Of(recs, n) : r.addr = q.addr => r = q

LEMMA OfIsFinite ==
  ASSUME NEW recs \in SUBSET Records, NEW n
  PROVE  IsFiniteSet(Of(recs, n)) /\ Cardinality(Of(recs, n)) \in Nat
         /\ Of(recs, n) \subseteq Records
  <1>1. Of(recs, n) \in SUBSET Records
    BY DEF Of
  <1>2. QED
    BY <1>1, RecordsAreFinite, FS_Subset, FS_CardinalityType

LEMMA NothingIsWellKept == WellKept({})
  <1>1. \A n : Of({}, n) = {}
    BY DEF Of
  <1>2. QED
    BY <1>1, FS_EmptySet, StoreAssumption DEF WellKept

\* Leaving records out keeps a store well kept.
LEMMA FewerAreWellKept ==
  ASSUME NEW recs, WellKept(recs), NEW left \in SUBSET recs
  PROVE  WellKept(left)
  <1>1. recs \subseteq Records /\ left \subseteq Records
    BY DEF WellKept
  <1>2. ASSUME NEW n \in Names
        PROVE  /\ Cardinality(Of(left, n)) <= MaxPerEntry
               /\ \A r, q \in Of(left, n) : r.addr = q.addr => r = q
    <2>1. Of(left, n) \in SUBSET Of(recs, n)
      BY DEF Of
    <2>2. Cardinality(Of(left, n)) <= Cardinality(Of(recs, n))
      BY <1>1, <2>1, OfIsFinite, FS_Subset
    <2>3. Cardinality(Of(left, n)) \in Nat /\ Cardinality(Of(recs, n)) \in Nat
      BY <1>1, OfIsFinite
    <2>4. Cardinality(Of(recs, n)) <= MaxPerEntry
      BY DEF WellKept
    <2>5. Cardinality(Of(left, n)) <= MaxPerEntry
      BY <2>2, <2>3, <2>4, StoreAssumption
    <2>6. QED
      BY <2>1, <2>5 DEF WellKept
  <1>3. QED
    BY <1>1, <1>2 DEF WellKept

\* Time makes records older, not more.
LEMMA OlderIsWellKept ==
  ASSUME NEW recs, WellKept(recs)
  PROVE  /\ WellKept(Older(recs))
         /\ (\A r \in recs : r.age > 0) => \A r \in Older(recs) : r.age > 0
  <1> DEFINE old(r) == [r EXCEPT !.age = IF @ > TTL THEN @ ELSE @ + 1]
  <1>1. recs \subseteq Records
    BY DEF WellKept
  <1>2. \A r \in Records : /\ old(r) \in Records /\ old(r).name = r.name /\ old(r).addr = r.addr
                           /\ r.age > 0 => old(r).age > 0
    BY StoreAssumption DEF Records
  <1>3. Older(recs) = {old(r) : r \in recs}
    BY DEF Older
  <1> HIDE DEF old
  <1>4. ASSUME NEW n \in Names
        PROVE  /\ Cardinality(Of(Older(recs), n)) <= MaxPerEntry
               /\ \A r, q \in Of(Older(recs), n) : r.addr = q.addr => r = q
    <2> DEFINE f == [r \in Of(recs, n) |-> old(r)]
    <2>1. f \in [Of(recs, n) -> Of(Older(recs), n)]
      BY <1>1, <1>2, <1>3 DEF Of
    <2>2. \A t \in Of(Older(recs), n) : \E r \in Of(recs, n) : f[r] = t
      BY <1>1, <1>2, <1>3 DEF Of
    <2> HIDE DEF f
    <2>3. Cardinality(Of(Older(recs), n)) <= Cardinality(Of(recs, n))
          /\ IsFiniteSet(Of(Older(recs), n))
      BY <1>1, <2>1, <2>2, OfIsFinite, ImageIsFinite
    <2>4. Cardinality(Of(recs, n)) \in Nat /\ Cardinality(Of(recs, n)) <= MaxPerEntry
      BY <1>1, OfIsFinite DEF WellKept
    <2>5. Cardinality(Of(Older(recs), n)) <= MaxPerEntry
      BY <2>3, <2>4, FS_CardinalityType, StoreAssumption
    <2>6. \A r, q \in Of(Older(recs), n) : r.addr = q.addr => r = q
      <3> SUFFICES ASSUME NEW r \in Of(Older(recs), n), NEW q \in Of(Older(recs), n),
                          r.addr = q.addr
                   PROVE  r = q
        OBVIOUS
      <3>1. PICK s \in recs, t \in recs : r = old(s) /\ q = old(t)
        BY <1>3 DEF Of
      <3>2. s.addr = t.addr /\ s \in Of(recs, n) /\ t \in Of(recs, n)
        BY <1>1, <1>2, <3>1 DEF Of
      <3>3. QED
        BY <3>1, <3>2 DEF WellKept
    <2>7. QED
      BY <2>5, <2>6
  <1>5. QED
    BY <1>1, <1>2, <1>3, <1>4 DEF WellKept

\* What the hook writes for its profile: no more than the cap, an address once, and the
\* new addresses when they fit.
LEMMA CapKeepsNew ==
  ASSUME NEW copy, WellKept(copy), \A r \in copy : r.age > 0,
         NEW name \in Names, NEW addrs \in SUBSET Servers,
         NEW kept \in Capped(Of(Recorded(copy, name, addrs), name))
  PROVE  /\ kept \subseteq Records /\ \A r \in kept : r.name = name
         /\ Cardinality(kept) <= MaxPerEntry
         /\ \A r, q \in kept : r.addr = q.addr => r = q
         /\ Cardinality(addrs) <= MaxPerEntry =>
              \A a \in addrs : [name |-> name, addr |-> a, age |-> 0] \in kept
  <1> DEFINE all == Of(Recorded(copy, name, addrs), name)
             added(a) == [name |-> name, addr |-> a, age |-> 0]
             new == {added(a) : a \in addrs}
  <1>1. copy \subseteq Records
    BY DEF WellKept
  <1>2. new \subseteq Records
    BY StoreAssumption DEF Records
  <1>3. /\ all \subseteq Records /\ new \subseteq all
        /\ \A r \in all : r.name = name /\ (r \in new \/ (r \in copy /\ r.addr \notin addrs))
    BY <1>1, <1>2 DEF Of, Recorded
  <1>4. \A r \in new : r.addr \in addrs /\ r.name = name /\ r = added(r.addr) /\ r.age = 0
    OBVIOUS
  <1> HIDE DEF all, new, added
  <1>5. \A r, q \in all : r.addr = q.addr => r = q
    <2> SUFFICES ASSUME NEW r \in all, NEW q \in all, r.addr = q.addr PROVE r = q
      OBVIOUS
    <2>1. CASE r \in new
      BY <1>3, <1>4, <2>1
    <2>2. CASE r \notin new
      <3>1. q \notin new
        BY <1>3, <1>4, <2>2
      <3>2. r \in Of(copy, name) /\ q \in Of(copy, name)
        BY <1>3, <2>2, <3>1 DEF Of
      <3>3. QED
        BY <3>2 DEF WellKept
    <2>3. QED
      BY <2>1, <2>2
  <1>6. /\ kept \subseteq all
        /\ Cardinality(kept) = IF Cardinality(all) <= MaxPerEntry THEN Cardinality(all)
                               ELSE MaxPerEntry
        /\ \A r \in kept, q \in all \ kept : r.age <= q.age
    BY DEF Capped, all
  <1>7. /\ IsFiniteSet(all) /\ IsFiniteSet(kept) /\ IsFiniteSet(new) /\ IsFiniteSet(addrs)
        /\ Cardinality(all) \in Nat /\ Cardinality(new) \in Nat /\ Cardinality(addrs) \in Nat
    <2>1. IsFiniteSet(all)
      BY <1>3, RecordsAreFinite, FS_Subset
    <2>2. IsFiniteSet(kept) /\ IsFiniteSet(new)
      BY <1>3, <1>6, <2>1, FS_Subset
    <2>3. IsFiniteSet(addrs)
      BY StoreAssumption, FS_Subset
    <2>4. QED
      BY <2>1, <2>2, <2>3, FS_CardinalityType
  <1>8. Cardinality(kept) <= MaxPerEntry
    BY <1>6, <1>7, StoreAssumption
  <1>9. ASSUME Cardinality(addrs) <= MaxPerEntry PROVE new \subseteq kept
    <2>1. Cardinality(new) <= MaxPerEntry
      <3> DEFINE f == [a \in addrs |-> added(a)]
      <3>1. f \in [addrs -> new] /\ \A t \in new : \E a \in addrs : f[a] = t
        BY DEF new
      <3> HIDE DEF f
      <3>2. Cardinality(new) <= Cardinality(addrs)
        BY <1>7, <3>1, ImageIsFinite
      <3>3. QED
        BY <1>7, <1>9, <3>2, StoreAssumption
    <2>2. SUFFICES ASSUME NEW x \in new, x \notin kept PROVE FALSE
      OBVIOUS
    <2>3. x \in all \ kept
      BY <1>3, <2>2
    <2>4. Cardinality(kept) = MaxPerEntry
      <3>1. Cardinality(kept) # Cardinality(all)
        BY <1>6, <1>7, <2>3, FS_Subset
      <3>2. QED
        BY <1>6, <3>1
    <2>5. PICK y \in kept : y \notin new
      <3> SUFFICES ASSUME kept \subseteq new PROVE FALSE
        OBVIOUS
      <3>1. kept \in SUBSET (new \ {x})
        BY <2>2
      <3>2. /\ IsFiniteSet(new \ {x}) /\ Cardinality(new \ {x}) = Cardinality(new) - 1
        BY <1>7, <2>2, FS_RemoveElement
      <3>3. Cardinality(kept) <= Cardinality(new \ {x})
        BY <3>1, <3>2, FS_Subset
      <3>4. QED
        BY <1>7, <2>1, <2>4, <3>2, <3>3, StoreAssumption
    <2>6. y.age <= x.age /\ x.age = 0
      BY <1>4, <1>6, <2>3, <2>5
    <2>7. y.age > 0 /\ y.age \in Nat
      <3>1. y \in copy
        BY <1>3, <1>6, <2>5
      <3>2. QED
        BY <1>1, <3>1 DEF Records
    <2>8. QED
      BY <2>6, <2>7
  <1>10. Cardinality(addrs) <= MaxPerEntry => \A a \in addrs : added(a) \in kept
    BY <1>9 DEF new
  <1>11. QED
    BY <1>3, <1>5, <1>6, <1>8, <1>10 DEF added

\* The file is well kept, and so is what each writer has in hand of it; what the hook has
\* loaded is older than what it is about to record.
StoreInv ==
  /\ StoreTypeOK
  /\ WellKept(hook.copy) /\ WellKept(forget.copy)
  /\ \A r \in hook.copy : r.age > 0

\* What the hook's save leaves.
LEMMA HookSaves ==
  ASSUME StoreInv, HookSave
  PROVE  /\ WellKept(file') /\ \A r \in file' : r.age <= TTL
         /\ \/ Cardinality(hook.addrs) > MaxPerEntry
            \/ \A a \in hook.addrs : [name |-> hook.name, addr |-> a, age |-> 0] \in file'
  <1>1. hook \in InHand
    BY DEF StoreInv, StoreTypeOK, HookSave
  <1>2. hook.name \in Names /\ hook.addrs \in SUBSET Servers
    BY <1>1 DEF InHand
  <1> DEFINE others == {r \in hook.copy : r.name # hook.name}
  <1>3. PICK kept \in Capped(Of(Recorded(hook.copy, hook.name, hook.addrs), hook.name)) :
          file' = Fresh(others \cup kept)
    BY DEF HookSave
  <1>4. /\ kept \subseteq Records /\ \A r \in kept : r.name = hook.name
        /\ Cardinality(kept) <= MaxPerEntry
        /\ \A r, q \in kept : r.addr = q.addr => r = q
        /\ Cardinality(hook.addrs) <= MaxPerEntry =>
             \A a \in hook.addrs : [name |-> hook.name, addr |-> a, age |-> 0] \in kept
    BY <1>2, CapKeepsNew DEF StoreInv
  <1>5. hook.copy \subseteq Records
    BY DEF StoreInv, WellKept
  <1>6. WellKept(others \cup kept)
    <2>1. ASSUME NEW n \in Names
          PROVE  /\ Cardinality(Of(others \cup kept, n)) <= MaxPerEntry
                 /\ \A r, q \in Of(others \cup kept, n) : r.addr = q.addr => r = q
      <3>1. CASE n = hook.name
        <4>1. Of(others \cup kept, n) = kept
          BY <1>4, <3>1 DEF Of
        <4>2. QED
          BY <1>4, <4>1
      <3>2. CASE n # hook.name
        <4>1. Of(others \cup kept, n) = Of(hook.copy, n)
          BY <1>4, <3>2 DEF Of
        <4>2. QED
          BY <4>1 DEF StoreInv, WellKept
      <3>3. QED
        BY <3>1, <3>2
    <2>2. QED
      BY <1>4, <1>5, <2>1 DEF WellKept
  <1>7. WellKept(file')
    <2>1. Fresh(others \cup kept) \in SUBSET (others \cup kept)
      BY DEF Fresh
    <2> HIDE DEF others
    <2>2. QED
      BY <1>3, <1>6, <2>1, FewerAreWellKept
  <1>8. \/ Cardinality(hook.addrs) > MaxPerEntry
        \/ \A a \in hook.addrs : [name |-> hook.name, addr |-> a, age |-> 0] \in file'
    <2>1. Cardinality(hook.addrs) \in Nat
      BY <1>2, StoreAssumption, FS_Subset, FS_CardinalityType
    <2>2. CASE Cardinality(hook.addrs) <= MaxPerEntry
      BY <1>3, <1>4, <2>2, StoreAssumption DEF Fresh
    <2>3. QED
      BY <2>1, <2>2, StoreAssumption
  <1>9. QED
    BY <1>3, <1>7, <1>8 DEF Fresh

\* Each step of the two writers, and time, keep the invariant.
LEMMA StoreStep == StoreInv /\ [StoreNext]_storeVars => StoreInv'
  <1> SUFFICES ASSUME StoreInv, [StoreNext]_storeVars PROVE StoreInv'
    OBVIOUS
  <1>1. WellKept(file)
    BY DEF StoreInv, StoreTypeOK, WellKept
  <1>2. /\ hook \in InHand \cup {Idle}
        /\ forget \in [copy : SUBSET Records, name : Names, addrs : {{}}] \cup {Idle}
        /\ WellKept(hook.copy) /\ WellKept(forget.copy) /\ \A r \in hook.copy : r.age > 0
    BY DEF StoreInv, StoreTypeOK
  <1>3. WellKept(Idle.copy) /\ Idle.copy = {}
    BY NothingIsWellKept DEF Idle
  <1>4. ASSUME WellKept(file'), WellKept(hook'.copy), WellKept(forget'.copy),
               hook' \in InHand \cup {Idle},
               forget' \in [copy : SUBSET Records, name : Names, addrs : {{}}] \cup {Idle},
               \A r \in hook'.copy : r.age > 0
        PROVE  StoreInv'
    BY <1>4 DEF StoreInv, StoreTypeOK, WellKept
  <1>5. ASSUME NEW n \in Names, NEW addrs \in (SUBSET Servers) \ {{}}, HookLoad(n, addrs)
        PROVE  StoreInv'
    <2>1. PICK copy \in {file, {}} : hook' = [copy |-> copy, name |-> n, addrs |-> addrs]
      BY <1>5 DEF HookLoad
    <2>2. WellKept(copy) /\ copy \in SUBSET Records /\ \A r \in copy : r.age > 0
      BY <1>1, <1>5, NothingIsWellKept DEF HookLoad, WellKept
    <2>3. QED
      BY <1>1, <1>2, <1>4, <1>5, <2>1, <2>2 DEF HookLoad, InHand
  <1>6. CASE HookSave
    BY <1>2, <1>3, <1>4, <1>6, HookSaves DEF HookSave
  <1>7. CASE HookFails
    BY <1>1, <1>2, <1>3, <1>4, <1>7 DEF HookFails
  <1>8. ASSUME NEW n \in Names, ForgetLoad(n) PROVE StoreInv'
    BY <1>1, <1>2, <1>4, <1>8 DEF ForgetLoad, WellKept
  <1>9. CASE ForgetSave
    <2>1. WellKept(file')
      <3>1. file' \in SUBSET forget.copy
        BY <1>9 DEF ForgetSave
      <3>2. QED
        BY <1>2, <3>1, FewerAreWellKept
    <2>2. QED
      BY <1>2, <1>3, <1>4, <1>9, <2>1 DEF ForgetSave
  <1>10. CASE StoreTime
    <2>1. WellKept(file')
      BY <1>1, <1>10, OlderIsWellKept DEF StoreTime
    <2>2. /\ hook'.copy = Older(hook.copy) /\ forget'.copy = Older(forget.copy)
          /\ hook' = [hook EXCEPT !.copy = Older(hook.copy)]
          /\ forget' = [forget EXCEPT !.copy = Older(forget.copy)]
      BY <1>2, <1>10 DEF StoreTime, InHand, Idle
    <2>3. WellKept(hook'.copy) /\ WellKept(forget'.copy) /\ \A r \in hook'.copy : r.age > 0
      BY <1>2, <2>2, OlderIsWellKept
    <2>4. Older({}) = {}
      BY DEF Older
    <2>5. hook' \in InHand \cup {Idle}
      <3>1. CASE hook \in InHand
        BY <2>2, <2>3, <3>1 DEF InHand, WellKept
      <3>2. CASE hook = Idle
        BY <2>2, <2>4, <3>2 DEF Idle
      <3>3. QED
        BY <1>2, <3>1, <3>2
    <2>6. forget' \in [copy : SUBSET Records, name : Names, addrs : {{}}] \cup {Idle}
      <3>1. CASE forget \in [copy : SUBSET Records, name : Names, addrs : {{}}]
        BY <2>2, <2>3, <3>1 DEF WellKept
      <3>2. CASE forget = Idle
        BY <2>2, <2>4, <3>2 DEF Idle
      <3>3. QED
        BY <1>2, <3>1, <3>2
    <2>7. QED
      BY <1>4, <2>1, <2>3, <2>5, <2>6
  <1>11. CASE UNCHANGED storeVars
    BY <1>1, <1>2, <1>4, <1>11 DEF storeVars
  <1>12. QED
    BY <1>5, <1>6, <1>7, <1>8, <1>9, <1>10, <1>11 DEF StoreNext

\* Only the hook's save ends what the hook has in hand and changes the file.
LEMMA OnlyItsSave ==
  ASSUME StoreInv, [StoreNext]_storeVars, hook # Idle, hook' = Idle, file' # file
  PROVE  HookSave
  <1>1. hook \in InHand
    BY DEF StoreInv, StoreTypeOK
  <1>2. ~StoreTime
    <2> SUFFICES ASSUME StoreTime PROVE FALSE
      OBVIOUS
    <2>1. hook.addrs # {}
      BY <1>1 DEF InHand
    <2>2. hook'.addrs = hook.addrs
      BY <1>1 DEF StoreTime, InHand
    <2>3. QED
      BY <2>1, <2>2 DEF Idle
  <1>3. QED
    BY <1>2 DEF StoreNext, storeVars, HookLoad, HookFails, ForgetLoad, ForgetSave

\* For all profiles, servers, caps and times to live, and however the two writers overlap:
\* the file is well formed and within its cap, what the hook has just learned is on it,
\* and nothing it leaves is past its time.
THEOREM StoreKeepsPromise == StoreSpec => StorePromise
  <1>1. StoreInit => StoreInv
    <2> SUFFICES ASSUME StoreInit PROVE StoreInv
      OBVIOUS
    <2>1. WellKept({})
      BY NothingIsWellKept
    <2>2. QED
      BY <2>1 DEF StoreInit, StoreInv, StoreTypeOK, Idle, WellKept
  <1>2. StoreInv => StoreTypeOK
    BY DEF StoreInv
  <1>3. StoreInv /\ [StoreNext]_storeVars =>
          [hook # Idle /\ hook' = Idle /\ file' # file =>
             \/ Cardinality(hook.addrs) > MaxPerEntry
             \/ \A a \in hook.addrs :
                  [name |-> hook.name, addr |-> a, age |-> 0] \in file']_storeVars
    BY OnlyItsSave, HookSaves
  <1>4. StoreInv /\ [StoreNext]_storeVars =>
          [hook # Idle /\ hook' = Idle /\ file' # file => \A r \in file' : r.age <= TTL]_storeVars
    BY OnlyItsSave, HookSaves
  <1>5. QED
    BY <1>1, <1>2, <1>3, <1>4, StoreStep, PTL
    DEF StoreSpec, StorePromise, JustLearnedIsKept, NothingOutlivesItsTime

-----------------------------------------------------------------------------
(* The endpoints the guard passes.                                         *)

\* What a refresh finds is known to be a server, and vouched for once remembered.
LEMMA ResolveIsVouchedFor ==
  ASSUME NEW obs \in Observations, NEW tunnelUp \in BOOLEAN,
         store \subseteq vouched, Literals \subseteq vouched, vouched \subseteq Addrs
  PROVE  LET set == Resolve(obs, tunnelUp)
             then == vouched \cup obs.dns \cup Transports(obs.sockets)
         IN  /\ DOMAIN set \subseteq then /\ then \subseteq Addrs
             /\ DiscoveredAddrs(set) \subseteq DOMAIN set
             /\ Transports(obs.sockets) \subseteq Addrs
  <1> DEFINE learned == IF obs.readable THEN store ELSE {}
             all == Literals \cup obs.dns \cup learned \cup Discover(obs.sockets)
  <1>1. obs.dns \subseteq Addrs /\ obs.sockets \subseteq Sockets
    BY EndpointsAssumption DEF Observations
  <1>2. Transports(obs.sockets) \subseteq Addrs
    BY <1>1, EndpointsAssumption DEF Transports, Physical
  <1>3. DOMAIN Resolve(obs, tunnelUp) = all \ Inside(tunnelUp)
    BY DEF Resolve
  <1>4. DiscoveredAddrs(Resolve(obs, tunnelUp)) \subseteq DOMAIN Resolve(obs, tunnelUp)
    BY DEF DiscoveredAddrs
  <1>5. all \subseteq vouched \cup obs.dns \cup Transports(obs.sockets)
    BY DEF Discover
  <1>6. QED
    BY <1>1, <1>2, <1>3, <1>4, <1>5

\* Every endpoint in force carries its age since a refresh last saw it; the hostname's,
\* the configuration's and the transports' addresses are vouched for; and a record of a
\* tunnel is kept only where there was one.
AgesAreTrue == \A a \in endpoints : age[a] = unseen[a]
RecordIsEarned == everUp => hostHadVpn

EpInv ==
  /\ EpTypeOK /\ HolesAreVouchedFor /\ AgesAreTrue /\ RecordIsEarned
  /\ Literals \subseteq vouched

\* What folding a refresh in does to the set, its ages and the evidence.
LEMMA RefreshFolds ==
  ASSUME EpInv, NEW obs \in Observations, NEW tunnelUp \in BOOLEAN, NEW growOnly \in BOOLEAN,
         Refreshed(Resolve(obs, tunnelUp), growOnly), Remember(obs, Resolve(obs, tunnelUp), tunnelUp)
  PROVE  /\ endpoints' \subseteq Addrs /\ evidence' \subseteq DOMAIN age'
         /\ endpoints' \subseteq DOMAIN age' /\ DOMAIN age' \subseteq Addrs
         /\ age' \in [DOMAIN age' -> Ages] /\ unseen' \in [Addrs -> Ages]
         /\ vouched' \subseteq Addrs /\ carrying' \subseteq Addrs
         /\ Literals \subseteq vouched' /\ vouched \subseteq vouched'
         /\ endpoints' \cup evidence' \subseteq vouched'
         /\ AgesAreTrue'
         /\ \A a \in endpoints \ endpoints' :
              ~growOnly /\ endpoints' \ endpoints # {} /\ unseen[a] > Grace
  <1> DEFINE set == Resolve(obs, tunnelUp)
             stamped == Stamp(DOMAIN set)
             augmented == WithRetained(DOMAIN set, stamped, growOnly)
  <1>1. /\ endpoints \subseteq DOMAIN age /\ DOMAIN age \subseteq Addrs
        /\ age \in [DOMAIN age -> Ages] /\ unseen \in [Addrs -> Ages]
        /\ vouched \subseteq Addrs /\ store \subseteq vouched /\ endpoints \subseteq vouched
        /\ Literals \subseteq vouched
    BY DEF EpInv, EpTypeOK, HolesAreVouchedFor
  <1>2. /\ vouched' = vouched \cup obs.dns \cup Transports(obs.sockets)
        /\ DOMAIN set \subseteq vouched' /\ vouched' \subseteq Addrs
        /\ DiscoveredAddrs(set) \subseteq DOMAIN set
        /\ carrying' \subseteq Addrs
    BY <1>1, ResolveIsVouchedFor DEF Remember
  <1>3. Grace \in Nat /\ 0 \in Ages /\ Grace + 1 \in Ages
    BY EndpointsAssumption DEF Ages
  <1> HIDE DEF set
  <1>4. /\ DOMAIN stamped = DOMAIN age \cup DOMAIN set
        /\ \A a \in DOMAIN set : stamped[a] = 0
        /\ \A a \in DOMAIN age \ DOMAIN set : stamped[a] = age[a]
    BY DEF Stamp
  <1>5. /\ DOMAIN set \subseteq augmented /\ augmented \subseteq DOMAIN set \cup endpoints
        /\ growOnly => augmented = DOMAIN set
        /\ \A a \in endpoints \ augmented : ~growOnly => ~(stamped[a] <= Grace)
    BY <1>1, <1>4 DEF WithRetained
  <1>6. /\ endpoints' = Reconcile(endpoints, augmented, growOnly)
        /\ age' = [a \in DOMAIN stamped \cap (endpoints \cup augmented) |-> stamped[a]]
        /\ evidence' = DiscoveredAddrs(set)
    BY DEF Refreshed, set
  <1>7. unseen' = [a \in Addrs |-> IF a \in DOMAIN set THEN 0
                                   ELSE IF a \in endpoints' THEN unseen[a] ELSE Grace + 1]
    BY DEF Remember, set
  <1> HIDE DEF stamped, augmented
  <1>8. /\ endpoints' \subseteq endpoints \cup augmented
        /\ growOnly => endpoints \subseteq endpoints'
        /\ \A a \in endpoints \ endpoints' :
             ~growOnly /\ a \notin augmented /\ endpoints' \ endpoints # {}
    BY <1>6 DEF Reconcile
  <1>9. DOMAIN age' = DOMAIN stamped \cap (endpoints \cup augmented)
    BY <1>6
  <1>10. endpoints' \subseteq DOMAIN age' /\ DOMAIN age' \subseteq Addrs
         /\ evidence' \subseteq DOMAIN age' /\ endpoints' \cup evidence' \subseteq vouched'
    BY <1>1, <1>2, <1>4, <1>5, <1>6, <1>8, <1>9
  <1>11. age' \in [DOMAIN age' -> Ages]
    BY <1>1, <1>3, <1>4, <1>6, <1>9
  <1>12. unseen' \in [Addrs -> Ages]
    BY <1>1, <1>3, <1>7
  <1>13. AgesAreTrue'
    <2> SUFFICES ASSUME NEW a \in endpoints' PROVE age'[a] = unseen'[a]
      BY DEF AgesAreTrue
    <2>1. a \in DOMAIN age' /\ a \in Addrs /\ age'[a] = stamped[a]
      BY <1>6, <1>9, <1>10
    <2>2. CASE a \in DOMAIN set
      BY <1>4, <1>7, <2>1, <2>2
    <2>3. CASE a \notin DOMAIN set
      <3>1. a \in endpoints
        BY <1>5, <1>8, <2>3
      <3>2. age[a] = unseen[a]
        BY <3>1 DEF EpInv, AgesAreTrue
      <3>3. QED
        BY <1>1, <1>4, <1>7, <2>1, <2>3, <3>1, <3>2
    <2>4. QED
      BY <2>2, <2>3
  <1>14. ASSUME NEW a \in endpoints \ endpoints' PROVE unseen[a] > Grace
    <2>1. ~(stamped[a] <= Grace) /\ stamped[a] = age[a] /\ age[a] = unseen[a]
      BY <1>1, <1>4, <1>5, <1>8 DEF EpInv, AgesAreTrue
    <2>2. unseen[a] \in Nat
      BY <1>1, <1>3 DEF Ages
    <2>3. QED
      BY <1>3, <2>1, <2>2
  <1>15. QED
    BY <1>1, <1>2, <1>8, <1>10, <1>11, <1>12, <1>13, <1>14

\* A refresh keeps the invariant whatever else a tunnel's rise changes.
LEMMA RefreshKeeps ==
  ASSUME EpInv, NEW obs \in Observations, NEW tunnelUp \in BOOLEAN, NEW growOnly \in BOOLEAN,
         Refreshed(Resolve(obs, tunnelUp), growOnly), Remember(obs, Resolve(obs, tunnelUp), tunnelUp),
         UNCHANGED store, epPosture' \in {"standby", "guard", "block", "window"},
         {present', everUp', recorded', hostHadVpn'} \subseteq BOOLEAN, everUp' => hostHadVpn'
  PROVE  EpInv'
  <1>1. store' \subseteq Addrs /\ store' \subseteq vouched'
    BY RefreshFolds DEF EpInv, EpTypeOK, HolesAreVouchedFor
  <1>2. EpTypeOK'
    BY <1>1, RefreshFolds DEF EpTypeOK
  <1>3. HolesAreVouchedFor'
    BY <1>1, RefreshFolds DEF HolesAreVouchedFor
  <1>4. QED
    BY <1>2, <1>3, RefreshFolds DEF EpInv, RecordIsEarned

\* The record of a tunnel is made only when one is up.
LEMMA MarkUpEarns ==
  ASSUME EpInv, MarkUp
  PROVE  {everUp', recorded', hostHadVpn'} \subseteq BOOLEAN /\ (everUp' => hostHadVpn')
  BY DEF EpInv, EpTypeOK, MarkUp

\* Every step of the loop and of the host around it keeps the invariant.
LEMMA EpStep == EpInv /\ [EpNext]_epVars => EpInv'
  <1> SUFFICES ASSUME EpInv, [EpNext]_epVars PROVE EpInv'
    OBVIOUS
  <1>1. /\ epPosture \in {"down", "standby", "guard", "block", "window"}
        /\ {present, everUp, recorded, hostHadVpn} \subseteq BOOLEAN
        /\ (everUp => hostHadVpn)
    BY DEF EpInv, EpTypeOK, RecordIsEarned
  <1>2. ASSUME NEW obs \in Observations, NEW probed \in BOOLEAN, NEW autoArm \in BOOLEAN,
               NEW armAtBoot \in BOOLEAN, NEW relaxed \in BOOLEAN, NEW pins \in BOOLEAN,
               StartGuard(obs, probed, autoArm, armAtBoot, relaxed, pins)
        PROVE  EpInv'
    <2> DEFINE set == Resolve(obs, present)
    <2>1. /\ store \subseteq vouched /\ Literals \subseteq vouched /\ vouched \subseteq Addrs
          /\ store \subseteq Addrs /\ unseen \in [Addrs -> Ages]
      BY DEF EpInv, EpTypeOK, HolesAreVouchedFor
    <2>2. /\ vouched' = vouched \cup obs.dns \cup Transports(obs.sockets)
          /\ DOMAIN set \subseteq vouched' /\ vouched' \subseteq Addrs
          /\ DiscoveredAddrs(set) \subseteq DOMAIN set /\ carrying' \subseteq Addrs
      BY <1>1, <1>2, <2>1, ResolveIsVouchedFor DEF StartGuard, Remember
    <2>3. /\ epPosture' \in {"standby", "guard"}
          /\ endpoints' = DOMAIN set /\ age' = [a \in DOMAIN set |-> 0]
          /\ evidence' = DiscoveredAddrs(set) /\ recorded' = everUp
          /\ unseen' = [a \in Addrs |-> IF a \in DOMAIN set THEN 0
                                        ELSE IF a \in endpoints' THEN unseen[a] ELSE Grace + 1]
          /\ UNCHANGED <<present, store, everUp, hostHadVpn>>
      BY <1>2 DEF StartGuard, Remember
    <2> HIDE DEF set
    <2>4. 0 \in Ages /\ Grace + 1 \in Ages
      BY EndpointsAssumption DEF Ages
    <2>5. EpTypeOK'
      BY <1>1, <2>1, <2>2, <2>3, <2>4 DEF EpTypeOK
    <2>6. AgesAreTrue'
      BY <2>2, <2>3 DEF AgesAreTrue
    <2>7. QED
      BY <1>1, <2>1, <2>2, <2>3, <2>5, <2>6 DEF EpInv, HolesAreVouchedFor, RecordIsEarned
  <1>3. CASE EndDaemon
    <2>1. Grace + 1 \in Ages
      BY EndpointsAssumption DEF Ages
    <2>2. EpTypeOK'
      BY <1>1, <1>3, <2>1 DEF EndDaemon, EpInv, EpTypeOK
    <2>3. QED
      BY <1>3, <2>2 DEF EndDaemon, EpInv, HolesAreVouchedFor, AgesAreTrue, RecordIsEarned
  <1>4. CASE TunnelDown
    BY <1>4 DEF TunnelDown, epMemory, epHistory, EpInv, EpTypeOK, HolesAreVouchedFor,
                AgesAreTrue, RecordIsEarned
  <1>5. CASE PostureMoves
    BY <1>5 DEF PostureMoves, epMemory, epHistory, EpInv, EpTypeOK, HolesAreVouchedFor,
                AgesAreTrue, RecordIsEarned
  <1>6. CASE CloseEarly
    BY <1>6 DEF CloseEarly, epMemory, epHistory, EpInv, EpTypeOK, HolesAreVouchedFor,
                AgesAreTrue, RecordIsEarned
  <1>7. CASE Unlearn
    BY <1>7 DEF Unlearn, epMemory, epHistory, EpInv, EpTypeOK, HolesAreVouchedFor,
                AgesAreTrue, RecordIsEarned
  <1>8. CASE TimePasses
    <2>1. /\ endpoints \subseteq DOMAIN age /\ DOMAIN age \subseteq Addrs
          /\ age \in [DOMAIN age -> Ages] /\ unseen \in [Addrs -> Ages]
      BY DEF EpInv, EpTypeOK
    <2>2. \A n \in Ages : (IF n > Grace THEN n ELSE n + 1) \in Ages
      BY EndpointsAssumption DEF Ages
    <2>3. /\ age' = [a \in DOMAIN age |-> IF age[a] > Grace THEN age[a] ELSE age[a] + 1]
          /\ unseen' = [a \in Addrs |-> IF unseen[a] > Grace THEN unseen[a] ELSE unseen[a] + 1]
          /\ DOMAIN age' = DOMAIN age
      BY <1>8 DEF TimePasses
    <2>4. age' \in [DOMAIN age' -> Ages] /\ unseen' \in [Addrs -> Ages]
      BY <2>1, <2>2, <2>3
    <2>5. AgesAreTrue'
      BY <1>8, <2>1, <2>3 DEF TimePasses, EpInv, AgesAreTrue
    <2>6. EpTypeOK'
      BY <1>8, <2>3, <2>4 DEF TimePasses, EpInv, EpTypeOK
    <2>7. QED
      BY <1>8, <2>5, <2>6 DEF TimePasses, EpInv, HolesAreVouchedFor, RecordIsEarned
  <1>9. ASSUME NEW obs \in Observations, TunnelUp(obs) PROVE EpInv'
    <2>1. /\ {everUp', recorded', hostHadVpn'} \subseteq BOOLEAN /\ (everUp' => hostHadVpn')
          /\ present' = TRUE /\ UNCHANGED store
      BY <1>9, MarkUpEarns DEF TunnelUp
    <2>2. CASE epPosture = "standby"
      <3>1. /\ Refreshed(Resolve(obs, TRUE), FALSE) /\ Remember(obs, Resolve(obs, TRUE), TRUE)
            /\ epPosture' \in {"guard", "standby"}
        BY <1>9, <2>2 DEF TunnelUp, AutoArm
      <3>2. QED
        BY <2>1, <3>1, RefreshKeeps
    <2>3. CASE epPosture # "standby"
      BY <1>9, <2>1, <2>3
      DEF TunnelUp, EpInv, EpTypeOK, HolesAreVouchedFor, AgesAreTrue, RecordIsEarned
    <2>4. QED
      BY <2>2, <2>3
  <1>10. ASSUME NEW obs \in Observations, RefreshTick(obs) PROVE EpInv'
    <2>1. /\ epPosture # "down" /\ UNCHANGED <<present, recorded, store, everUp, hostHadVpn>>
      BY <1>10 DEF RefreshTick
    <2>2. CASE epPosture = "standby" /\ present
      <3>1. /\ Refreshed(Resolve(obs, TRUE), FALSE) /\ Remember(obs, Resolve(obs, TRUE), TRUE)
            /\ epPosture' \in {"guard", "standby"}
        BY <1>10, <2>2 DEF RefreshTick, AutoArm
      <3>2. QED
        BY <1>1, <2>1, <3>1, RefreshKeeps
    <2>3. CASE ~(epPosture = "standby" /\ present)
      <3>1. /\ Refreshed(Resolve(obs, present), epPosture \in {"block", "window"})
            /\ Remember(obs, Resolve(obs, present), present)
            /\ epPosture' = epPosture
        BY <1>10, <2>3 DEF RefreshTick
      <3>2. PICK growOnly \in BOOLEAN : Refreshed(Resolve(obs, present), growOnly)
        <4>1. (epPosture \in {"block", "window"}) = TRUE
              \/ (epPosture \in {"block", "window"}) = FALSE
          OBVIOUS
        <4>2. QED
          BY <3>1, <4>1, Zenon
      <3>3. QED
        BY <1>1, <2>1, <3>1, <3>2, RefreshKeeps
    <2>4. QED
      BY <2>2, <2>3
  <1>11. CASE UNCHANGED epVars
    BY <1>11 DEF epVars, epMemory, epHistory, EpInv, EpTypeOK, HolesAreVouchedFor,
                 AgesAreTrue, RecordIsEarned
  <1>12. QED
    BY <1>2, <1>3, <1>4, <1>5, <1>6, <1>7, <1>8, <1>9, <1>10, <1>11 DEF EpNext

\* An endpoint leaves the set of a running daemon only when its grace is over.
LEMMA EndpointsLeaveLate ==
  ASSUME EpInv, [EpNext]_epVars, epPosture # "down", epPosture' # "down",
         NEW a \in endpoints \ endpoints'
  PROVE  /\ epPosture \notin {"block", "window"}
         /\ endpoints' \ endpoints # {} /\ unseen[a] > Grace
  <1>1. endpoints' # endpoints
    OBVIOUS
  <1>2. PICK obs \in Observations : TunnelUp(obs) \/ RefreshTick(obs)
    BY <1>1 DEF EpNext, epVars, epMemory, StartGuard, EndDaemon, TunnelDown, PostureMoves,
                CloseEarly, Unlearn, TimePasses
  <1>3. CASE epPosture = "standby" /\ Refreshed(Resolve(obs, TRUE), FALSE)
             /\ Remember(obs, Resolve(obs, TRUE), TRUE)
    BY <1>3, RefreshFolds
  <1>4. CASE /\ Refreshed(Resolve(obs, present), epPosture \in {"block", "window"})
             /\ Remember(obs, Resolve(obs, present), present)
    <2>1. PICK growOnly \in BOOLEAN : /\ growOnly <=> epPosture \in {"block", "window"}
                                      /\ Refreshed(Resolve(obs, present), growOnly)
      <3>1. (epPosture \in {"block", "window"}) = TRUE
            \/ (epPosture \in {"block", "window"}) = FALSE
        OBVIOUS
      <3>2. QED
        BY <1>4, <3>1, Zenon
    <2>2. present \in BOOLEAN
      BY DEF EpInv, EpTypeOK
    <2>3. ~growOnly /\ endpoints' \ endpoints # {} /\ unseen[a] > Grace
      BY <1>4, <2>1, <2>2, RefreshFolds
    <2>4. QED
      BY <2>1, <2>3
  <1>5. QED
    BY <1>1, <1>2, <1>3, <1>4 DEF TunnelUp, RefreshTick, AutoArm

\* For all addresses, sockets, hostnames and graces, whatever the host and the loop do:
\* the guard passes and learns only what was vouched for, a server outlives its socket by
\* the grace, and no start whose probe answered cuts off a host where no VPN has worked.
THEOREM EndpointsKeepPromise == EpSpec => EndpointsPromise
  <1>1. EpInit => EpInv
    <2> SUFFICES ASSUME EpInit PROVE EpInv
      OBVIOUS
    <2>1. Grace + 1 \in Ages /\ Literals \subseteq Addrs
      BY EndpointsAssumption DEF Ages
    <2>2. DOMAIN age = {} /\ age \in [{} -> Ages]
      BY DEF EpInit
    <2>3. EpTypeOK
      BY <2>1, <2>2 DEF EpInit, EpTypeOK
    <2>4. QED
      BY <2>3 DEF EpInit, EpInv, HolesAreVouchedFor, AgesAreTrue, RecordIsEarned
  <1>2. EpInv => EpTypeOK /\ HolesAreVouchedFor
    BY DEF EpInv
  <1>3. EpInv /\ [EpNext]_epVars =>
          [epPosture # "down" /\ epPosture' # "down" =>
             \A a \in endpoints \ endpoints' :
               /\ epPosture \notin {"block", "window"}
               /\ endpoints' \ endpoints # {}
               /\ unseen[a] > Grace]_epVars
    BY EndpointsLeaveLate
  <1>4. EpInv /\ [EpNext]_epVars =>
          [epPosture = "down" /\ epPosture' = "guard" /\ ~present =>
             \A obs \in Observations, armAtBoot, relaxed, pins \in BOOLEAN :
               StartGuard(obs, TRUE, TRUE, armAtBoot, relaxed, pins)
                 => hostHadVpn /\ endpoints' # {}]_epVars
    BY DEF EpInv, RecordIsEarned, StartGuard, ShouldArmAtBoot
  <1>5. EpSpec => []EpInv
    BY <1>1, EpStep, PTL DEF EpSpec
  <1>6. EpSpec => ServersOutliveTheirSockets
    BY <1>3, <1>5, PTL DEF EpSpec, ServersOutliveTheirSockets
  <1>7. EpSpec => FirstRunStaysOpen
    BY <1>4, <1>5, PTL DEF EpSpec, FirstRunStaysOpen
  <1>8. QED
    BY <1>2, <1>5, <1>6, <1>7, PTL DEF EndpointsPromise

-----------------------------------------------------------------------------
(* The tunnel watcher and the loop that hears it.                          *)

\* What a sample may have lost of the state told: a tunnel, or the last of them.
Lost(S) == ~(emitted.names \subseteq S) \/ S = {}

\* The channel holds nothing or one state; ...
ChanHolds == chan = <<>> \/ \E st \in States : chan = <<st>>
\* ... what is being sent is what was emitted last, what waits in the channel behind no
\* send is too, and before the first emission there is neither; ...
InOrder ==
  /\ sending # Nothing => sending = emitted
  /\ sending = Nothing => chan \in {<<>>, <<emitted>>}
  /\ emitted = Nothing => sending = Nothing /\ chan = <<>> /\ recent = <<>>
\* ... an unknown state is only ever the first, which tells the loop nothing; ...
UnknownIsFirst ==
  emitted \in {Nothing, UnknownSample} =>
    heard = Nothing /\ chan \in {<<>>, <<UnknownSample>>}
\* ... and while a tunnel is told to be up, the streak counts the latest samples that
\* lost something.
StreakIsTrue ==
  emitted.up =>
    /\ downStreak < DownDebounce /\ downStreak <= Len(recent)
    /\ \A k \in 1 .. downStreak : Lost(recent[Len(recent) + 1 - k])

WatchInv ==
  /\ WatchTypeOK /\ GrowthIsPrompt /\ LoopIsUpToDate
  /\ ChanHolds /\ InOrder /\ UnknownIsFirst /\ StreakIsTrue

\* A sample tells what it was taken of, and is not the unknown one.
LEMMA SampleFields ==
  ASSUME NEW S \in SUBSET Ifaces
  PROVE  /\ Sample(S) \in States /\ Sample(S).names = S /\ (Sample(S).up <=> S # {})
         /\ Sample(S).up \in BOOLEAN /\ Sample(S).unknown = FALSE
         /\ Sample(S) # UnknownSample /\ Sample(S) # Nothing
  <1>1. Sample(S) \in States
    BY DEF States
  <1>2. Sample(S).names = S
    BY DEF Sample
  <1>3. Sample(S).up = (S # {}) /\ Sample(S).unknown = FALSE
    BY Zenon DEF Sample
  <1>4. UnknownSample.unknown = TRUE /\ Nothing.unknown = TRUE
    BY DEF UnknownSample, Nothing
  <1>5. Sample(S).up \in BOOLEAN /\ (Sample(S).up <=> S # {})
    BY <1>3, Zenon
  <1>6. QED
    BY <1>1, <1>2, <1>3, <1>4, <1>5

LEMMA UnknownFields ==
  /\ UnknownSample \in States /\ UnknownSample.up = TRUE /\ UnknownSample.names = {}
  /\ UnknownSample.unknown = TRUE
  /\ Nothing.up = FALSE /\ Nothing.names = {} /\ Nothing.unknown = TRUE
  /\ UnknownSample # Nothing
  <1>1. UnknownSample \in States
    BY DEF States
  <1>2. UnknownSample.up = TRUE /\ Nothing.up = FALSE
    BY DEF UnknownSample, Nothing
  <1>3. QED
    BY <1>1, <1>2 DEF UnknownSample, Nothing

\* A state is told to be up or down, and with nothing up it names nothing.
LEMMA StateCases ==
  ASSUME NEW st \in States
  PROVE  /\ st # Nothing /\ st.up \in BOOLEAN /\ st.names \in SUBSET Ifaces
         /\ ~st.up => st.names = {}
         /\ st.unknown <=> st = UnknownSample
  <1>1. CASE st = UnknownSample
    BY <1>1, UnknownFields
  <1>2. ASSUME NEW S \in SUBSET Ifaces, st = Sample(S)
        PROVE  /\ st # Nothing /\ st.up \in BOOLEAN /\ st.names \in SUBSET Ifaces
               /\ ~st.up => st.names = {}
               /\ st.unknown <=> st = UnknownSample
    BY <1>2, SampleFields
  <1>3. QED
    BY <1>1, <1>2 DEF States

\* A known sample joins the latest ones.
LEMMA SampleIsKept ==
  ASSUME WatchTypeOK, NEW S \in SUBSET Ifaces, KeepRecent(S)
  PROVE  \E n, m \in Nat :
           /\ n = Len(recent) /\ m = Len(recent') /\ n <= DownDebounce
           /\ m = IF n < DownDebounce THEN n + 1 ELSE DownDebounce
           /\ recent' \in Seq(SUBSET Ifaces) /\ recent' # <<>> /\ recent'[m] = S
           /\ \A k \in 1 .. m - 1 : recent'[m - k] = recent[n + 1 - k]
  <1>1. recent \in Seq(SUBSET Ifaces) /\ DownDebounce \in Nat \ {0}
    BY WatcherAssumption DEF WatchTypeOK
  <1>2. PICK n \in Nat : n = Len(recent) /\ n <= DownDebounce
    BY LenProperties DEF WatchTypeOK
  <1>3. recent' = Append(IF n < DownDebounce THEN recent ELSE Tail(recent), S)
    BY <1>2 DEF KeepRecent
  <1> DEFINE m == IF n < DownDebounce THEN n + 1 ELSE DownDebounce
  <1>4. /\ recent' \in Seq(SUBSET Ifaces) /\ m \in Nat /\ m = Len(recent') /\ recent' # <<>>
        /\ recent'[m] = S
        /\ \A k \in 1 .. m - 1 : recent'[m - k] = recent[n + 1 - k]
    BY <1>1, <1>2, <1>3, LatestAreKept
  <1>5. QED
    BY <1>2, <1>4

LEMMA ChanType ==
  ASSUME NEW c, c = <<>> \/ \E st \in States : c = <<st>>
  PROVE  c \in Seq(States) /\ Len(c) <= 1
  <1>1. <<>> \in Seq(States) /\ Len(<<>>) <= 1
    BY EmptySeq
  <1>2. ASSUME NEW st \in States PROVE <<st>> \in Seq(States) /\ Len(<<st>>) <= 1
    OBVIOUS
  <1>3. QED
    BY <1>1, <1>2

\* A tick that could see the interfaces.
LEMMA SampleTickKeeps == WatchInv /\ SampleTick => WatchInv'
  <1> SUFFICES ASSUME WatchInv, SampleTick PROVE WatchInv'
    OBVIOUS
  <1> DEFINE S == Observed
             st == Sample(S)
  <1>1. S \in SUBSET Ifaces /\ DownDebounce \in Nat \ {0} /\ downStreak \in 0 .. DownDebounce
    BY WatcherAssumption DEF WatchInv, WatchTypeOK, Observed
  <1>2. PICK n, m \in Nat :
          /\ n = Len(recent) /\ m = Len(recent') /\ n <= DownDebounce
          /\ m = IF n < DownDebounce THEN n + 1 ELSE DownDebounce
          /\ recent' \in Seq(SUBSET Ifaces) /\ recent' # <<>> /\ recent'[m] = S
          /\ \A k \in 1 .. m - 1 : recent'[m - k] = recent[n + 1 - k]
    BY <1>1, SampleIsKept DEF WatchInv, SampleTick
  <1>3. /\ st \in States /\ st.names = S /\ (st.up <=> S # {}) /\ st # UnknownSample
        /\ st # Nothing
    BY <1>1, SampleFields
  <1>4. /\ emitted # Nothing /\ sending = Nothing /\ Judge(st)
        /\ UNCHANGED <<live, pinned, watched, chan, heard, tunnels>>
    BY DEF SampleTick, world, loop
  <1>5. emitted \in States /\ emitted.up \in BOOLEAN /\ (~emitted.up => emitted.names = {})
    BY <1>4, StateCases DEF WatchInv, WatchTypeOK
  <1> HIDE DEF S, st
  <1>6. /\ emitted.up => (Fell(st) <=> Lost(S))
        /\ ~(S \subseteq emitted.names) => Rose(st)
    BY <1>3, <1>5 DEF Fell, Rose, Lost
  <1>7. /\ (Rose(st) \/ (Fell(st) /\ downStreak + 1 >= DownDebounce)) => Emit(st)
        /\ ~(Rose(st) \/ (Fell(st) /\ downStreak + 1 >= DownDebounce))
             => Quiet(IF Fell(st) THEN downStreak + 1 ELSE 0)
    BY <1>4 DEF Judge
  <1>8. ChanHolds'
    BY <1>4 DEF WatchInv, ChanHolds
  <1>9. CASE Emit(st)
    <2>1. downStreak' = 0 /\ emitted' = st /\ sending' = st
      BY <1>9 DEF Emit
    <2>2. WatchTypeOK'
      BY <1>1, <1>2, <1>3, <1>4, <2>1 DEF WatchInv, WatchTypeOK
    <2>3. GrowthIsPrompt'
      BY <1>2, <1>3, <2>1 DEF GrowthIsPrompt
    <2>4. LoopIsUpToDate' /\ InOrder' /\ UnknownIsFirst'
      BY <1>3, <2>1 DEF LoopIsUpToDate, InOrder, UnknownIsFirst
    <2>5. StreakIsTrue'
      <3>1. 0 < DownDebounce /\ 0 <= m /\ 1 .. 0 = {}
        BY <1>1
      <3>2. QED
        BY <1>2, <2>1, <3>1 DEF StreakIsTrue
    <2>6. QED
      BY <1>8, <2>2, <2>3, <2>4, <2>5 DEF WatchInv
  <1>10. CASE ~Emit(st)
    <2>1. /\ ~Rose(st) /\ ~(Fell(st) /\ downStreak + 1 >= DownDebounce)
          /\ downStreak' = (IF Fell(st) THEN downStreak + 1 ELSE 0)
          /\ emitted' = emitted /\ sending' = sending
      BY <1>7, <1>10 DEF Quiet
    <2>2. downStreak' \in 0 .. DownDebounce
      BY <1>1, <2>1
    <2>3. WatchTypeOK'
      <3>1. /\ live' \subseteq Ifaces /\ pinned' \in PinChoices /\ watched' \subseteq Ifaces
            /\ emitted' \in States \cup {Nothing} /\ sending' \in States \cup {Nothing}
            /\ chan' \in Seq(States) /\ Len(chan') <= 1
            /\ heard' \in States \cup {Nothing} /\ tunnels' \subseteq Ifaces
        BY <1>4, <2>1 DEF WatchInv, WatchTypeOK
      <3>2. recent' \in Seq(SUBSET Ifaces) /\ Len(recent') <= DownDebounce
        BY <1>1, <1>2
      <3>3. QED
        BY <2>2, <3>1, <3>2 DEF WatchTypeOK
    <2>4. GrowthIsPrompt'
      BY <1>2, <1>6, <2>1 DEF GrowthIsPrompt
    <2>5. LoopIsUpToDate' /\ InOrder' /\ UnknownIsFirst'
      BY <1>4, <2>1 DEF WatchInv, LoopIsUpToDate, InOrder, UnknownIsFirst
    <2>6. ASSUME emitted.up
          PROVE  /\ downStreak' < DownDebounce /\ downStreak' <= m
                 /\ \A k \in 1 .. downStreak' : Lost(recent'[m + 1 - k])
      <3>1. /\ downStreak < DownDebounce /\ downStreak <= n
            /\ \A k \in 1 .. downStreak : Lost(recent[n + 1 - k])
        BY <1>2, <2>6 DEF WatchInv, StreakIsTrue
      <3>2. CASE Fell(st)
        <4>1. downStreak' = downStreak + 1 /\ downStreak' < DownDebounce /\ downStreak' <= m
          BY <1>1, <1>2, <2>1, <3>1, <3>2
        <4>2. ASSUME NEW k \in 1 .. downStreak + 1 PROVE Lost(recent'[m + 1 - k])
          <5>1. CASE k = 1
            <6>1. m + 1 - k = m
              BY <5>1
            <6>2. QED
              BY <1>2, <1>6, <2>6, <3>2, <6>1
          <5>2. CASE k # 1
            <6>1. /\ k - 1 \in 1 .. downStreak /\ k - 1 \in 1 .. m - 1
                  /\ m + 1 - k = m - (k - 1)
              BY <1>1, <1>2, <4>1, <5>2
            <6>2. recent'[m - (k - 1)] = recent[n + 1 - (k - 1)]
              BY <1>2, <6>1
            <6>3. QED
              BY <3>1, <6>1, <6>2
          <5>3. QED
            BY <5>1, <5>2
        <4>3. QED
          BY <4>1, <4>2
      <3>3. CASE ~Fell(st)
        <4>1. downStreak' = 0 /\ 1 .. 0 = {}
          BY <2>1, <3>3
        <4>2. QED
          BY <1>1, <1>2, <4>1
      <3>4. QED
        BY <3>2, <3>3
    <2>7. StreakIsTrue'
      BY <1>2, <2>1, <2>6 DEF StreakIsTrue, Lost
    <2>8. QED
      BY <1>8, <2>3, <2>4, <2>5, <2>7 DEF WatchInv
  <1>11. QED
    BY <1>9, <1>10

LEMMA FirstSampleKeeps ==
  ASSUME WatchInv, NEW st \in States, FirstSample(st),
         st = Sample(Observed) \/ st = UnknownSample
  PROVE  WatchInv'
  <1>1. /\ emitted = Nothing /\ emitted' = st /\ sending' = st
        /\ downStreak' = (IF st.up THEN 0 ELSE DownDebounce)
        /\ UNCHANGED <<live, pinned, watched, chan, heard, tunnels>>
    BY DEF FirstSample, world, loop
  <1>2. /\ sending = Nothing /\ chan = <<>> /\ recent = <<>> /\ heard = Nothing
    BY <1>1 DEF WatchInv, InOrder, UnknownIsFirst
  <1>3. /\ recent' \in Seq(SUBSET Ifaces) /\ Len(recent') <= DownDebounce
        /\ Len(recent') \in Nat
        /\ recent' # <<>> => recent'[Len(recent')] \subseteq st.names
    <2>1. CASE st.unknown
      <3>1. recent' = recent
        BY <2>1 DEF FirstSample
      <3>2. QED
        BY <1>2, <3>1, LenProperties DEF WatchInv, WatchTypeOK
    <2>2. CASE ~st.unknown
      <3>1. KeepRecent(st.names) /\ st.names \in SUBSET Ifaces
        BY <2>2, StateCases DEF FirstSample
      <3>2. PICK n, m \in Nat :
              /\ n = Len(recent) /\ m = Len(recent') /\ n <= DownDebounce
              /\ m = IF n < DownDebounce THEN n + 1 ELSE DownDebounce
              /\ recent' \in Seq(SUBSET Ifaces) /\ recent' # <<>> /\ recent'[m] = st.names
              /\ \A k \in 1 .. m - 1 : recent'[m - k] = recent[n + 1 - k]
        BY <3>1, SampleIsKept DEF WatchInv
      <3>3. m <= DownDebounce
        BY <3>2, WatcherAssumption
      <3>4. QED
        BY <3>2, <3>3
    <2>3. QED
      BY <2>1, <2>2
  <1>4. downStreak' \in 0 .. DownDebounce /\ (st.up => downStreak' = 0)
    BY <1>1, WatcherAssumption
  <1>5. ChanHolds' /\ st # Nothing
    BY <1>1, StateCases DEF WatchInv, ChanHolds
  <1>6. WatchTypeOK'
    BY <1>1, <1>3, <1>4 DEF WatchInv, WatchTypeOK
  <1>7. GrowthIsPrompt' /\ LoopIsUpToDate' /\ InOrder' /\ UnknownIsFirst'
    BY <1>1, <1>2, <1>3, <1>5
    DEF GrowthIsPrompt, LoopIsUpToDate, InOrder, UnknownIsFirst
  <1>8. StreakIsTrue'
    <2>1. 0 < DownDebounce /\ 0 <= Len(recent') /\ 1 .. 0 = {}
      BY <1>3, WatcherAssumption
    <2>2. QED
      BY <1>1, <1>4, <2>1 DEF StreakIsTrue
  <1>9. QED
    BY <1>5, <1>6, <1>7, <1>8 DEF WatchInv

\* Each step of the interfaces, the watcher and the loop keeps the invariant.
LEMMA WatchStep == WatchInv /\ [WatchNext]_watchVars => WatchInv'
  <1> SUFFICES ASSUME WatchInv, [WatchNext]_watchVars PROVE WatchInv'
    OBVIOUS
  <1> USE DEF world, watcher, loop
  <1>1. CASE InterfacesChange
    BY <1>1 DEF InterfacesChange, WatchInv, WatchTypeOK, GrowthIsPrompt, LoopIsUpToDate,
                ChanHolds, InOrder, UnknownIsFirst, StreakIsTrue, Lost
  <1>2. CASE FirstSample(Sample(Observed)) \/ FirstSample(UnknownSample)
    <2>1. Observed \in SUBSET Ifaces
      BY DEF WatchInv, WatchTypeOK, Observed
    <2>2. Sample(Observed) \in States /\ UnknownSample \in States
      BY <2>1, SampleFields, UnknownFields
    <2>3. QED
      BY <1>2, <2>2, FirstSampleKeeps
  <1>3. CASE SampleTick
    BY <1>3, SampleTickKeeps
  <1>4. CASE UnknownTick \/ UNCHANGED watchVars
    BY <1>4 DEF UnknownTick, watchVars, WatchInv, WatchTypeOK, GrowthIsPrompt,
                LoopIsUpToDate, ChanHolds, InOrder, UnknownIsFirst, StreakIsTrue, Lost
  <1>5. CASE Send
    <2>1. /\ sending # Nothing /\ sending = emitted /\ chan' = <<sending>> /\ sending' = Nothing
          /\ UNCHANGED <<live, pinned, watched, emitted, downStreak, recent, heard, tunnels>>
          /\ sending \in States
      BY <1>5 DEF Send, WatchInv, InOrder, WatchTypeOK
    <2>2. ChanHolds' /\ chan' # <<>>
      BY <2>1 DEF ChanHolds
    <2>3. chan' \in Seq(States) /\ Len(chan') <= 1
      BY <2>2, ChanType DEF ChanHolds
    <2>4. WatchTypeOK'
      BY <2>1, <2>3 DEF WatchInv, WatchTypeOK
    <2>5. GrowthIsPrompt' /\ LoopIsUpToDate' /\ InOrder' /\ UnknownIsFirst' /\ StreakIsTrue'
      BY <2>1, <2>2 DEF WatchInv, GrowthIsPrompt, LoopIsUpToDate, InOrder, UnknownIsFirst,
                        StreakIsTrue, Lost
    <2>6. QED
      BY <2>2, <2>4, <2>5 DEF WatchInv
  <1>6. CASE Hear
    <2>1. PICK st \in States : chan = <<st>>
      BY <1>6 DEF Hear, WatchInv, ChanHolds
    <2>2. /\ chan' = <<>> /\ Head(chan) = st
          /\ UNCHANGED <<live, pinned, watched, emitted, downStreak, sending, recent>>
          /\ st.unknown => UNCHANGED <<heard, tunnels>>
          /\ ~st.unknown => heard' = st /\ tunnels' = ReconcileTunnels(tunnels, st.names)
      BY <1>6, <2>1 DEF Hear
    <2>3. tunnels' \subseteq Ifaces /\ heard' \in States \cup {Nothing}
      BY <2>2, StateCases, WatcherAssumption DEF WatchInv, WatchTypeOK, ReconcileTunnels
    <2>4. WatchTypeOK'
      <3>1. chan' \in Seq(States) /\ Len(chan') <= 1
        BY <2>2, ChanType
      <3>2. QED
        BY <2>2, <2>3, <3>1 DEF WatchInv, WatchTypeOK
    <2>5. chan # <<>> /\ \A x : chan = <<x>> => x = st
      BY <2>1
    <2>6. InOrder' /\ ChanHolds' /\ GrowthIsPrompt' /\ StreakIsTrue'
      BY <2>2, <2>5 DEF WatchInv, InOrder, ChanHolds, GrowthIsPrompt, StreakIsTrue, Lost
    <2>7. UnknownIsFirst'
      <3>1. emitted \in {Nothing, UnknownSample} => st = UnknownSample /\ heard = Nothing
        BY <2>5 DEF WatchInv, UnknownIsFirst
      <3>2. QED
        BY <2>2, <3>1, UnknownFields DEF UnknownIsFirst
    <2>8. LoopIsUpToDate'
      <3> SUFFICES ASSUME emitted # Nothing, sending = Nothing
                   PROVE  heard' = emitted \/ (emitted.unknown /\ heard' = Nothing)
        BY <2>2 DEF LoopIsUpToDate
      <3>1. st = emitted
        BY <2>5 DEF WatchInv, InOrder
      <3>2. st.unknown => heard = Nothing
        BY <3>1, StateCases DEF WatchInv, UnknownIsFirst
      <3>3. QED
        BY <2>2, <3>1, <3>2
    <2>9. QED
      BY <2>4, <2>6, <2>7, <2>8 DEF WatchInv
  <1>7. QED
    BY <1>1, <1>2, <1>3, <1>4, <1>5, <1>6 DEF WatchNext

\* The drop edge ends a full streak of samples that had each lost something.
LEMMA DropEndsAStreak ==
  ASSUME WatchInv, [WatchNext]_watchVars,
         emitted # Nothing, emitted' # emitted, emitted.up, ~emitted'.up
  PROVE  /\ Len(recent') = DownDebounce
         /\ \A i \in 1 .. DownDebounce :
              ~(emitted.names \subseteq recent'[i]) \/ recent'[i] = {}
  <1>1. SampleTick
    BY DEF WatchNext, watchVars, world, watcher, loop, InterfacesChange, FirstSample,
           UnknownTick, Send, Hear
  <1> DEFINE S == Observed
             st == Sample(S)
  <1>2. S \in SUBSET Ifaces /\ DownDebounce \in Nat \ {0} /\ downStreak \in 0 .. DownDebounce
    BY WatcherAssumption DEF WatchInv, WatchTypeOK, Observed
  <1>3. PICK n, m \in Nat :
          /\ n = Len(recent) /\ m = Len(recent') /\ n <= DownDebounce
          /\ m = IF n < DownDebounce THEN n + 1 ELSE DownDebounce
          /\ recent' \in Seq(SUBSET Ifaces) /\ recent' # <<>> /\ recent'[m] = S
          /\ \A k \in 1 .. m - 1 : recent'[m - k] = recent[n + 1 - k]
    BY <1>1, <1>2, SampleIsKept DEF WatchInv, SampleTick
  <1>4. st.names = S /\ (st.up <=> S # {})
    BY <1>2, SampleFields
  <1>5. Judge(st)
    BY <1>1 DEF SampleTick
  <1> HIDE DEF S, st
  <1>6. emitted' = st /\ S = {} /\ downStreak + 1 >= DownDebounce
    BY <1>4, <1>5 DEF Judge, Emit, Quiet, Rose
  <1>7. /\ downStreak < DownDebounce /\ downStreak <= n
        /\ \A k \in 1 .. downStreak : Lost(recent[n + 1 - k])
    BY <1>3 DEF WatchInv, StreakIsTrue
  <1>8. m = DownDebounce /\ downStreak = DownDebounce - 1
    BY <1>2, <1>3, <1>6, <1>7
  <1>9. ASSUME NEW i \in 1 .. DownDebounce
        PROVE  ~(emitted.names \subseteq recent'[i]) \/ recent'[i] = {}
    <2>1. CASE i = DownDebounce
      BY <1>3, <1>6, <1>8, <2>1
    <2>2. CASE i # DownDebounce
      <3>1. PICK k \in 1 .. downStreak : k \in 1 .. m - 1 /\ i = m - k
        <4>1. DownDebounce - i \in 1 .. downStreak /\ DownDebounce - i \in 1 .. m - 1
              /\ i = m - (DownDebounce - i)
          BY <1>2, <1>8, <2>2
        <4>2. QED
          BY <4>1
      <3>2. recent'[i] = recent[n + 1 - k]
        BY <1>3, <3>1
      <3>3. QED
        BY <1>7, <3>2 DEF Lost
    <2>3. QED
      BY <2>1, <2>2
  <1>10. QED
    BY <1>3, <1>8, <1>9

\* The safety of what Watch and its loop promise (WatcherPromise without its convergence),
\* for all interfaces, pins and debounces, however the two interleave: a drop is believed
\* only after a full streak of losses, growth at once, and the loop misses no edge.
THEOREM WatcherIsSafe ==
  WatchSpec => [](WatchTypeOK /\ GrowthIsPrompt /\ LoopIsUpToDate) /\ DropIsDebounced
  <1>1. WatchInit => WatchInv
    <2> SUFFICES ASSUME WatchInit PROVE WatchInv
      OBVIOUS
    <2>1. /\ chan \in Seq(States) /\ Len(chan) <= 1
          /\ recent \in Seq(SUBSET Ifaces) /\ Len(recent) <= DownDebounce
      BY EmptySeq, WatcherAssumption, ChanType DEF WatchInit
    <2>2. WatchTypeOK
      BY <2>1, WatcherAssumption DEF WatchInit, WatchTypeOK
    <2>3. QED
      BY <2>2, UnknownFields
      DEF WatchInit, WatchInv, GrowthIsPrompt, LoopIsUpToDate, ChanHolds, InOrder,
          UnknownIsFirst, StreakIsTrue
  <1>2. WatchInv => WatchTypeOK /\ GrowthIsPrompt /\ LoopIsUpToDate
    BY DEF WatchInv
  <1>3. WatchInv /\ [WatchNext]_watchVars =>
          [(emitted # Nothing /\ emitted' # emitted /\ emitted.up /\ ~emitted'.up)
             => /\ Len(recent') = DownDebounce
                /\ \A i \in 1 .. DownDebounce :
                     ~(emitted.names \subseteq recent'[i]) \/ recent'[i] = {}]_watchVars
    BY DropEndsAStreak
  <1>4. WatchSpec => []WatchInv
    BY <1>1, WatchStep, PTL DEF WatchSpec
  <1>5. WatchSpec => DropIsDebounced
    BY <1>3, <1>4, PTL DEF WatchSpec, DropIsDebounced
  <1>6. QED
    BY <1>2, <1>4, <1>5, PTL
=============================================================================
