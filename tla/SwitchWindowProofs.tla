------------------------ MODULE SwitchWindowProofs --------------------------
(***************************************************************************)
(* The window and its ledger for all settings, uptimes, lengths, caps and  *)
(* requests.  First the ledger alone: type correctness, that what it says  *)
(* remains is what it grants from, the bound on the time the guard is      *)
(* relaxed, and the instant a refusal promises.  For the types, what takes *)
(* an argument is that the sums are numbers and the instants exist: the    *)
(* episodes are finite, and the earliest interval and the latest of        *)
(* finitely many instants are found without induction.  Then every window: *)
(* it stays within the cap it was opened under, its timer is due, the      *)
(* ledger's open episode is the window, and its deadline moves out only.   *)
(* The four are one induction, since an extension keeps an automatic       *)
(* window's books right only by taking the window over.                    *)
(***************************************************************************)
EXTENDS SwitchWindow, FiniteSetTheorems, TLAPS

(* Maxima and minima. *)

\* A non-empty finite set of integers has a maximum: of the sets of its members from
\* some member up, a smallest one starts at it.
LEMMA SetMaximum ==
  ASSUME NEW S \in SUBSET Int, IsFiniteSet(S), S # {}
  PROVE  Max(S) \in S /\ \A x \in S : Max(S) >= x
  <1> DEFINE From(m) == {y \in S : y >= m}
             Tails == {From(m) : m \in S}
  <1>1. IsWellFoundedOn(StrictSubsetOrdering(S), SUBSET S)
    BY FS_StrictSubsetOrderingWellFounded, FS_FiniteSubsetsOfFinite
  <1>2. Tails \subseteq SUBSET S /\ Tails # {}
    OBVIOUS
  <1>3. \E T \in Tails : \A U \in Tails : <<U, T>> \notin StrictSubsetOrdering(S)
    <2> HIDE DEF Tails
    <2> QED BY <1>1, <1>2, WFMin
  <1>4. PICK m \in S : \A U \in Tails : <<U, From(m)>> \notin StrictSubsetOrdering(S)
    BY <1>3
  <1>5. ASSUME NEW x \in S, x > m PROVE FALSE
    <2>1. From(x) \in Tails /\ From(x) \in SUBSET S /\ From(m) \in SUBSET S
      OBVIOUS
    <2>2. From(x) \subseteq From(m)
      <3> SUFFICES ASSUME NEW y \in S, y >= x PROVE y >= m
        OBVIOUS
      <3> QED BY <1>5
    <2>3. m \in From(m) /\ m \notin From(x)
      BY <1>5
    <2>4. <<From(x), From(m)>> \in StrictSubsetOrdering(S)
      BY <2>1, <2>2, <2>3 DEF StrictSubsetOrdering
    <2> QED BY <1>4, <2>1, <2>4
  <1>6. \A x \in S : m >= x
    BY <1>5
  <1> QED BY <1>6 DEF Max

\* A non-empty set of natural numbers has a minimum, finite or not.
LEMMA NaturalMinimum ==
  ASSUME NEW S \in SUBSET Nat, S # {}
  PROVE  Min(S) \in S /\ \A x \in S : Min(S) <= x
  <1>1. PICK b \in S : TRUE
    OBVIOUS
  <1> DEFINE Low == {x \in S : x <= b}
             Mirror == {b - x : x \in Low}
  <1>2. Mirror \in SUBSET (0 .. b) /\ Mirror # {}
    BY <1>1
  <1>3. IsFiniteSet(Mirror)
    <2>1. IsFiniteSet(0 .. b)
      BY <1>1, FS_Interval
    <2> QED BY <2>1, <1>2, FS_Subset
  <1>4. PICK k \in Mirror : \A y \in Mirror : k >= y
    <2>1. Mirror \in SUBSET Int
      BY <1>2
    <2> HIDE DEF Mirror
    <2> QED BY <2>1, <1>2, <1>3, SetMaximum
  <1>5. PICK m \in Low : k = b - m
    BY <1>4
  <1>6. \A x \in Low : m <= x
    <2> TAKE x \in Low
    <2>1. b - x \in Mirror
      OBVIOUS
    <2>2. k >= b - x
      BY <1>4, <2>1
    <2> QED BY <2>2, <1>5, <1>1
  <1>7. \A x \in S : m <= x
    BY <1>6, <1>5, <1>1
  <1> QED BY <1>7, <1>5 DEF Min

LEMMA HorizonType == Horizon \in Nat \ {0}
  <1> DEFINE intervals == {s.interval : s \in SettingsChoices}
  <1>1. intervals \in SUBSET (Nat \ {0}) /\ intervals # {}
    BY SettingsAssumption
  <1>2. Min(intervals) \in intervals
    <2> HIDE DEF intervals
    <2> QED BY <1>1, NaturalMinimum
  <1> QED BY <1>1, <1>2 DEF Horizon

-----------------------------------------------------------------------------
(* The ledger's operators. *)

\* An episode costs a natural number of units.
LEMMA CostType ==
  ASSUME NEW e \in Episodes
  PROVE  Cost(e) \in Nat
  BY DEF Cost, Episodes

\* Finitely many episodes are charged finitely many units.
LEMMA ChargedFinite ==
  ASSUME NEW E \in SUBSET Episodes, IsFiniteSet(E)
  PROVE  IsFiniteSet(UNION {{e} \X (1 .. Cost(e)) : e \in E})
  <1> DEFINE units(e) == {e} \X (1 .. Cost(e))
             charged == {units(e) : e \in E}
             f == [e \in E |-> units(e)]
  <1>1. IsFiniteSet(charged)
    <2>1. f \in Surjection(E, charged)
      BY DEF Surjection
    <2> QED BY <2>1, FS_Surjection
  <1>2. \A u \in charged : IsFiniteSet(u)
    <2> SUFFICES ASSUME NEW e \in E PROVE IsFiniteSet(units(e))
      OBVIOUS
    <2>1. IsFiniteSet({e}) /\ IsFiniteSet(1 .. Cost(e))
      <3>1. Cost(e) \in Int
        BY CostType
      <3>2. IsFiniteSet({e})
        BY FS_Singleton
      <3>3. IsFiniteSet(1 .. Cost(e))
        BY <3>1, FS_Interval
      <3> QED BY <3>2, <3>3
    <2> QED BY <2>1, FS_Product
  <1>3. IsFiniteSet(UNION charged)
    <2> HIDE DEF charged
    <2> QED BY <1>1, <1>2, FS_UNION
  <1> QED BY <1>3

\* Finitely many episodes cost a natural number of units in all.
LEMMA SpentType ==
  ASSUME NEW E \in SUBSET Episodes, IsFiniteSet(E)
  PROVE  Spent(E) \in Nat
  BY ChargedFinite, FS_CardinalityType DEF Spent

\* A ledger between two windows, at t: everything on it has ended.
Bookkept(l, t) ==
  /\ l \in Ledgers /\ IsFiniteSet(l.episodes)
  /\ \A e \in l.episodes : e.start <= t /\ e.actual <= e.granted

\* Settling keeps the ledger and leaves nothing open.
LEMMA SettleType ==
  ASSUME NEW l, NEW t \in Nat, Bookkept(l, t)
  PROVE  /\ Bookkept(Settle(l, t), t)
         /\ \A e \in Settle(l, t).episodes : e.settled
         /\ Settle(l, t).coolUntil = l.coolUntil
  <1> DEFINE settled(e) == IF e.settled THEN e
                           ELSE [e EXCEPT !.actual = Least(t - e.start, e.granted),
                                          !.settled = TRUE]
             E == {settled(e) : e \in l.episodes}
             f == [e \in l.episodes |-> settled(e)]
  <1>1. Settle(l, t) = [l EXCEPT !.episodes = E]
    BY DEF Settle
  <1>2. \A e \in l.episodes :
          /\ settled(e) \in Episodes /\ settled(e).settled
          /\ settled(e).start <= t /\ settled(e).actual <= settled(e).granted
    <2> TAKE e \in l.episodes
    <2>1. e \in Episodes /\ e.start <= t /\ e.actual <= e.granted
      BY DEF Bookkept, Ledgers
    <2>2. CASE e.settled
      BY <2>1, <2>2
    <2>3. CASE ~e.settled
      <3>1. Least(t - e.start, e.granted) \in Nat
        BY <2>1 DEF Least, Episodes
      <3>2. Least(t - e.start, e.granted) <= e.granted
        BY <2>1 DEF Least, Episodes
      <3> QED BY <2>1, <2>3, <3>1, <3>2 DEF Episodes
    <2> QED BY <2>2, <2>3
  <1>3. IsFiniteSet(E)
    <2>1. f \in Surjection(l.episodes, E)
      BY DEF Surjection
    <2> QED BY <2>1, FS_Surjection DEF Bookkept
  <1>4. [l EXCEPT !.episodes = E] \in Ledgers
    <2>1. E \in SUBSET Episodes
      BY <1>2
    <2> HIDE DEF E
    <2> QED BY <2>1 DEF Bookkept, Ledgers
  <1>5. Settle(l, t).episodes = E /\ Settle(l, t).coolUntil = l.coolUntil
    BY <1>1 DEF Bookkept, Ledgers
  <1>6. \A e \in E : e.settled /\ e.start <= t /\ e.actual <= e.granted
    BY <1>2
  <1> HIDE DEF E
  <1> QED BY <1>1, <1>3, <1>4, <1>5, <1>6 DEF Bookkept

\* Expiring keeps the ledger too.
LEMMA BooksType ==
  ASSUME NEW l, NEW t \in Nat, NEW s, Bookkept(l, t)
  PROVE  /\ OnTheBooks(l, t, s) \subseteq l.episodes
         /\ IsFiniteSet(OnTheBooks(l, t, s))
         /\ Bookkept([l EXCEPT !.episodes = OnTheBooks(l, t, s)], t)
         /\ [l EXCEPT !.episodes = OnTheBooks(l, t, s)].episodes = OnTheBooks(l, t, s)
  <1> DEFINE E == OnTheBooks(l, t, s)
  <1>1. E \subseteq l.episodes
    BY DEF OnTheBooks
  <1>2. IsFiniteSet(E)
    BY <1>1, FS_Subset DEF Bookkept
  <1> HIDE DEF E
  <1>3. [l EXCEPT !.episodes = E] \in Ledgers /\ [l EXCEPT !.episodes = E].episodes = E
    BY <1>1 DEF Bookkept, Ledgers
  <1>4. \A e \in E : e.start <= t /\ e.actual <= e.granted
    BY <1>1 DEF Bookkept
  <1>5. Bookkept([l EXCEPT !.episodes = E], t)
    BY <1>2, <1>3, <1>4 DEF Bookkept
  <1> QED BY <1>1, <1>2, <1>3, <1>5 DEF E

\* The episodes that have to go before a window can be afforded.
LetGo(l, s) ==
  {e \in l.episodes : s.budget - Spent({f \in l.episodes : f.start >= e.start}) < Floor(s)}

\* The instant named is no earlier than the question, the end of the cooldown and the
\* end of each episode that has to go, and it is one of them.
LEMMA NextEligibleIs ==
  ASSUME NEW l, NEW t \in Nat, NEW s \in SettingsChoices,
         l \in Ledgers, IsFiniteSet(l.episodes)
  PROVE  LET next == NextEligible(l, t, s)
         IN  /\ next \in Nat /\ next >= t /\ next >= l.coolUntil
             /\ \A e \in LetGo(l, s) : next >= e.start + s.interval
             /\ \/ next = t \/ next = l.coolUntil
                \/ \E e \in LetGo(l, s) : next = e.start + s.interval
  <1> DEFINE ends == {e.start + s.interval : e \in LetGo(l, s)}
             instants == {t, l.coolUntil} \cup ends
             g == [e \in LetGo(l, s) |-> e.start + s.interval]
  <1>1. IsFiniteSet(ends)
    <2>1. IsFiniteSet(LetGo(l, s))
      BY FS_Subset DEF LetGo
    <2>2. g \in Surjection(LetGo(l, s), ends)
      BY DEF Surjection
    <2> HIDE DEF ends, g
    <2> QED BY <2>1, <2>2, FS_Surjection
  <1>2. IsFiniteSet(instants)
    <2>1. IsFiniteSet({t, l.coolUntil})
      <3>1. IsFiniteSet({t}) /\ IsFiniteSet({l.coolUntil})
        BY FS_Singleton
      <3>2. {t, l.coolUntil} = {t} \cup {l.coolUntil}
        OBVIOUS
      <3> QED BY <3>1, <3>2, FS_Union
    <2> HIDE DEF ends
    <2> QED BY <2>1, <1>1, FS_Union
  <1>3. instants \in SUBSET Nat
    <2>1. \A e \in LetGo(l, s) : e.start \in Nat
      BY DEF Ledgers, Episodes, LetGo
    <2>2. s.interval \in Nat /\ l.coolUntil \in Nat
      BY SettingsAssumption DEF Ledgers
    <2> QED BY <2>1, <2>2
  <1>4. NextEligible(l, t, s) = Max(instants)
    BY DEF NextEligible, LetGo
  <1>5. t \in instants /\ l.coolUntil \in instants
        /\ \A e \in LetGo(l, s) : e.start + s.interval \in instants
    OBVIOUS
  <1>6. \A x \in instants : \/ x = t \/ x = l.coolUntil
                            \/ \E e \in LetGo(l, s) : x = e.start + s.interval
    OBVIOUS
  <1> HIDE DEF instants
  <1>7. Max(instants) \in instants /\ \A x \in instants : Max(instants) >= x
    <2>1. instants \in SUBSET Int /\ instants # {}
      BY <1>3, <1>5
    <2> QED BY <2>1, <1>2, SetMaximum
  <1> QED BY <1>3, <1>4, <1>5, <1>6, <1>7

LEMMA NextEligibleType ==
  ASSUME NEW l, NEW t \in Nat, NEW s \in SettingsChoices, Bookkept(l, t)
  PROVE  NextEligible(l, t, s) \in Nat /\ NextEligible(l, t, s) >= t
  BY NextEligibleIs DEF Bookkept

\* The shortest window is worth something.
LEMMA FloorType ==
  ASSUME NEW s \in SettingsChoices, s.window > 0
  PROVE  Floor(s) \in Nat \ {0} /\ Floor(s) <= s.window
  BY SettingsAssumption, NumbersAssumption DEF Floor, Least

\* Halving leaves a natural number no greater.
LEMMA ShiftType ==
  ASSUME NEW w \in Nat, NEW run \in Nat
  PROVE  /\ w \div Shifts[1 + Least(run, BackoffSteps)] \in Nat
         /\ w \div Shifts[1 + Least(run, BackoffSteps)] <= w
  <1>1. 1 + Least(run, BackoffSteps) \in 1 .. 5
    BY DEF Least, BackoffSteps
  <1>2. Shifts[1 + Least(run, BackoffSteps)] \in {1, 2, 4, 8, 16}
    BY <1>1 DEF Shifts
  <1> QED BY <1>2

-----------------------------------------------------------------------------
(* The answer to a drop. *)

\* One window is open on the ledger, granted dur at t.
OpenedAt(l, t, dur) ==
  \E n \in l.episodes :
    /\ n.start = t /\ n.granted = dur /\ ~n.settled
    /\ \A e \in l.episodes : e.settled \/ e = n

\* A grant is for no longer than the configured window, and leaves it as the one that
\* is open; a refusal leaves none and names an instant.
LEMMA GrantType ==
  ASSUME NEW l, NEW t \in Nat, NEW s \in SettingsChoices, s.window > 0,
         NEW uptime \in Nat, NEW goodExit \in BOOLEAN, Bookkept(l, t)
  PROVE  LET g == Grant(l, t, uptime, goodExit, s)
         IN  /\ g.dur \in Nat /\ g.dur <= s.window /\ g.next \in Nat
             /\ Bookkept(g.ledger, t)
             /\ g.dur = 0 => \A e \in g.ledger.episodes : e.settled
             /\ g.dur > 0 => OpenedAt(g.ledger, t, g.dur)
  <1> DEFINE settled == Settle(l, t)
             E == OnTheBooks(settled, t, s)
             books == [settled EXCEPT !.episodes = E]
             recovered == goodExit \/ (s.minUptime > 0 /\ uptime >= s.minUptime)
             fast == uptime > 0 /\ ~recovered /\ s.minUptime > 0
             run == IF fast THEN l.shortRun + 1 ELSE 0
             want == Greatest(Floor(s), s.window \div Shifts[1 + Least(run, BackoffSteps)])
             left == s.budget - Spent(books.episodes)
             dur == CutDown(want, left)
             no == (t < l.coolUntil /\ ~recovered) \/ left < Floor(s)
             new == [start |-> t, granted |-> dur, actual |-> 0, settled |-> FALSE]
             cool == IF fast THEN t + Least(s.window * run, s.interval) ELSE 0
             after == [episodes |-> books.episodes \cup {new},
                       shortRun |-> run, coolUntil |-> cool]
             refused == [dur |-> 0, next |-> NextEligible(books, t, s), ledger |-> books]
             granted == [dur |-> dur, next |-> 0, ledger |-> after]
             g == Grant(l, t, uptime, goodExit, s)
  <1>0. s.window \in Nat /\ s.budget \in Nat /\ s.interval \in Nat
    BY SettingsAssumption
  <1>1. g = IF no THEN refused ELSE granted
    <2>1. s.window # 0
      BY <1>0
    <2> QED BY <2>1 DEF Grant
  <1>2. /\ Bookkept(settled, t) /\ \A e \in settled.episodes : e.settled
    BY SettleType
  <1>3. /\ Bookkept(books, t) /\ books.episodes = E /\ E \subseteq settled.episodes
        /\ IsFiniteSet(E)
    <2> HIDE DEF settled
    <2> QED BY <1>2, BooksType
  <1>4. \A e \in books.episodes : e.settled
    <2> HIDE DEF books, E, settled
    <2> QED BY <1>2, <1>3
  <1>5. NextEligible(books, t, s) \in Nat
    <2> HIDE DEF books
    <2> QED BY <1>3, NextEligibleType
  <1>6. Spent(books.episodes) \in Nat
    <2>1. E \in SUBSET Episodes
      <3> HIDE DEF books, E
      <3> QED BY <1>3 DEF Bookkept, Ledgers
    <2> HIDE DEF books, E
    <2> QED BY <2>1, <1>3, SpentType
  <1>7. run \in Nat
    <2>1. l.shortRun \in Nat
      BY DEF Bookkept, Ledgers
    <2> QED BY <2>1
  <1>8. want \in Nat \ {0} /\ want <= s.window /\ want >= Floor(s)
    <2> DEFINE half == s.window \div Shifts[1 + Least(run, BackoffSteps)]
    <2>1. half \in Nat /\ half <= s.window
      <3> HIDE DEF run
      <3> QED BY <1>7, <1>0, ShiftType
    <2>2. Floor(s) \in Nat \ {0} /\ Floor(s) <= s.window
      BY FloorType
    <2> HIDE DEF half, run
    <2> QED BY <2>1, <2>2, <1>0 DEF Greatest, half
  <1>9. cool \in Nat
    <2> HIDE DEF run
    <2>1. s.window * run \in Nat
      BY <1>0, <1>7
    <2> QED BY <2>1, <1>0 DEF Least
  <1>10. CASE no
    <2>1. g = refused
      BY <1>1, <1>10
    <2>2. g.dur = 0 /\ g.next = NextEligible(books, t, s) /\ g.ledger = books
      <3> HIDE DEF g, books
      <3> QED BY <2>1
    <2> HIDE DEF g, books, no, refused, granted
    <2> QED BY <2>2, <1>0, <1>3, <1>4, <1>5 DEF g
  <1>11. CASE ~no
    <2>1. g = granted
      BY <1>1, <1>11
    <2>2. g.dur = dur /\ g.next = 0 /\ g.ledger = after
      <3> HIDE DEF g, dur, after
      <3> QED BY <2>1
    <2>3. dur \in Nat \ {0} /\ dur <= s.window
      <3>1. left >= Floor(s) /\ Floor(s) \in Nat \ {0}
        <4> HIDE DEF left
        <4>1. left \in Int
          BY <1>6, <1>0 DEF left
        <4> QED BY <1>11, <4>1, FloorType
      <3>2. left \in Int
        <4> HIDE DEF books
        <4> QED BY <1>6, <1>0
      <3> HIDE DEF want, left
      <3> QED BY <3>1, <3>2, <1>8, <1>0 DEF CutDown, Least
    <2>4. new \in Episodes /\ new.start = t /\ new.granted = dur /\ ~new.settled
          /\ new.actual = 0
      <3> HIDE DEF dur
      <3> QED BY <2>3 DEF Episodes
    <2>5. after.episodes = books.episodes \cup {new}
      OBVIOUS
    <2>6. after \in Ledgers
      <3> HIDE DEF new, books, cool, run
      <3>1. books.episodes \in SUBSET Episodes
        BY <1>3 DEF Bookkept, Ledgers
      <3> QED BY <3>1, <2>4, <1>7, <1>9 DEF Ledgers
    <2>7. IsFiniteSet(after.episodes)
      <3> HIDE DEF new, books, after
      <3> QED BY <2>5, <1>3, FS_AddElement
    <2>8. Bookkept(after, t)
      <3> HIDE DEF new, books, after, dur
      <3>1. \A e \in after.episodes : e.start <= t /\ e.actual <= e.granted
        BY <2>5, <2>4, <2>3, <1>3 DEF Bookkept
      <3> QED BY <3>1, <2>6, <2>7 DEF Bookkept
    <2>9. OpenedAt(after, t, dur)
      <3> HIDE DEF new, books, after, dur
      <3> QED BY <2>4, <2>5, <1>4 DEF OpenedAt
    <2> HIDE DEF g, dur, after, no
    <2> QED BY <2>2, <2>3, <2>8, <2>9 DEF g
  <1> QED BY <1>10, <1>11

-----------------------------------------------------------------------------
(* The invariant: the types, and that the episodes are finite. *)

Inv == TypeOK /\ IsFiniteSet(ledger.episodes)

OneOpen(l) == \A e \in l.episodes : ~e.settled => \A f \in l.episodes : f.settled \/ f = e

\* The invariant in the terms of the lemmas.
LEMMA InvIs ==
  Inv <=> /\ now \in Nat /\ settings \in SettingsChoices
          /\ Bookkept(ledger, now) /\ OneOpen(ledger)
          /\ refusal \in SUBSET Refusals
          /\ relaxed \in SUBSET (now - Horizon .. now - 1)
  BY DEF Inv, TypeOK, Bookkept, OneOpen

LEMMA InvNext ==
  ASSUME now' \in Nat, settings' \in SettingsChoices,
         Bookkept(ledger', now'), OneOpen(ledger'), refusal' \in SUBSET Refusals,
         relaxed' \in SUBSET (now' - Horizon .. now' - 1)
  PROVE  Inv'
  BY DEF Inv, TypeOK, Bookkept, OneOpen

\* A question leaves a ledger whose only open window is the one it opened.
LEMMA AskForType ==
  ASSUME Inv, NEW uptime \in Nat, NEW goodExit \in BOOLEAN, NEW ok \in BOOLEAN,
         AskFor(uptime, goodExit, ok)
  PROVE  LET g == Grant(ledger, now, uptime, goodExit, settings)
         IN  /\ g.dur \in Nat /\ g.dur <= settings.window
             /\ Bookkept(ledger', now) /\ OneOpen(ledger')
             /\ refusal' \in SUBSET Refusals
             /\ IF g.dur > 0 /\ ok THEN OpenedAt(ledger', now, g.dur)
                                   ELSE \A e \in ledger'.episodes : e.settled
  <1> DEFINE g == Grant(ledger, now, uptime, goodExit, settings)
  <1>0. now \in Nat /\ settings \in SettingsChoices /\ Bookkept(ledger, now)
    BY InvIs
  <1>1. /\ g.dur \in Nat /\ g.dur <= settings.window /\ g.next \in Nat
        /\ Bookkept(g.ledger, now)
        /\ g.dur = 0 => \A e \in g.ledger.episodes : e.settled
        /\ g.dur > 0 => OpenedAt(g.ledger, now, g.dur)
    BY <1>0, GrantType DEF AskFor
  <1>2. /\ ledger' = IF ok THEN g.ledger ELSE Settle(g.ledger, now)
        /\ refusal' = IF g.dur > 0 THEN {}
                      ELSE {[uptime |-> uptime, goodExit |-> goodExit, next |-> g.next,
                             under |-> settings]}
    BY DEF AskFor
  <1> HIDE DEF g
  <1>3. refusal' \in SUBSET Refusals
    BY <1>0, <1>1, <1>2 DEF Refusals
  <1>4. Bookkept(ledger', now)
    BY <1>0, <1>1, <1>2, SettleType
  <1>5. IF g.dur > 0 /\ ok THEN OpenedAt(ledger', now, g.dur)
                           ELSE \A e \in ledger'.episodes : e.settled
    <2>1. CASE ok
      BY <1>1, <1>2, <2>1
    <2>2. CASE ~ok
      BY <1>0, <1>1, <1>2, <2>2, SettleType
    <2> QED BY <2>1, <2>2
  <1>6. OneOpen(ledger')
    BY <1>5 DEF OpenedAt, OneOpen
  <1> QED BY <1>1, <1>3, <1>4, <1>5, <1>6 DEF g

\* A ledger that was kept at one instant is kept at a later one.
LEMMA LaterBookkept ==
  ASSUME NEW l, NEW t \in Nat, NEW u \in Nat, t <= u, Bookkept(l, t)
  PROVE  Bookkept(l, u)
  BY DEF Bookkept, Ledgers, Episodes

LEMMA InitType == Init => Inv
  <1> SUFFICES ASSUME Init PROVE Inv
    OBVIOUS
  <1>1. ledger \in Ledgers /\ ledger.episodes = {}
    BY DEF Init, Ledgers
  <1>2. Bookkept(ledger, now) /\ OneOpen(ledger)
    BY <1>1, FS_EmptySet DEF Bookkept, OneOpen
  <1> QED BY <1>2, InvIs DEF Init

LEMMA DropType ==
  ASSUME Inv, NEW u \in Uptimes, NEW good \in BOOLEAN, NEW ok \in BOOLEAN,
         Drop(u, good, ok)
  PROVE  Inv'
  <1>1. u \in Nat
    BY NumbersAssumption
  <1>2. Bookkept(ledger', now) /\ OneOpen(ledger') /\ refusal' \in SUBSET Refusals
    BY <1>1, AskForType DEF Drop
  <1> QED BY <1>2, InvIs, InvNext DEF Drop

LEMMA RetryType ==
  ASSUME Inv, NEW ok \in BOOLEAN, Retry(ok)
  PROVE  Inv'
  <1>1. PICK r \in refusal : AskFor(r.uptime, r.goodExit, ok)
    BY DEF Retry
  <1>2. r.uptime \in Nat /\ r.goodExit \in BOOLEAN
    BY <1>1, InvIs DEF Refusals
  <1>3. Bookkept(ledger', now) /\ OneOpen(ledger') /\ refusal' \in SUBSET Refusals
    BY <1>1, <1>2, AskForType
  <1> QED BY <1>3, InvIs, InvNext DEF Retry

\* A window that closes leaves none open.
LEMMA SettledLedger ==
  ASSUME Inv, ledger' = Settle(ledger, now)
  PROVE  /\ Bookkept(ledger', now) /\ OneOpen(ledger')
         /\ \A e \in ledger'.episodes : e.settled
  <1>1. Bookkept(ledger', now) /\ \A e \in ledger'.episodes : e.settled
    BY InvIs, SettleType
  <1> QED BY <1>1 DEF OneOpen

LEMMA WindowClosesType ==
  ASSUME Inv, WindowCloses
  PROVE  Inv'
  BY SettledLedger, InvIs, InvNext DEF WindowCloses

LEMMA ReloadType ==
  ASSUME Inv, NEW s \in SettingsChoices, Reload(s)
  PROVE  Inv'
  BY InvIs, InvNext DEF Reload

LEMMA TickType ==
  ASSUME Inv, Tick
  PROVE  Inv'
  <1>1. now \in Nat /\ now' = now + 1 /\ UNCHANGED <<settings, ledger, refusal>>
    BY InvIs DEF Tick
  <1>2. Bookkept(ledger, now')
    BY <1>1, LaterBookkept, InvIs
  <1>3. relaxed' \in SUBSET (now' - Horizon .. now' - 1)
    <2>1. \A t \in relaxed : t \in now - Horizon .. now - 1
      BY InvIs
    <2>2. \A t \in relaxed' : (t \in relaxed /\ t >= now' - Horizon) \/ t = now
      BY DEF Tick
    <2> SUFFICES ASSUME NEW t \in relaxed' PROVE t \in now' - Horizon .. now' - 1
      OBVIOUS
    <2> QED BY <1>1, <2>1, <2>2, HorizonType
  <1> QED BY <1>1, <1>2, <1>3, InvIs, InvNext

LEMMA LedgerInvariant == Spec => []Inv
  <1>1. Init => Inv
    BY InitType
  <1>2. Inv /\ [Next]_vars => Inv'
    <2> SUFFICES ASSUME Inv, [Next]_vars PROVE Inv'
      OBVIOUS
    <2>1. ASSUME NEW u \in Uptimes, NEW good \in BOOLEAN, NEW ok \in BOOLEAN,
                 Drop(u, good, ok)
          PROVE  Inv'
      BY <2>1, DropType
    <2>2. ASSUME NEW ok \in BOOLEAN, Retry(ok) PROVE Inv'
      BY <2>2, RetryType
    <2>3. CASE WindowCloses
      BY <2>3, WindowClosesType
    <2>4. ASSUME NEW s \in SettingsChoices, Reload(s) PROVE Inv'
      BY <2>4, ReloadType
    <2>5. CASE Tick
      BY <2>5, TickType
    <2>6. CASE UNCHANGED vars
      BY <2>6 DEF Inv, TypeOK, vars
    <2> QED BY <2>1, <2>2, <2>3, <2>4, <2>5, <2>6 DEF Next
  <1> QED BY <1>1, <1>2, PTL DEF Spec

\* Nothing is granted in the future, nothing costs more than it was granted and at most
\* one window is open, for all settings.
THEOREM LedgerTypeCorrect == Spec => []TypeOK
  <1>1. Inv => TypeOK
    BY DEF Inv
  <1> QED BY <1>1, LedgerInvariant, PTL

-----------------------------------------------------------------------------
(* What is said to remain. *)

\* A ledger on which everything has ended is left as it is.
LEMMA SettledStays ==
  ASSUME NEW l \in Ledgers, NEW t, \A e \in l.episodes : e.settled
  PROVE  Settle(l, t) = l
  <1> DEFINE E == {IF e.settled THEN e
                   ELSE [e EXCEPT !.actual = Least(t - e.start, e.granted),
                                  !.settled = TRUE] : e \in l.episodes}
  <1>1. E = l.episodes
    OBVIOUS
  <1>2. Settle(l, t) = [l EXCEPT !.episodes = E]
    BY DEF Settle
  <1> HIDE DEF E
  <1> QED BY <1>1, <1>2 DEF Ledgers

\* With no window open there is nothing to settle.
LEMMA NothingToSettle ==
  ASSUME Inv, OpenEpisodes = {}
  PROVE  Settle(ledger, now) = ledger
  BY SettledStays DEF Inv, TypeOK, OpenEpisodes

\* The answer to a drop after a healthy uptime: no cooldown binds it and nothing
\* shortens it but the budget.
LEMMA RecoveredGrant ==
  ASSUME Inv, OpenEpisodes = {}, settings.window > 0
  PROVE  LET left == settings.budget - Spent(OnTheBooks(ledger, now, settings))
         IN  Grant(ledger, now, 0, TRUE, settings).dur =
               IF left < Floor(settings) THEN 0 ELSE Least(settings.window, left)
  <1> DEFINE s == settings
             E == OnTheBooks(ledger, now, s)
             books == [ledger EXCEPT !.episodes = E]
             want == Greatest(Floor(s), s.window \div Shifts[1 + Least(0, BackoffSteps)])
             left == s.budget - Spent(books.episodes)
  <1>1. books.episodes = E
    BY BooksType, InvIs
  <1>2. s.window \in Nat /\ s.window # 0 /\ s \in SettingsChoices
    BY InvIs, SettingsAssumption
  <1>3. want = s.window
    <2>1. 1 + Least(0, BackoffSteps) = 1
      BY DEF Least, BackoffSteps
    <2>2. Shifts[1] = 1
      BY DEF Shifts
    <2>3. s.window \div 1 = s.window
      BY <1>2
    <2>4. Floor(s) \in Nat /\ Floor(s) <= s.window
      BY <1>2, FloorType
    <2> QED BY <2>1, <2>2, <2>3, <2>4, <1>2 DEF Greatest
  <1>4. Settle(ledger, now) = ledger
    BY NothingToSettle
  <1>5. Grant(ledger, now, 0, TRUE, s).dur =
          IF left < Floor(s) THEN 0 ELSE CutDown(want, left)
    BY <1>2, <1>4 DEF Grant
  <1>6. left = s.budget - Spent(E)
    BY <1>1
  <1> HIDE DEF books, want, left, E
  <1> QED BY <1>3, <1>5, <1>6 DEF CutDown, E

\* What a snapshot says remains of the budget is what a decision made at that moment
\* would grant from.
THEOREM LedgerRemainingIsHonest == Spec => []RemainingIsHonest
  <1>1. Inv => RemainingIsHonest
    <2> SUFFICES ASSUME Inv, OpenEpisodes = {}, settings.window > 0
                 PROVE  LET left == Remaining(ledger, now, settings)
                        IN  Grant(ledger, now, 0, TRUE, settings).dur =
                              IF left < Floor(settings) THEN 0
                              ELSE Least(settings.window, left)
      BY DEF RemainingIsHonest
    <2> DEFINE left == settings.budget - Spent(OnTheBooks(ledger, now, settings))
    <2>1. left \in Int
      <3>1. Bookkept(ledger, now) /\ now \in Nat /\ settings \in SettingsChoices
        BY InvIs
      <3>2. OnTheBooks(ledger, now, settings) \in SUBSET Episodes
            /\ IsFiniteSet(OnTheBooks(ledger, now, settings))
        BY <3>1, BooksType DEF Bookkept, Ledgers
      <3>3. Spent(OnTheBooks(ledger, now, settings)) \in Nat
        BY <3>2, SpentType
      <3> QED BY <3>1, <3>3, SettingsAssumption
    <2>2. Floor(settings) \in Nat \ {0}
      BY FloorType, InvIs
    <2>3. Remaining(ledger, now, settings) = Greatest(0, left)
      BY DEF Remaining
    <2>4. Grant(ledger, now, 0, TRUE, settings).dur =
            IF left < Floor(settings) THEN 0 ELSE Least(settings.window, left)
      BY RecoveredGrant
    <2> HIDE DEF left
    <2>5. CASE left < Floor(settings)
      <3>1. Greatest(0, left) < Floor(settings)
        BY <2>1, <2>2, <2>5 DEF Greatest
      <3> QED BY <2>3, <2>4, <2>5, <3>1
    <2>6. CASE ~(left < Floor(settings))
      <3>1. Greatest(0, left) = left
        BY <2>1, <2>2, <2>6 DEF Greatest
      <3> QED BY <2>3, <2>4, <2>6, <3>1
    <2> QED BY <2>5, <2>6
  <1> QED BY <1>1, LedgerInvariant, PTL

-----------------------------------------------------------------------------
(* The bound on relaxation.  The ledger sums whole episodes, and drops one when *)
(* its start is an interval old: the part of it still inside the interval is   *)
(* then on no account.  What saves the bound is the order in which it leaves:  *)
(* such a part begins the interval, so each instant a new window adds at one   *)
(* end is paid for by one that goes at the other.                              *)

\* The instants an episode was, or while it is open may be, relaxed for.
Span(e) == e.start .. e.start + Cost(e) - 1

Covered(E, u) == \E e \in E : u \in Span(e)

\* A closed window is charged for nothing still to come.
Ended(E) == \A e \in E : e.settled => e.start + e.actual <= now

\* An episode on the ledger was relaxed for all it is charged for.
Recorded(E) ==
  \A e \in E : \A t \in Span(e) : (now - Horizon <= t /\ t < now) => t \in relaxed

\* A relaxed instant on no account has only relaxed instants before it.
LeavesInOrder(E) ==
  \A u \in relaxed : Covered(E, u) \/ (now - Horizon .. u) \subseteq relaxed

\* The instants that were relaxed, and those the open window may yet relax.
Promised(E) ==
  {t \in Nat : t >= now /\ \E e \in E : ~e.settled /\ t < e.start + e.granted}
Ahead(E) == relaxed \cup Promised(E)

Bound == Max({s.budget : s \in SettingsChoices})

Within(S, x) == S \cap (x - Horizon .. x - 1)
WithinBudget(E) == \A x \in Int : Cardinality(Within(Ahead(E), x)) <= Bound

BoundInv ==
  /\ Inv
  /\ Ended(ledger.episodes) /\ Recorded(ledger.episodes)
  /\ LeavesInOrder(ledger.episodes) /\ WithinBudget(ledger.episodes)

\* No settings have a budget above the bound or an interval below the horizon.
LEMMA BoundType ==
  ASSUME IsFiniteSet(SettingsChoices)
  PROVE  /\ Bound \in Nat
         /\ \A s \in SettingsChoices : s.budget <= Bound /\ Horizon <= s.interval
  <1> DEFINE budgets == {s.budget : s \in SettingsChoices}
             intervals == {s.interval : s \in SettingsChoices}
             f == [s \in SettingsChoices |-> s.budget]
  <1>1. IsFiniteSet(budgets)
    <2>1. f \in Surjection(SettingsChoices, budgets)
      BY DEF Surjection
    <2> QED BY <2>1, FS_Surjection
  <1>2. budgets \in SUBSET Nat /\ intervals \in SUBSET Nat
    BY SettingsAssumption
  <1>3. budgets # {} /\ intervals # {}
    BY SettingsAssumption
  <1>4. \A s \in SettingsChoices : s.budget \in budgets /\ s.interval \in intervals
    OBVIOUS
  <1>5. Bound = Max(budgets) /\ Horizon = Min(intervals)
    BY DEF Bound, Horizon
  <1> HIDE DEF budgets, intervals
  <1>6. Max(budgets) \in budgets /\ \A x \in budgets : Max(budgets) >= x
    BY <1>1, <1>2, <1>3, SetMaximum
  <1>7. Min(intervals) \in intervals /\ \A x \in intervals : Min(intervals) <= x
    BY <1>2, <1>3, NaturalMinimum
  <1> QED BY <1>2, <1>4, <1>5, <1>6, <1>7

\* What is seen of a set from an instant is finite.
LEMMA WithinFinite ==
  ASSUME NEW S, NEW x \in Int
  PROVE  IsFiniteSet(Within(S, x))
  <1>1. IsFiniteSet(x - Horizon .. x - 1)
    BY HorizonType, FS_Interval
  <1> QED BY <1>1, FS_Subset DEF Within

\* Fewer promises break no bound.
LEMMA WithinMonotone ==
  ASSUME NEW S, NEW T, S \subseteq T, NEW x \in Int, NEW b \in Int,
         Cardinality(Within(T, x)) <= b
  PROVE  Cardinality(Within(S, x)) <= b
  <1>1. IsFiniteSet(Within(T, x)) /\ IsFiniteSet(Within(S, x))
    BY WithinFinite
  <1>2. Within(S, x) \in SUBSET Within(T, x)
    BY DEF Within
  <1>3. Cardinality(Within(S, x)) <= Cardinality(Within(T, x))
    BY <1>1, <1>2, FS_Subset
  <1>4. Cardinality(Within(S, x)) \in Nat /\ Cardinality(Within(T, x)) \in Nat
    BY <1>1, FS_CardinalityType
  <1> QED BY <1>3, <1>4

\* The bound on what is ahead is one on what has been.
LEMMA RelaxedWithin ==
  ASSUME Inv, NEW E, WithinBudget(E)
  PROVE  relaxed = Within(relaxed, now) /\ Cardinality(relaxed) <= Bound
         /\ IsFiniteSet(relaxed)
  <1>1. now \in Int /\ relaxed \in SUBSET (now - Horizon .. now - 1)
    BY InvIs
  <1>2. relaxed = Within(relaxed, now)
    BY <1>1 DEF Within
  <1>3. Within(Ahead(E), now) = relaxed
    <2>1. Promised(E) \cap (now - Horizon .. now - 1) = {}
      BY <1>1, HorizonType DEF Promised
    <2> QED BY <2>1, <1>1 DEF Within, Ahead
  <1>4. Cardinality(relaxed) <= Bound
    BY <1>1, <1>3 DEF WithinBudget
  <1> QED BY <1>1, <1>2, <1>4, WithinFinite

-----------------------------------------------------------------------------
(* What a question does to the episodes. *)

\* Whether no window is opened at t, by a drop whose tunnel had recovered or not.
Refuses(l, t, recovered, s) ==
  \/ t < l.coolUntil /\ ~recovered
  \/ s.budget - Spent(OnTheBooks(l, t, s)) < Floor(s)

Recovered(uptime, goodExit, s) == goodExit \/ (s.minUptime > 0 /\ uptime >= s.minUptime)

\* The answer on a ledger where everything has ended.
LEMMA GrantIs ==
  ASSUME NEW l, NEW t \in Nat, NEW s \in SettingsChoices, s.window > 0,
         NEW uptime \in Nat, NEW goodExit \in BOOLEAN,
         Bookkept(l, t), \A e \in l.episodes : e.settled
  PROVE  LET E == OnTheBooks(l, t, s)
             books == [l EXCEPT !.episodes = E]
             g == Grant(l, t, uptime, goodExit, s)
         IN  IF Refuses(l, t, Recovered(uptime, goodExit, s), s)
             THEN g.dur = 0 /\ g.next = NextEligible(books, t, s) /\ g.ledger = books
             ELSE /\ g.dur \in Nat \ {0} /\ g.dur <= s.budget - Spent(E)
                  /\ g.ledger.episodes = E \cup
                       {[start |-> t, granted |-> g.dur, actual |-> 0, settled |-> FALSE]}
  <1> DEFINE E == OnTheBooks(l, t, s)
             books == [l EXCEPT !.episodes = E]
             recovered == Recovered(uptime, goodExit, s)
             fast == uptime > 0 /\ ~recovered /\ s.minUptime > 0
             run == IF fast THEN l.shortRun + 1 ELSE 0
             want == Greatest(Floor(s), s.window \div Shifts[1 + Least(run, BackoffSteps)])
             left == s.budget - Spent(books.episodes)
             dur == CutDown(want, left)
             no == (t < l.coolUntil /\ ~recovered) \/ left < Floor(s)
             cool == IF fast THEN t + Least(s.window * run, s.interval) ELSE 0
             new == [start |-> t, granted |-> dur, actual |-> 0, settled |-> FALSE]
             after == [episodes |-> books.episodes \cup {new},
                       shortRun |-> run, coolUntil |-> cool]
             refused == [dur |-> 0, next |-> NextEligible(books, t, s), ledger |-> books]
             granted == [dur |-> dur, next |-> 0, ledger |-> after]
             g == Grant(l, t, uptime, goodExit, s)
  <1>1. s.window \in Nat /\ s.window # 0 /\ s.budget \in Nat /\ l \in Ledgers
    BY SettingsAssumption DEF Bookkept
  <1>2. Settle(l, t) = l
    BY <1>1, SettledStays
  <1>3. g = IF no THEN refused ELSE granted
    BY <1>1, <1>2 DEF Grant, Recovered
  <1>4. books.episodes = E /\ E \in SUBSET Episodes /\ IsFiniteSet(E)
    <2>1. books.episodes = E /\ E \subseteq l.episodes /\ IsFiniteSet(E)
      BY BooksType
    <2> HIDE DEF books, E
    <2> QED BY <2>1, <1>1 DEF Ledgers
  <1>5. left = s.budget - Spent(E) /\ left \in Int
    <2> HIDE DEF E
    <2>1. Spent(E) \in Nat
      BY <1>4, SpentType
    <2> QED BY <2>1, <1>1, <1>4
  <1>6. no <=> Refuses(l, t, recovered, s)
    <2> HIDE DEF left, recovered
    <2> QED BY <1>5 DEF Refuses
  <1>7. CASE no
    <2>1. g = refused
      BY <1>3, <1>7
    <2>2. g.dur = 0 /\ g.next = NextEligible(books, t, s) /\ g.ledger = books
      <3> HIDE DEF g, books
      <3> QED BY <2>1
    <2> HIDE DEF g, no
    <2> QED BY <2>2, <1>6, <1>7 DEF g
  <1>8. CASE ~no
    <2>1. g = granted
      BY <1>3, <1>8
    <2>2. g.dur = dur /\ g.ledger = after
      <3> HIDE DEF g, dur, after
      <3> QED BY <2>1
    <2>3. Floor(s) \in Nat \ {0} /\ left >= Floor(s)
      <3>1. Floor(s) \in Nat \ {0}
        BY FloorType
      <3> HIDE DEF left
      <3> QED BY <1>8, <3>1, <1>5
    <2>4. dur \in Nat \ {0} /\ dur <= left
      <3>1. want \in Int /\ want >= Floor(s)
        <4>1. l.shortRun \in Nat
          BY <1>1 DEF Ledgers
        <4>2. run \in Nat
          BY <4>1
        <4> HIDE DEF run
        <4>3. s.window \div Shifts[1 + Least(run, BackoffSteps)] \in Nat
          BY <4>2, <1>1, ShiftType
        <4> QED BY <4>3, <2>3 DEF Greatest
      <3> HIDE DEF want, left
      <3> QED BY <3>1, <1>5, <2>3 DEF CutDown, Least
    <2>5. after.episodes = E \cup {new}
      BY <1>4
    <2> HIDE DEF g, no, dur, E, left, after, recovered
    <2> QED BY <1>5, <1>6, <1>8, <2>2, <2>4, <2>5 DEF g, E, recovered
  <1> QED BY <1>7, <1>8

\* The episode a grant of d leaves: open, or closed at once with nothing to its
\* charge when the firewall refused it.
New(d, ok) == [start |-> now, granted |-> d, actual |-> 0, settled |-> ~ok]

\* A question retires what is an interval old.  A refusal does no more, and is kept
\* with the instant it names; a grant adds one episode, of no more than the rest of
\* the budget.
LEMMA Asked ==
  ASSUME Inv, NEW uptime \in Nat, NEW goodExit \in BOOLEAN, NEW ok \in BOOLEAN,
         AskFor(uptime, goodExit, ok)
  PROVE  LET E == OnTheBooks(ledger, now, settings)
         IN  \/ /\ ledger' = [ledger EXCEPT !.episodes = E] /\ ledger'.episodes = E
                /\ \A r \in refusal' : /\ r.under = settings
                                       /\ r.next = NextEligible(ledger', now, settings)
             \/ /\ refusal' = {}
                /\ \E d \in Nat \ {0} : /\ d <= settings.budget - Spent(E)
                                        /\ ledger'.episodes = E \cup {New(d, ok)}
  <1> DEFINE s == settings
             E == OnTheBooks(ledger, now, s)
             books == [ledger EXCEPT !.episodes = E]
             no == Refuses(ledger, now, Recovered(uptime, goodExit, s), s)
             g == Grant(ledger, now, uptime, goodExit, s)
  <1>1. /\ now \in Nat /\ s \in SettingsChoices /\ Bookkept(ledger, now) /\ s.window > 0
        /\ \A e \in ledger.episodes : e.settled
    BY InvIs DEF AskFor, OpenEpisodes
  <1>2. /\ ledger' = IF ok THEN g.ledger ELSE Settle(g.ledger, now)
        /\ refusal' = IF g.dur > 0 THEN {}
                      ELSE {[uptime |-> uptime, goodExit |-> goodExit, next |-> g.next,
                             under |-> s]}
    BY DEF AskFor
  <1>3. IF no
        THEN g.dur = 0 /\ g.next = NextEligible(books, now, s) /\ g.ledger = books
        ELSE /\ g.dur \in Nat \ {0} /\ g.dur <= s.budget - Spent(E)
             /\ g.ledger.episodes = E \cup
                  {[start |-> now, granted |-> g.dur, actual |-> 0, settled |-> FALSE]}
    BY <1>1, GrantIs
  <1>4. /\ books.episodes = E /\ books \in Ledgers /\ E \subseteq ledger.episodes
        /\ Bookkept(g.ledger, now)
    BY <1>1, BooksType, GrantType DEF Bookkept
  <1>5. CASE no
    <2> HIDE DEF g, books, E, no
    <2>1. Settle(books, now) = books
      BY <1>1, <1>4, SettledStays
    <2>2. ledger' = books /\ \A r \in refusal' : r.under = s /\ r.next = g.next
      BY <1>2, <1>3, <1>5, <2>1
    <2> QED BY <2>2, <1>3, <1>4, <1>5 DEF books, E
  <1>6. CASE ~no
    <2> DEFINE n == New(g.dur, TRUE)
               settled(e) == IF e.settled THEN e
                 ELSE [e EXCEPT !.actual = Least(now - e.start, e.granted),
                                !.settled = TRUE]
               F == {settled(e) : e \in g.ledger.episodes}
    <2> HIDE DEF g, E, no
    <2>1. g.dur \in Nat \ {0} /\ g.ledger.episodes = E \cup {n}
      BY <1>3, <1>6 DEF New
    <2>2. Settle(g.ledger, now).episodes = F
      <3>1. Settle(g.ledger, now) = [g.ledger EXCEPT !.episodes = F]
        BY DEF Settle
      <3> HIDE DEF F
      <3> QED BY <3>1, <1>4 DEF Bookkept, Ledgers
    <2>3. \A e \in E : settled(e) = e
      BY <1>1, <1>4
    <2>4. settled(n) = New(g.dur, FALSE)
      <3>1. Least(now - now, g.dur) = 0
        BY <1>1, <2>1 DEF Least
      <3> QED BY <3>1, <1>1 DEF New
    <2> HIDE DEF settled, n
    <2>5. F = {settled(e) : e \in E} \cup {settled(n)} /\ {settled(e) : e \in E} = E
      BY <2>1, <2>3
    <2> HIDE DEF F
    <2>6. ledger'.episodes = E \cup {New(g.dur, ok)}
      <3>1. CASE ok
        BY <3>1, <1>2, <2>1 DEF n
      <3>2. CASE ~ok
        BY <3>2, <1>2, <2>2, <2>4, <2>5
      <3> QED BY <3>1, <3>2
    <2>7. refusal' = {}
      BY <1>2, <2>1
    <2> QED BY <1>3, <1>6, <2>1, <2>6, <2>7 DEF E
  <1> QED BY <1>5, <1>6

-----------------------------------------------------------------------------
(* What a question keeps. *)

\* A map that tells its arguments apart is an injection.
LEMMA InjectionIs ==
  ASSUME NEW S, NEW T, NEW f \in [S -> T], \A a, b \in S : f[a] = f[b] => a = b
  PROVE  f \in Injection(S, T)
  BY DEF Injection, IsInjective

\* Instants that all lie on some account are no more than the accounts add up to.
LEMMA OnAccount ==
  ASSUME NEW E \in SUBSET Episodes, IsFiniteSet(E), NEW S \in SUBSET Int,
         \A t \in S : Covered(E, t)
  PROVE  IsFiniteSet(S) /\ Cardinality(S) <= Spent(E)
  <1> DEFINE U == UNION {{e} \X (1 .. Cost(e)) : e \in E}
             by(t) == CHOOSE e \in E : t \in Span(e)
             f == [t \in S |-> <<by(t), t - by(t).start + 1>>]
  <1>1. \A t \in S : by(t) \in E /\ t \in Span(by(t))
    BY DEF Covered
  <1> HIDE DEF by
  <1>2. \A t \in S : f[t] \in U
    <2> TAKE t \in S
    <2>1. by(t) \in E /\ by(t).start \in Nat /\ Cost(by(t)) \in Nat
      BY <1>1, CostType DEF Episodes
    <2>2. t - by(t).start + 1 \in 1 .. Cost(by(t))
      BY <1>1, <2>1 DEF Span
    <2>3. <<by(t), t - by(t).start + 1>> \in {by(t)} \X (1 .. Cost(by(t)))
      BY <2>2
    <2> QED BY <2>1, <2>3
  <1>3. \A t, u \in S : f[t] = f[u] => t = u
    <2> SUFFICES ASSUME NEW t \in S, NEW u \in S, f[t] = f[u] PROVE t = u
      OBVIOUS
    <2>1. by(t) = by(u) /\ t - by(t).start + 1 = u - by(u).start + 1
      OBVIOUS
    <2>2. by(t).start \in Nat
      BY <1>1 DEF Episodes
    <2> QED BY <2>1, <2>2
  <1>4. f \in Injection(S, U)
    <2>1. f \in [S -> U]
      BY <1>2
    <2> HIDE DEF f
    <2> QED BY <2>1, <1>3, InjectionIs
  <1>5. IsFiniteSet(U)
    BY ChargedFinite
  <1> HIDE DEF U, f
  <1> QED BY <1>4, <1>5, FS_Injection DEF Spent, U

\* What is retired keeps the accounts: what it still holds of the interval begins it.
LEMMA RetiringKeeps ==
  ASSUME BoundInv, IsFiniteSet(SettingsChoices)
  PROVE  LET E == OnTheBooks(ledger, now, settings)
         IN  Ended(E) /\ Recorded(E) /\ LeavesInOrder(E)
  <1> DEFINE E == OnTheBooks(ledger, now, settings)
  <1>1. E \subseteq ledger.episodes
    BY DEF OnTheBooks
  <1>2. Ended(E) /\ Recorded(E)
    BY <1>1 DEF BoundInv, Ended, Recorded
  <1>3. ASSUME NEW u \in relaxed, ~Covered(E, u)
        PROVE  (now - Horizon .. u) \subseteq relaxed
    <2>1. CASE ~Covered(ledger.episodes, u)
      BY <2>1 DEF BoundInv, LeavesInOrder
    <2>2. CASE Covered(ledger.episodes, u)
      <3>1. PICK e \in ledger.episodes : u \in Span(e)
        BY <2>2 DEF Covered
      <3>2. Retired(e, now, settings)
        BY <1>3, <3>1 DEF Covered, OnTheBooks
      <3>3. /\ now \in Nat /\ settings \in SettingsChoices /\ e \in Episodes
            /\ u \in now - Horizon .. now - 1
        BY InvIs DEF BoundInv, Bookkept, Ledgers
      <3>4. settings.interval \in Nat /\ Horizon <= settings.interval
        BY <3>3, BoundType, SettingsAssumption
      <3>5. e.start \in Nat /\ Cost(e) \in Nat /\ e.start <= now - Horizon
        BY <3>2, <3>3, <3>4, HorizonType, CostType DEF Retired, Episodes
      <3>6. ASSUME NEW t \in now - Horizon .. u PROVE t \in relaxed
        <4>1. t \in Span(e)
          BY <3>1, <3>3, <3>5, HorizonType DEF Span
        <4>2. now - Horizon <= t /\ t < now
          BY <3>3, HorizonType
        <4> QED BY <4>1, <4>2 DEF BoundInv, Recorded
      <3> QED BY <3>6
    <2> QED BY <2>1, <2>2
  <1>4. LeavesInOrder(E)
    BY <1>3 DEF LeavesInOrder
  <1> HIDE DEF E
  <1> QED BY <1>2, <1>4 DEF E

\* A new window within the rest of the budget keeps every interval within the bound.
LEMMA GrantWithin ==
  ASSUME BoundInv, IsFiniteSet(SettingsChoices),
         NEW E \in SUBSET Episodes, IsFiniteSet(E), LeavesInOrder(E),
         NEW d \in Nat \ {0}, d <= settings.budget - Spent(E), NEW x \in Int
  PROVE  Cardinality(Within(relaxed \cup (now .. now + d - 1), x)) <= Bound
  <1> DEFINE S == Within(relaxed \cup (now .. now + d - 1), x)
             before == Within(relaxed, x)
             coming == Within(now .. now + d - 1, x)
  <1>1. /\ now \in Nat /\ settings \in SettingsChoices
        /\ relaxed \in SUBSET (now - Horizon .. now - 1)
    BY InvIs DEF BoundInv
  <1>2. IsFiniteSet(relaxed) /\ Cardinality(relaxed) <= Bound
    BY RelaxedWithin DEF BoundInv
  <1>3. Horizon \in Nat \ {0} /\ Bound \in Nat /\ settings.budget \in Nat
        /\ settings.budget <= Bound
    BY <1>1, HorizonType, BoundType, SettingsAssumption
  <1>4. IsFiniteSet(S) /\ IsFiniteSet(before) /\ IsFiniteSet(coming)
    BY WithinFinite
  <1>5. CASE \E u \in relaxed : u >= x - Horizon /\ ~Covered(E, u)
    \* Each new instant is paid for by the one an interval before it.
    <2> DEFINE f == [t \in S |-> IF t < now THEN t ELSE t - Horizon]
    <2>1. PICK u \in relaxed : u >= x - Horizon /\ ~Covered(E, u)
      BY <1>5
    <2>2. (now - Horizon .. u) \subseteq relaxed
      BY <2>1 DEF LeavesInOrder
    <2>3. u \in Int
      BY <1>1
    <2>4. \A t \in S : /\ t \in Int /\ x - Horizon <= t /\ t < x
                       /\ t < now => t \in relaxed
      BY <1>1, <1>3 DEF Within
    <2>5. \A t \in S : f[t] \in relaxed
      <3> TAKE t \in S
      <3>1. CASE t < now
        BY <3>1, <2>4
      <3>2. CASE ~(t < now)
        <4>1. t - Horizon \in now - Horizon .. u
          BY <3>2, <2>1, <2>3, <2>4, <1>1, <1>3
        <4> QED BY <3>2, <4>1, <2>2
      <3> QED BY <3>1, <3>2
    <2>6. \A t, v \in S : f[t] = f[v] => t = v
      <3> SUFFICES ASSUME NEW t \in S, NEW v \in S, f[t] = f[v] PROVE t = v
        OBVIOUS
      <3>1. (IF t < now THEN t ELSE t - Horizon) = (IF v < now THEN v ELSE v - Horizon)
        OBVIOUS
      <3> HIDE DEF S, f
      <3> QED BY <3>1, <2>4, <1>1, <1>3
    <2>7. f \in Injection(S, relaxed)
      <3>1. f \in [S -> relaxed]
        BY <2>5
      <3> HIDE DEF f
      <3> QED BY <3>1, <2>6, InjectionIs
    <2> HIDE DEF f, S
    <2>8. Cardinality(S) <= Cardinality(relaxed)
      BY <2>7, <1>2, FS_Injection
    <2>9. Cardinality(S) \in Nat /\ Cardinality(relaxed) \in Nat
      BY <1>2, <1>4, FS_CardinalityType
    <2>10. Cardinality(S) <= Bound
      BY <2>8, <2>9, <1>2, <1>3
    <2> QED BY <2>10 DEF S
  <1>6. CASE \A u \in relaxed : u >= x - Horizon => Covered(E, u)
    \* Everything the interval holds is on account.
    <2>1. Cardinality(before) <= Spent(E)
      <3>1. before \in SUBSET Int /\ \A t \in before : t \in relaxed /\ t >= x - Horizon
        BY <1>1, <1>3 DEF Within
      <3>2. \A t \in before : Covered(E, t)
        <4> HIDE DEF before
        <4> QED BY <3>1, <1>6
      <3> HIDE DEF before
      <3> QED BY <3>1, <3>2, OnAccount
    <2>2. Cardinality(coming) <= d
      <3>1. IsFiniteSet(now .. now + d - 1) /\ Cardinality(now .. now + d - 1) = d
        <4>1. now \in Int /\ now + d - 1 \in Int /\ ~(now > now + d - 1)
              /\ now + d - 1 - now + 1 = d
          BY <1>1
        <4> QED BY <4>1, FS_Interval
      <3>2. coming \in SUBSET (now .. now + d - 1)
        BY DEF Within
      <3> HIDE DEF coming
      <3> QED BY <3>1, <3>2, FS_Subset
    <2>3. S = before \cup coming
      BY DEF Within
    <2> HIDE DEF S, before, coming
    <2>4. Cardinality(S) = Cardinality(before) + Cardinality(coming)
                             - Cardinality(before \cap coming)
      BY <2>3, <1>4, FS_Union
    <2>5. IsFiniteSet(before \cap coming)
      BY <1>4, FS_Intersection
    <2>6. /\ Cardinality(before) \in Nat /\ Cardinality(coming) \in Nat
          /\ Cardinality(before \cap coming) \in Nat
      BY <1>4, <2>5, FS_CardinalityType
    <2>7. Spent(E) \in Nat
      BY SpentType
    <2>8. Cardinality(S) <= Bound
      BY <2>1, <2>2, <2>4, <2>6, <2>7, <1>3
    <2> QED BY <2>8 DEF S
  <1> QED BY <1>5, <1>6
\* A question that leaves these episodes leaves the bound.
LEMMA BoundStays ==
  ASSUME BoundInv, Inv', UNCHANGED <<now, relaxed>>, NEW F, F = ledger'.episodes,
         Ended(F), Recorded(F), LeavesInOrder(F), WithinBudget(F)
  PROVE  BoundInv'
  BY DEF BoundInv, Ended, Recorded, LeavesInOrder, Covered, Span, Cost,
         WithinBudget, Within, Ahead, Promised

LEMMA AskForBounded ==
  ASSUME IsFiniteSet(SettingsChoices), BoundInv, Inv', UNCHANGED <<now, relaxed>>,
         NEW uptime \in Nat, NEW goodExit \in BOOLEAN, NEW ok \in BOOLEAN,
         AskFor(uptime, goodExit, ok)
  PROVE  BoundInv'
  <1> DEFINE E == OnTheBooks(ledger, now, settings)
  <1>1. Inv /\ now \in Nat /\ Bookkept(ledger, now)
    BY InvIs DEF BoundInv
  <1>2. Ended(E) /\ Recorded(E) /\ LeavesInOrder(E)
    BY RetiringKeeps
  <1>3. /\ E \in SUBSET Episodes /\ IsFiniteSet(E) /\ \A e \in E : e.settled
        /\ \A e \in E : e.start <= now
    <2>1. E \subseteq ledger.episodes /\ IsFiniteSet(E)
      BY <1>1, BooksType
    <2>2. \A e \in ledger.episodes : e.settled
      BY DEF AskFor, OpenEpisodes
    <2> HIDE DEF E
    <2> QED BY <2>1, <2>2, <1>1 DEF Bookkept, Ledgers
  <1>4. \/ ledger'.episodes = E
        \/ \E d \in Nat \ {0} : /\ d <= settings.budget - Spent(E)
                                /\ ledger'.episodes = E \cup {New(d, ok)}
    BY <1>1, Asked
  <1> HIDE DEF E
  <1>5. Promised(E) = {}
    BY <1>3 DEF Promised
  <1>6. WithinBudget(E)
    <2> SUFFICES ASSUME NEW x \in Int PROVE Cardinality(Within(Ahead(E), x)) <= Bound
      BY DEF WithinBudget
    <2>1. Ahead(E) \subseteq Ahead(ledger.episodes)
      BY <1>5 DEF Ahead
    <2>2. Cardinality(Within(Ahead(ledger.episodes), x)) <= Bound
      BY DEF BoundInv, WithinBudget
    <2>3. Bound \in Int
      BY BoundType
    <2> QED BY <2>1, <2>2, <2>3, WithinMonotone
  <1>7. CASE ledger'.episodes = E
    BY <1>2, <1>6, <1>7, BoundStays
  <1>8. ASSUME NEW d \in Nat \ {0}, d <= settings.budget - Spent(E),
               ledger'.episodes = E \cup {New(d, ok)}
        PROVE  BoundInv'
    <2> DEFINE n == New(d, ok)
               F == E \cup {n}
    <2>1. /\ n.start = now /\ n.granted = d /\ n.actual = 0 /\ n.settled = ~ok
          /\ Cost(n) = IF ok THEN d ELSE 0
      BY DEF New, Cost
    <2> HIDE DEF n
    <2>2. Ended(F)
      BY <1>1, <1>2, <2>1 DEF Ended
    <2>3. \A t \in Span(n) : t >= now
      BY <1>1, <2>1 DEF Span
    <2>4. Recorded(F)
      <3> SUFFICES ASSUME NEW e \in F, NEW t \in Span(e), now - Horizon <= t, t < now
                   PROVE  t \in relaxed
        BY DEF Recorded
      <3>1. e # n
        <4> SUFFICES ASSUME e = n PROVE FALSE
          OBVIOUS
        <4>1. t >= now
          BY <2>3
        <4>2. t \in Int
          BY <2>1 DEF Span
        <4> QED BY <4>1, <4>2, <1>1
      <3> QED BY <3>1, <1>2 DEF Recorded
    <2>5. LeavesInOrder(F)
      BY <1>2 DEF LeavesInOrder, Covered
    <2>6. WithinBudget(F)
      <3> SUFFICES ASSUME NEW x \in Int PROVE Cardinality(Within(Ahead(F), x)) <= Bound
        BY DEF WithinBudget
      <3>1. Promised(F) \subseteq now .. now + d - 1
        <4> SUFFICES ASSUME NEW t \in Promised(F) PROVE t \in now .. now + d - 1
          OBVIOUS
        <4>1. t \in Nat /\ t >= now /\ \E e \in F : ~e.settled /\ t < e.start + e.granted
          BY DEF Promised
        <4>2. t < now + d
          BY <4>1, <1>3, <2>1
        <4> QED BY <4>1, <4>2, <1>1
      <3>2. Ahead(F) \subseteq relaxed \cup (now .. now + d - 1)
        BY <3>1 DEF Ahead
      <3>3. Cardinality(Within(relaxed \cup (now .. now + d - 1), x)) <= Bound
        BY <1>2, <1>3, <1>8, GrantWithin
      <3>4. Bound \in Int
        BY BoundType
      <3> HIDE DEF F
      <3> QED BY <3>2, <3>3, <3>4, WithinMonotone
    <2>7. F = ledger'.episodes
      BY <1>8 DEF n
    <2> HIDE DEF F
    <2> QED BY <2>2, <2>4, <2>5, <2>6, <2>7, BoundStays
  <1> QED BY <1>4, <1>7, <1>8

-----------------------------------------------------------------------------
(* What a close and the passing of time keep. *)

\* A close shortens the open window's account to what it took.
LEMMA SettledSpans ==
  ASSUME Inv, Ended(ledger.episodes), ledger' = Settle(ledger, now)
  PROVE  /\ \A f \in ledger'.episodes :
              /\ f.settled /\ f.start + f.actual <= now
              /\ \E e \in ledger.episodes : Span(f) \subseteq Span(e)
         /\ \A u \in Int : (u < now /\ Covered(ledger.episodes, u))
                             => Covered(ledger'.episodes, u)
  <1> DEFINE settled(e) == IF e.settled THEN e
                 ELSE [e EXCEPT !.actual = Least(now - e.start, e.granted),
                                !.settled = TRUE]
             F == {settled(e) : e \in ledger.episodes}
  <1>1. ledger'.episodes = F
    <2>1. Settle(ledger, now) = [ledger EXCEPT !.episodes = F]
      BY DEF Settle
    <2>2. ledger \in Ledgers
      BY InvIs DEF Bookkept
    <2> HIDE DEF F
    <2> QED BY <2>1, <2>2 DEF Ledgers
  <1>2. ASSUME NEW e \in ledger.episodes
        PROVE  /\ settled(e).settled /\ settled(e).start + settled(e).actual <= now
               /\ Span(settled(e)) \subseteq Span(e)
               /\ \A u \in Span(e) : u < now => u \in Span(settled(e))
    <2>1. e \in Episodes /\ e.start <= now /\ now \in Nat /\ e.actual <= e.granted
      BY InvIs DEF Bookkept, Ledgers
    <2>2. CASE e.settled
      BY <2>1, <2>2 DEF Ended
    <2>3. CASE ~e.settled
      <3> DEFINE f == settled(e)
      <3>1. f.start = e.start /\ f.settled /\ f.actual = Least(now - e.start, e.granted)
        BY <2>1, <2>3 DEF Episodes
      <3> HIDE DEF settled, f
      <3>2. e.start \in Nat /\ e.granted \in Nat /\ Cost(e) = e.granted /\ Cost(f) = f.actual
        BY <2>1, <2>3, <3>1 DEF Episodes, Cost
      <3>3. f.actual \in Int /\ f.actual <= e.granted /\ f.actual <= now - e.start
            /\ (f.actual = e.granted \/ f.actual = now - e.start)
        BY <3>1, <3>2, <2>1 DEF Least
      <3>4. f.start + f.actual <= now
        BY <3>1, <3>2, <3>3, <2>1
      <3>5. Span(f) = e.start .. e.start + f.actual - 1
            /\ Span(e) = e.start .. e.start + e.granted - 1
        BY <3>1, <3>2 DEF Span
      <3>6. Span(f) \subseteq Span(e)
        BY <3>2, <3>3, <3>5
      <3>7. \A u \in Span(e) : u < now => u \in Span(f)
        BY <3>2, <3>3, <3>5, <2>1
      <3> QED BY <3>1, <3>4, <3>6, <3>7 DEF f
    <2> QED BY <2>2, <2>3
  <1> HIDE DEF settled
  <1>3. \A f \in F : /\ f.settled /\ f.start + f.actual <= now
                     /\ \E e \in ledger.episodes : Span(f) \subseteq Span(e)
    BY <1>2
  <1>4. ASSUME NEW u \in Int, u < now, Covered(ledger.episodes, u)
        PROVE  Covered(F, u)
    BY <1>2, <1>4 DEF Covered
  <1> HIDE DEF F
  <1> QED BY <1>1, <1>3, <1>4

LEMMA WindowClosesBounded ==
  ASSUME IsFiniteSet(SettingsChoices), BoundInv, Inv', WindowCloses
  PROVE  BoundInv'
  <1> DEFINE E == ledger.episodes
  <1>1. Inv /\ now \in Nat /\ relaxed \in SUBSET (now - Horizon .. now - 1)
    BY InvIs DEF BoundInv
  <1>2. UNCHANGED <<now, relaxed>> /\ ledger' = Settle(ledger, now)
    BY DEF WindowCloses
  <1>3. PICK F : F = ledger'.episodes
    OBVIOUS
  <1>4. /\ \A f \in F : /\ f.settled /\ f.start + f.actual <= now
                        /\ \E e \in E : Span(f) \subseteq Span(e)
        /\ \A u \in Int : (u < now /\ Covered(E, u)) => Covered(F, u)
    BY <1>1, <1>2, <1>3, SettledSpans DEF BoundInv
  <1> HIDE DEF E
  <1>5. Ended(E) /\ Recorded(E) /\ LeavesInOrder(E) /\ WithinBudget(E)
    BY DEF BoundInv, E
  <1>6. Ended(F)
    BY <1>4 DEF Ended
  <1>7. Recorded(F)
    BY <1>4, <1>5 DEF Recorded
  <1>8. LeavesInOrder(F)
    <2> SUFFICES ASSUME NEW u \in relaxed, ~Covered(F, u)
                 PROVE  (now - Horizon .. u) \subseteq relaxed
      BY DEF LeavesInOrder
    <2>1. u \in Int /\ u < now
      BY <1>1, HorizonType
    <2> QED BY <2>1, <1>4, <1>5 DEF LeavesInOrder
  <1>9. WithinBudget(F)
    <2> SUFFICES ASSUME NEW x \in Int PROVE Cardinality(Within(Ahead(F), x)) <= Bound
      BY DEF WithinBudget
    <2>1. Promised(F) = {}
      BY <1>4 DEF Promised
    <2>2. Ahead(F) \subseteq Ahead(E)
      BY <2>1 DEF Ahead
    <2>3. Cardinality(Within(Ahead(E), x)) <= Bound
      BY <1>5 DEF WithinBudget
    <2>4. Bound \in Int
      BY BoundType
    <2> QED BY <2>2, <2>3, <2>4, WithinMonotone
  <1> QED BY <1>2, <1>3, <1>6, <1>7, <1>8, <1>9, BoundStays

LEMMA TickBounded ==
  ASSUME IsFiniteSet(SettingsChoices), BoundInv, Inv', Tick
  PROVE  BoundInv'
  <1> DEFINE E == ledger.episodes
  <1>1. /\ now \in Nat /\ Bookkept(ledger, now)
        /\ relaxed \in SUBSET (now - Horizon .. now - 1)
    BY InvIs DEF BoundInv
  <1>2. Ended(E) /\ Recorded(E) /\ LeavesInOrder(E) /\ WithinBudget(E)
    BY DEF BoundInv
  <1>3. /\ now' = now + 1 /\ ledger' = ledger
        /\ relaxed' = {t \in relaxed : t >= now' - Horizon}
                       \cup {t \in {now} : \E e \in OpenEpisodes : t < e.start + e.granted}
    BY DEF Tick
  <1>0. now' = now + 1 /\ ledger' = ledger
    BY <1>3
  <1>4. \A e \in E : /\ e \in Episodes /\ e.start \in Nat /\ e.actual \in Nat
                     /\ e.granted \in Nat /\ e.start <= now
    BY <1>1 DEF Bookkept, Ledgers, Episodes
  <1>5. now \in relaxed' <=> \E e \in E : ~e.settled /\ now < e.start + e.granted
    <2>1. now \notin relaxed
      BY <1>1, HorizonType
    <2> QED BY <2>1, <1>3 DEF OpenEpisodes
  <1>6. \A t : t \in relaxed' => t = now \/ t \in relaxed
    BY <1>3
  <1>7. \A t \in relaxed : t >= now + 1 - Horizon => t \in relaxed'
    <2>1. \A t \in relaxed : t >= now' - Horizon => t \in relaxed'
      BY <1>3
    <2> QED BY <2>1, <1>0, <1>1, HorizonType
  <1>8. Ended(E)'
    <2> SUFFICES ASSUME NEW e \in E, e.settled PROVE e.start + e.actual <= now + 1
      BY <1>0 DEF Ended
    <2>1. e.start + e.actual <= now
      BY <1>2 DEF Ended
    <2> QED BY <2>1, <1>1, <1>4
  <1>9. Recorded(E)'
    <2> SUFFICES ASSUME NEW e \in E, NEW t \in Span(e),
                        now + 1 - Horizon <= t, t < now + 1
                 PROVE  t \in relaxed'
      BY <1>0, <1>1, HorizonType DEF Recorded, Span, Cost
    <2>1. t \in Int /\ e.start <= t /\ t <= e.start + Cost(e) - 1 /\ Cost(e) \in Nat
      BY <1>4, CostType DEF Span
    <2>2. CASE t < now
      <3>1. now - Horizon <= t
        BY <2>1, <1>1, HorizonType
      <3>2. t \in relaxed
        BY <3>1, <2>2, <1>2 DEF Recorded
      <3> QED BY <3>2, <1>7
    <2>3. CASE t = now
      <3>1. ~e.settled
        <4> SUFFICES ASSUME e.settled PROVE FALSE
          OBVIOUS
        <4>1. e.start + e.actual <= now /\ Cost(e) = e.actual
          BY <1>2 DEF Ended, Cost
        <4> QED BY <4>1, <2>1, <2>3, <1>1, <1>4
      <3>2. now < e.start + e.granted
        BY <3>1, <2>1, <2>3, <1>4 DEF Cost
      <3> QED BY <3>1, <3>2, <2>3, <1>5
    <2> QED BY <2>1, <2>2, <2>3, <1>1
  <1>10. LeavesInOrder(E)'
    <2> SUFFICES ASSUME NEW u \in relaxed', ~Covered(E, u)
                 PROVE  (now + 1 - Horizon .. u) \subseteq relaxed'
      BY <1>0, <1>1, HorizonType DEF LeavesInOrder, Covered, Span, Cost
    <2>1. CASE u = now
      <3>1. PICK e \in E : ~e.settled /\ now < e.start + e.granted
        BY <2>1, <1>5
      <3>2. now \in Span(e)
        BY <3>1, <1>1, <1>4 DEF Span, Cost
      <3> QED BY <3>2, <2>1 DEF Covered
    <2>2. CASE u \in relaxed
      <3>1. (now - Horizon .. u) \subseteq relaxed
        BY <2>2, <1>2 DEF LeavesInOrder
      <3>2. u \in Int
        BY <2>2, <1>1
      <3> SUFFICES ASSUME NEW t \in now + 1 - Horizon .. u PROVE t \in relaxed'
        OBVIOUS
      <3>3. t \in now - Horizon .. u /\ t >= now + 1 - Horizon
        BY <3>2, <1>1, HorizonType
      <3> QED BY <3>1, <3>3, <1>7
    <2> QED BY <2>1, <2>2, <1>6
  <1>11. WithinBudget(E)'
    <2> DEFINE A == relaxed' \cup {t \in Nat : /\ t >= now + 1
                                  /\ \E e \in E : ~e.settled /\ t < e.start + e.granted}
    <2>1. A \subseteq Ahead(E)
      <3> SUFFICES ASSUME NEW t \in A PROVE t \in Ahead(E)
        OBVIOUS
      <3>1. CASE t \in relaxed
        BY <3>1 DEF Ahead
      <3>2. CASE t = now /\ t \in relaxed'
        BY <3>2, <1>1, <1>5 DEF Ahead, Promised
      <3>3. CASE t \in Nat /\ t >= now + 1
                 /\ \E e \in E : ~e.settled /\ t < e.start + e.granted
        BY <3>3, <1>1 DEF Ahead, Promised
      <3> QED BY <3>1, <3>2, <3>3, <1>6
    <2> SUFFICES ASSUME NEW x \in Int PROVE Cardinality(Within(A, x)) <= Bound
      BY <1>0 DEF WithinBudget, Within, Ahead, Promised
    <2>2. Cardinality(Within(Ahead(E), x)) <= Bound
      BY <1>2 DEF WithinBudget
    <2>3. Bound \in Int
      BY BoundType
    <2> HIDE DEF A, E
    <2> QED BY <2>1, <2>2, <2>3, WithinMonotone
  <1> QED BY <1>8, <1>9, <1>10, <1>11 DEF BoundInv

LEMMA InitBounded ==
  ASSUME IsFiniteSet(SettingsChoices), Init
  PROVE  BoundInv
  <1>1. Inv
    BY InitType
  <1>2. ledger.episodes = {} /\ relaxed = {}
    BY DEF Init
  <1>3. Ended(ledger.episodes) /\ Recorded(ledger.episodes)
        /\ LeavesInOrder(ledger.episodes)
    BY <1>2 DEF Ended, Recorded, LeavesInOrder
  <1>4. WithinBudget(ledger.episodes)
    <2> SUFFICES ASSUME NEW x \in Int
                 PROVE  Cardinality(Within(Ahead(ledger.episodes), x)) <= Bound
      BY DEF WithinBudget
    <2>1. Within(Ahead(ledger.episodes), x) = {}
      BY <1>2 DEF Within, Ahead, Promised
    <2> QED BY <2>1, BoundType, FS_EmptySet
  <1> QED BY <1>1, <1>3, <1>4 DEF BoundInv

LEMMA BoundInvariant ==
  ASSUME IsFiniteSet(SettingsChoices)
  PROVE  Spec => []BoundInv
  <1>1. Init => BoundInv
    BY InitBounded
  <1>2. BoundInv /\ [Next]_vars => BoundInv'
    <2> SUFFICES ASSUME BoundInv, [Next]_vars PROVE BoundInv'
      OBVIOUS
    <2>1. Inv
      BY DEF BoundInv
    <2>2. ASSUME NEW u \in Uptimes, NEW good \in BOOLEAN, NEW ok \in BOOLEAN,
                 Drop(u, good, ok)
          PROVE  BoundInv'
      <3>1. u \in Nat /\ Inv'
        BY <2>1, <2>2, DropType, NumbersAssumption
      <3> QED BY <2>2, <3>1, AskForBounded DEF Drop
    <2>3. ASSUME NEW ok \in BOOLEAN, Retry(ok) PROVE BoundInv'
      <3>1. PICK r \in refusal : AskFor(r.uptime, r.goodExit, ok)
        BY <2>3 DEF Retry
      <3>2. r.uptime \in Nat /\ r.goodExit \in BOOLEAN
        BY <2>1, <3>1, InvIs DEF Refusals
      <3>3. Inv' /\ UNCHANGED <<now, relaxed>>
        BY <2>1, <2>3, RetryType DEF Retry
      <3> QED BY <3>1, <3>2, <3>3, AskForBounded
    <2>4. CASE WindowCloses
      BY <2>1, <2>4, WindowClosesType, WindowClosesBounded
    <2>5. ASSUME NEW s \in SettingsChoices, Reload(s) PROVE BoundInv'
      <3>1. Inv' /\ UNCHANGED <<now, relaxed, ledger>>
        BY <2>1, <2>5, ReloadType DEF Reload
      <3> QED BY <3>1, BoundStays DEF BoundInv
    <2>6. CASE Tick
      BY <2>1, <2>6, TickType, TickBounded
    <2>7. CASE UNCHANGED vars
      <3>1. Inv' /\ UNCHANGED <<now, relaxed, ledger>>
        BY <2>1, <2>7 DEF Inv, TypeOK, vars
      <3> QED BY <3>1, BoundStays DEF BoundInv
    <2> QED BY <2>2, <2>3, <2>4, <2>5, <2>6, <2>7 DEF Next
  <1> QED BY <1>1, <1>2, PTL DEF Spec

\* The time automatic windows leave the guard relaxed within any interval stays within
\* the budget, for any finitely many settings the file may hold: whole episodes leave
\* the books, and the bound on real time holds nevertheless.
THEOREM LedgerBoundsRelaxation ==
  ASSUME IsFiniteSet(SettingsChoices)
  PROVE  Spec => []RelaxationIsBounded
  <1>1. BoundInv => RelaxationIsBounded
    BY RelaxedWithin DEF BoundInv, RelaxationIsBounded, Bound
  <1> QED BY <1>1, BoundInvariant, PTL

-----------------------------------------------------------------------------
(* The instant a refusal promises.  A refusal leaves the ledger as it was aged *)
(* and nothing changes it while the refusal stands, so the instant it names is *)
(* still the one the ledger works out; at that instant what stood in the way   *)
(* has left the books, and before it something still stands there.             *)

PromiseInv ==
  /\ Inv
  /\ \A r \in refusal :
       /\ OpenEpisodes = {} /\ r.under.window > 0
       /\ \E t \in Nat : t <= now /\ r.next = NextEligible(ledger, t, r.under)

\* Fewer episodes cost no more.
LEMMA SpentMonotone ==
  ASSUME NEW F \in SUBSET Episodes, IsFiniteSet(F), NEW E \in SUBSET F
  PROVE  Spent(E) <= Spent(F)
  <1> DEFINE C == UNION {{e} \X (1 .. Cost(e)) : e \in E}
             D == UNION {{e} \X (1 .. Cost(e)) : e \in F}
  <1>1. IsFiniteSet(D)
    BY ChargedFinite
  <1>2. C \in SUBSET D
    OBVIOUS
  <1> HIDE DEF C, D
  <1>3. Cardinality(C) <= Cardinality(D)
    BY <1>1, <1>2, FS_Subset
  <1> QED BY <1>3 DEF Spent, C, D

\* Once everything that has to go is off the books, a window can be afforded.
LEMMA Affordable ==
  ASSUME NEW l, NEW t \in Nat, NEW s \in SettingsChoices, Bookkept(l, t), s.window > 0,
         \A e \in l.episodes : e.settled,
         \A e \in LetGo(l, s) : t >= e.start + s.interval
  PROVE  s.budget - Spent(OnTheBooks(l, t, s)) >= Floor(s)
  <1> DEFINE E == OnTheBooks(l, t, s)
             starts == {e.start : e \in E}
  <1>1. /\ E \subseteq l.episodes /\ IsFiniteSet(E)
        /\ l.episodes \in SUBSET Episodes /\ IsFiniteSet(l.episodes)
    BY BooksType DEF Bookkept, Ledgers
  <1>2. /\ s.budget \in Nat /\ s.interval \in Nat /\ Floor(s) \in Nat /\ s.window \in Nat
        /\ s.budget >= Floor(s)
    BY SettingsAssumption, NumbersAssumption DEF Floor, Least
  <1>3. CASE E = {}
    <2>1. Spent(E) = 0
      <3>1. UNION {{e} \X (1 .. Cost(e)) : e \in E} = {}
        BY <1>3
      <3> QED BY <3>1, FS_EmptySet DEF Spent
    <2> QED BY <2>1, <1>2
  <1>4. CASE E # {}
    <2>1. starts \in SUBSET Nat /\ starts # {}
      BY <1>1, <1>4 DEF Episodes
    <2>2. PICK m \in starts : \A x \in starts : m <= x
      <3> HIDE DEF starts
      <3> QED BY <2>1, NaturalMinimum
    <2>3. PICK e \in E : e.start = m
      BY <2>2
    <2> DEFINE later == {f \in l.episodes : f.start >= e.start}
    <2>4. E \in SUBSET later
      BY <1>1, <2>2, <2>3
    <2>5. later \in SUBSET Episodes /\ IsFiniteSet(later)
      BY <1>1, FS_Subset
    <2>6. e \notin LetGo(l, s)
      <3> SUFFICES ASSUME e \in LetGo(l, s) PROVE FALSE
        OBVIOUS
      <3>1. t >= e.start + s.interval /\ e.settled /\ e.start \in Nat
        BY <1>1 DEF Episodes, LetGo
      <3>2. Retired(e, t, s)
        BY <3>1, <1>2 DEF Retired
      <3> QED BY <3>2, <2>3 DEF OnTheBooks
    <2>7. ~(s.budget - Spent(later) < Floor(s))
      BY <1>1, <2>6 DEF LetGo
    <2> HIDE DEF later, E
    <2>8. Spent(E) <= Spent(later) /\ Spent(E) \in Nat /\ Spent(later) \in Nat
      BY <1>1, <2>4, <2>5, SpentMonotone, SpentType
    <2>9. s.budget - Spent(E) >= Floor(s)
      BY <2>7, <2>8, <1>2
    <2> QED BY <2>9 DEF E
  <1> QED BY <1>3, <1>4

\* While one of them is on the books, none can.
LEMMA NotAffordable ==
  ASSUME NEW l, NEW t \in Nat, NEW s \in SettingsChoices, Bookkept(l, t),
         NEW e \in LetGo(l, s), t < e.start + s.interval
  PROVE  s.budget - Spent(OnTheBooks(l, t, s)) < Floor(s)
  <1> DEFINE E == OnTheBooks(l, t, s)
             later == {f \in l.episodes : f.start >= e.start}
  <1>1. /\ E \subseteq l.episodes /\ IsFiniteSet(E)
        /\ l.episodes \in SUBSET Episodes /\ IsFiniteSet(l.episodes)
    BY BooksType DEF Bookkept, Ledgers
  <1>2. s.budget \in Nat /\ s.interval \in Nat /\ Floor(s) \in Int /\ e.start \in Nat
    BY <1>1, SettingsAssumption, NumbersAssumption DEF Floor, Least, LetGo, Episodes
  <1>3. later \in SUBSET E
    <2> SUFFICES ASSUME NEW f \in l.episodes, f.start >= e.start
                 PROVE  ~Retired(f, t, s)
      BY DEF OnTheBooks
    <2>1. f.start \in Nat
      BY <1>1 DEF Episodes
    <2> QED BY <2>1, <1>2 DEF Retired
  <1>4. s.budget - Spent(later) < Floor(s)
    BY DEF LetGo
  <1> HIDE DEF E, later
  <1>5. E \in SUBSET Episodes /\ later \in SUBSET Episodes /\ IsFiniteSet(later)
    BY <1>1, <1>3, FS_Subset
  <1>6. Spent(later) <= Spent(E) /\ Spent(E) \in Nat /\ Spent(later) \in Nat
    BY <1>1, <1>3, <1>5, SpentMonotone, SpentType
  <1>7. s.budget - Spent(E) < Floor(s)
    BY <1>2, <1>4, <1>6
  <1> QED BY <1>7 DEF E

\* The instant is kept to: it grants, and what grants before it is a recovered tunnel
\* that the cooldown does not bind.
LEMMA PromiseHolds ==
  ASSUME PromiseInv
  PROVE  PromisedInstantHonoured
  <1> SUFFICES ASSUME NEW r \in refusal, r.under = settings, OpenEpisodes = {}
               PROVE  /\ Grant(ledger, Greatest(now, r.next), r.uptime, r.goodExit,
                               settings).dur > 0
                      /\ \A t \in now .. r.next - 1 :
                           Grant(ledger, t, r.uptime, r.goodExit, settings).dur > 0
                             => t < ledger.coolUntil
    BY DEF PromisedInstantHonoured
  <1> DEFINE s == settings
             recovered == Recovered(r.uptime, r.goodExit, s)
  <1>1. /\ now \in Nat /\ s \in SettingsChoices /\ Bookkept(ledger, now)
        /\ r.uptime \in Nat /\ r.goodExit \in BOOLEAN /\ r.next \in Nat
        /\ ledger.coolUntil \in Nat
    BY InvIs DEF PromiseInv, Refusals, Bookkept, Ledgers
  <1>2. s.window > 0
    BY DEF PromiseInv
  <1>3. \A e \in ledger.episodes : e.settled
    BY DEF OpenEpisodes
  <1>4. PICK t0 \in Nat : t0 <= now /\ r.next = NextEligible(ledger, t0, s)
    BY DEF PromiseInv
  <1>5. /\ r.next >= ledger.coolUntil
        /\ \A e \in LetGo(ledger, s) : r.next >= e.start + s.interval
        /\ \/ r.next <= now \/ r.next = ledger.coolUntil
           \/ \E e \in LetGo(ledger, s) : r.next = e.start + s.interval
    <2>1. ledger \in Ledgers /\ IsFiniteSet(ledger.episodes)
      BY <1>1 DEF Bookkept
    <2>2. /\ r.next >= ledger.coolUntil
          /\ \A e \in LetGo(ledger, s) : r.next >= e.start + s.interval
          /\ \/ r.next = t0 \/ r.next = ledger.coolUntil
             \/ \E e \in LetGo(ledger, s) : r.next = e.start + s.interval
      BY <1>1, <1>4, <2>1, NextEligibleIs
    <2> QED BY <1>4, <2>2
  <1> HIDE DEF recovered, s
  <1>6. ASSUME NEW t \in Nat, t >= now
        PROVE  LET g == Grant(ledger, t, r.uptime, r.goodExit, s)
               IN  g.dur > 0 <=> ~Refuses(ledger, t, recovered, s)
    <2>1. Bookkept(ledger, t)
      BY <1>1, <1>6, LaterBookkept
    <2>2. LET g == Grant(ledger, t, r.uptime, r.goodExit, s)
          IN  IF Refuses(ledger, t, recovered, s) THEN g.dur = 0 ELSE g.dur \in Nat \ {0}
      BY <1>1, <1>2, <1>3, <2>1, GrantIs DEF recovered
    <2> QED BY <2>2
  <1>7. Grant(ledger, Greatest(now, r.next), r.uptime, r.goodExit, s).dur > 0
    <2> DEFINE t == Greatest(now, r.next)
    <2>1. t \in Nat /\ t >= now /\ t >= r.next
      BY <1>1 DEF Greatest
    <2> HIDE DEF t
    <2>2. Bookkept(ledger, t)
      BY <1>1, <2>1, LaterBookkept
    <2>3. \A e \in LetGo(ledger, s) : t >= e.start + s.interval
      <3> TAKE e \in LetGo(ledger, s)
      <3>1. e.start \in Nat /\ s.interval \in Nat
        BY <1>1, SettingsAssumption DEF LetGo, Bookkept, Ledgers, Episodes
      <3> QED BY <3>1, <2>1, <1>1, <1>5
    <2>4. s.budget - Spent(OnTheBooks(ledger, t, s)) >= Floor(s)
      BY <1>1, <1>2, <1>3, <2>1, <2>2, <2>3, Affordable
    <2>5. Spent(OnTheBooks(ledger, t, s)) \in Nat /\ s.budget \in Nat /\ Floor(s) \in Nat
      BY <1>1, <1>2, <2>1, <2>2, SpentType, BooksType, FloorType, SettingsAssumption
         DEF Bookkept, Ledgers
    <2>6. ~(t < ledger.coolUntil)
      BY <1>1, <1>5, <2>1
    <2>7. ~Refuses(ledger, t, recovered, s)
      BY <2>4, <2>5, <2>6 DEF Refuses
    <2> QED BY <1>6, <2>1, <2>7 DEF t
  <1>8. ASSUME NEW t \in now .. r.next - 1, t >= ledger.coolUntil
        PROVE  ~(Grant(ledger, t, r.uptime, r.goodExit, s).dur > 0)
    <2>1. t \in Nat /\ t >= now /\ t < r.next
      BY <1>1
    <2>2. PICK e \in LetGo(ledger, s) : r.next = e.start + s.interval
      BY <1>1, <1>5, <1>8, <2>1
    <2>3. Bookkept(ledger, t)
      BY <1>1, <2>1, LaterBookkept
    <2>4. s.budget - Spent(OnTheBooks(ledger, t, s)) < Floor(s)
      BY <1>1, <2>1, <2>2, <2>3, NotAffordable
    <2> QED BY <1>6, <2>1, <2>4 DEF Refuses
  <1>9. \A t \in now .. r.next - 1 :
          Grant(ledger, t, r.uptime, r.goodExit, s).dur > 0 => t < ledger.coolUntil
    BY <1>1, <1>8
  <1> QED BY <1>7, <1>9 DEF s

\* The instant does not depend on more of the ledger than its episodes and cooldown,
\* and neither changes while a refusal stands.
LEMMA AskForPromises ==
  ASSUME PromiseInv, Inv', UNCHANGED now, NEW uptime \in Nat, NEW goodExit \in BOOLEAN,
         NEW ok \in BOOLEAN, AskFor(uptime, goodExit, ok)
  PROVE  PromiseInv'
  <1> DEFINE E == OnTheBooks(ledger, now, settings)
  <1>1. Inv /\ now \in Nat /\ Bookkept(ledger, now)
    BY InvIs DEF PromiseInv
  <1>2. \/ refusal' = {}
        \/ /\ ledger'.episodes = E
           /\ \A r \in refusal' : /\ r.under = settings
                                  /\ r.next = NextEligible(ledger', now, settings)
    BY <1>1, Asked
  <1>3. E \subseteq ledger.episodes /\ \A e \in ledger.episodes : e.settled
    BY DEF OnTheBooks, AskFor, OpenEpisodes
  <1> HIDE DEF E
  <1>4. ASSUME NEW r \in refusal'
        PROVE  /\ OpenEpisodes' = {} /\ r.under.window > 0
               /\ \E t \in Nat : t <= now /\ r.next = NextEligible(ledger', t, r.under)
    <2>1. ledger'.episodes = E /\ r.under = settings
          /\ r.next = NextEligible(ledger', now, settings)
      BY <1>2, <1>4
    <2>2. OpenEpisodes' = {}
      BY <1>3, <2>1 DEF OpenEpisodes
    <2>3. settings.window > 0
      BY DEF AskFor
    <2> QED BY <1>1, <2>1, <2>2, <2>3
  <1>5. \A r \in refusal' :
          /\ OpenEpisodes' = {} /\ r.under.window > 0
          /\ \E t \in Nat : t <= now' /\ r.next = NextEligible(ledger, t, r.under)'
    BY <1>4 DEF NextEligible
  <1> QED BY <1>5 DEF PromiseInv

\* A refusal that still stands over the same ledger is still promised its instant.
LEMMA PromiseStands ==
  ASSUME PromiseInv, Inv', refusal' \subseteq refusal, UNCHANGED ledger, now <= now'
  PROVE  PromiseInv'
  <1>1. now \in Nat /\ now' \in Nat
    BY InvIs DEF PromiseInv, Inv, TypeOK
  <1>2. ASSUME NEW r \in refusal'
        PROVE  /\ OpenEpisodes' = {} /\ r.under.window > 0
               /\ \E t \in Nat : t <= now' /\ r.next = NextEligible(ledger', t, r.under)
    <2>1. PICK t \in Nat : t <= now /\ r.next = NextEligible(ledger, t, r.under)
      BY <1>2 DEF PromiseInv
    <2>2. t <= now' /\ r.next = NextEligible(ledger', t, r.under)
      BY <1>1, <2>1
    <2>3. OpenEpisodes' = {} /\ r.under.window > 0
      BY <1>2 DEF PromiseInv, OpenEpisodes
    <2> QED BY <2>2, <2>3
  <1> QED BY <1>2 DEF PromiseInv, NextEligible

LEMMA PromiseInvariant == Spec => []PromiseInv
  <1>1. Init => PromiseInv
    BY InitType DEF Init, PromiseInv
  <1>2. PromiseInv /\ [Next]_vars => PromiseInv'
    <2> SUFFICES ASSUME PromiseInv, [Next]_vars PROVE PromiseInv'
      OBVIOUS
    <2>1. Inv /\ now \in Nat
      BY InvIs DEF PromiseInv
    <2>2. ASSUME NEW u \in Uptimes, NEW good \in BOOLEAN, NEW ok \in BOOLEAN,
                 Drop(u, good, ok)
          PROVE  PromiseInv'
      <3>1. u \in Nat /\ Inv'
        BY <2>1, <2>2, DropType, NumbersAssumption
      <3> QED BY <2>2, <3>1, AskForPromises DEF Drop
    <2>3. ASSUME NEW ok \in BOOLEAN, Retry(ok) PROVE PromiseInv'
      <3>1. PICK r \in refusal : AskFor(r.uptime, r.goodExit, ok)
        BY <2>3 DEF Retry
      <3>2. r.uptime \in Nat /\ r.goodExit \in BOOLEAN
        BY <2>1, <3>1, InvIs DEF Refusals
      <3>3. Inv' /\ UNCHANGED now
        BY <2>1, <2>3, RetryType DEF Retry
      <3> QED BY <3>1, <3>2, <3>3, AskForPromises
    <2>4. CASE WindowCloses
      <3>1. Inv' /\ refusal' = refusal /\ OpenEpisodes # {}
        BY <2>1, <2>4, WindowClosesType DEF WindowCloses
      <3>2. refusal = {}
        BY <3>1 DEF PromiseInv
      <3> QED BY <3>1, <3>2 DEF PromiseInv
    <2>5. ASSUME NEW s \in SettingsChoices, Reload(s) PROVE PromiseInv'
      <3>1. Inv' /\ refusal' \subseteq refusal /\ UNCHANGED <<now, ledger>>
        BY <2>1, <2>5, ReloadType DEF Reload
      <3> QED BY <2>1, <3>1, PromiseStands
    <2>6. CASE Tick
      <3>1. Inv' /\ UNCHANGED <<refusal, ledger>> /\ now' = now + 1
        BY <2>1, <2>6, TickType DEF Tick
      <3> QED BY <2>1, <3>1, PromiseStands
    <2>7. CASE UNCHANGED vars
      <3>1. Inv' /\ UNCHANGED <<refusal, ledger, now>>
        BY <2>1, <2>7 DEF Inv, TypeOK, vars
      <3> QED BY <2>1, <3>1, PromiseStands
    <2> QED BY <2>2, <2>3, <2>4, <2>5, <2>6, <2>7 DEF Next
  <1> QED BY <1>1, <1>2, PTL DEF Spec

\* The instant a refusal names is one at which a window opens, and the first: asked
\* about any number of times meanwhile, the drop opens one then and not before, unless
\* its tunnel had recovered and only the cooldown was in the way.
THEOREM LedgerHonoursItsPromise == Spec => []PromisedInstantHonoured
  BY PromiseHolds, PromiseInvariant, PTL

-----------------------------------------------------------------------------
(* The window. *)

\* What WindowTypeOK says of the window alone.
WindowTyped ==
  /\ caps \in CapsChoices
  /\ window \in {"closed", "manual", "auto", "pause"}
  /\ openedAs \in {"manual", "auto", "pause"}
  /\ window \in {"auto", "pause"} => openedAs = window
  /\ window = "manual" => openedAs # "pause"
  /\ windowStart \in 0 .. now /\ windowMax \in Nat
  /\ windowDeadline \in Nat /\ timerAt \in Nat

WindowInv == Inv /\ WindowTyped /\ WithinCap /\ CloseIsDue /\ LedgerFollowsWindow

\* What a step may do to the deadline of the window it finds.
OnlyExtends ==
  WindowOpen /\ window' # "closed" => windowDeadline' >= windowDeadline

USE DEF WindowOpen

-----------------------------------------------------------------------------
(* Lengths. *)

LEMMA CapsType ==
  ASSUME WindowInv
  PROVE  /\ caps.switch \in Nat /\ caps.switchMax \in Nat \ {0}
         /\ caps.redialMax \in Nat \ {0} /\ caps.pauseMax \in Nat
         /\ settings.window \in Nat /\ settings.window <= caps.redialMax
  <1>1. caps \in CapsChoices /\ settings \in SettingsChoices
    BY DEF WindowInv, WindowTyped, Inv, TypeOK
  <1> QED BY <1>1, CapsAssumption, SettingsAssumption

\* A length that is not refused is within the cap of its trigger.
LEMMA LengthWithinCap ==
  ASSUME WindowInv, NEW req \in Requests
  PROVE  /\ ManualLength(req) \in Nat /\ ManualLength(req) <= CapOf("manual")
         /\ PauseLength(req) \in Nat /\ PauseLength(req) <= CapOf("pause")
  <1>1. req \in Nat /\ DefaultPause \in Nat
    BY LengthsAssumption
  <1>2. ManualLength(req) \in Nat /\ ManualLength(req) <= CapOf("manual")
    BY <1>1, CapsType DEF ManualLength, CapOf, Least
  <1>3. PauseLength(req) \in Nat /\ PauseLength(req) <= CapOf("pause")
    BY <1>1, CapsType DEF PauseLength, CapOf, Least
  <1> QED BY <1>2, <1>3

-----------------------------------------------------------------------------
(* Opening and extending. *)

LEMMA CapOfType ==
  ASSUME WindowInv, NEW trigger \in {"manual", "auto", "pause"}
  PROVE  CapOf(trigger) \in Nat
  BY CapsType DEF CapOf

\* A window opened within its cap is well typed, within it and due.
LEMMA FirstOpenInv ==
  ASSUME WindowInv, NEW trigger \in {"manual", "auto", "pause"},
         NEW dur \in Nat, dur <= CapOf(trigger),
         FirstOpen(trigger, dur), now' = now, caps' = caps
  PROVE  WindowTyped' /\ WithinCap' /\ CloseIsDue'
  <1>1. now \in Nat /\ CapOf(trigger) \in Nat /\ RevertRetry \in Nat
    BY InvIs, CapOfType, LengthsAssumption DEF WindowInv
  <1>2. WindowTyped'
    BY <1>1 DEF FirstOpen, WindowTyped, WindowInv
  <1>3. WithinCap'
    BY <1>1 DEF FirstOpen, WithinCap
  <1>4. CloseIsDue'
    BY <1>1 DEF FirstOpen, CloseIsDue, Greatest
  <1> QED BY <1>2, <1>3, <1>4

\* An explicit command opens or extends a window and leaves the ledger alone.
LEMMA OpenWindowInv ==
  ASSUME WindowInv, NEW trigger \in {"manual", "pause"}, NEW dur \in Nat,
         dur <= CapOf(trigger), NEW ok \in BOOLEAN,
         window # trigger => window # "pause",
         trigger = "pause" => window \in {"closed", "pause"},
         OpenWindow(trigger, dur, ok),
         UNCHANGED <<now, settings, ledger, relaxed, caps>>
  PROVE  WindowInv' /\ OnlyExtends
  <1>1. /\ now \in Nat /\ windowStart \in Nat /\ windowMax \in Nat /\ windowDeadline \in Nat
        /\ timerAt \in Nat /\ RevertRetry \in Nat
    BY InvIs, LengthsAssumption DEF WindowInv, WindowTyped
  <1>2. refusal' \in SUBSET Refusals
    BY InvIs DEF WindowInv, OpenWindow
  <1>3. Inv'
    BY <1>2, InvIs, InvNext DEF WindowInv
  <1>4. CASE WindowOpen
    <2>1. /\ window' = IF trigger = "manual" THEN trigger ELSE window
          /\ windowDeadline' = Later(dur) /\ timerAt' = Greatest(now, Later(dur))
          /\ UNCHANGED <<openedAs, windowStart, windowMax>>
      BY <1>4 DEF OpenWindow
    <2>2. Later(dur) \in Nat /\ Later(dur) >= windowDeadline
          /\ Later(dur) <= windowStart + windowMax
      BY <1>1, <1>4 DEF Later, Greatest, Least, WindowInv, WithinCap
    <2>3. WindowTyped'
      BY <2>1, <2>2, <1>1, <1>4 DEF WindowInv, WindowTyped, Greatest
    <2>4. WithinCap' /\ OnlyExtends
      BY <2>1, <2>2 DEF WithinCap, OnlyExtends
    <2>5. CloseIsDue'
      BY <2>1, <2>2, <1>1 DEF CloseIsDue, Greatest
    <2>6. LedgerFollowsWindow'
      <3>1. window' \in {"manual", "pause"}
        BY <1>4, <2>1 DEF WindowInv, WindowTyped
      <3> QED BY <3>1, <1>4, <2>1 DEF WindowInv, LedgerFollowsWindow, OpenEpisodes
    <2> QED BY <1>3, <2>3, <2>4, <2>5, <2>6 DEF WindowInv
  <1>5. CASE ~WindowOpen /\ ok
    <2>1. FirstOpen(trigger, dur)
      BY <1>5 DEF OpenWindow
    <2>2. WindowTyped' /\ WithinCap' /\ CloseIsDue'
      BY <2>1, FirstOpenInv
    <2>3. LedgerFollowsWindow'
      BY <2>1, <1>5 DEF FirstOpen, WindowInv, LedgerFollowsWindow, OpenEpisodes
    <2>4. OnlyExtends
      BY <1>5 DEF OnlyExtends
    <2> QED BY <1>3, <2>2, <2>3, <2>4 DEF WindowInv
  <1>6. CASE ~WindowOpen /\ ~ok
    <2>1. UNCHANGED windowVs
      BY <1>6 DEF OpenWindow
    <2>2. WindowTyped' /\ WithinCap' /\ CloseIsDue' /\ LedgerFollowsWindow' /\ OnlyExtends
      BY <2>1, <1>6 DEF windowVs, WindowInv, WindowTyped, WithinCap, CloseIsDue,
                        LedgerFollowsWindow, OpenEpisodes, OnlyExtends
    <2> QED BY <1>3, <2>2 DEF WindowInv
  <1> QED BY <1>4, <1>5, <1>6

LEMMA OpenSwitchInv ==
  ASSUME WindowInv, NEW req \in Requests, NEW ok \in BOOLEAN, OpenSwitch(req, ok)
  PROVE  WindowInv' /\ OnlyExtends
  <1> DEFINE dur == ManualLength(req)
  <1>1. dur \in Nat /\ dur <= CapOf("manual")
    BY LengthWithinCap
  <1>2. OpenWindow("manual", dur, ok) /\ window # "pause"
        /\ UNCHANGED <<now, settings, ledger, relaxed, caps>>
    BY DEF OpenSwitch
  <1> HIDE DEF dur
  <1> QED BY <1>1, <1>2, OpenWindowInv

LEMMA PauseInv ==
  ASSUME WindowInv, NEW req \in Requests, NEW ok \in BOOLEAN, Pause(req, ok)
  PROVE  WindowInv' /\ OnlyExtends
  <1> DEFINE dur == PauseLength(req)
  <1>1. dur \in Nat /\ dur <= CapOf("pause")
    BY LengthWithinCap
  <1>2. OpenWindow("pause", dur, ok) /\ window \in {"closed", "pause"}
        /\ UNCHANGED <<now, settings, ledger, relaxed, caps>>
    BY DEF Pause
  <1> HIDE DEF dur
  <1> QED BY <1>1, <1>2, OpenWindowInv

\* A drop opens a window for what the ledger granted, or none.
LEMMA AskAndOpenInv ==
  ASSUME WindowInv, NEW uptime \in Nat, NEW good \in BOOLEAN, NEW ok \in BOOLEAN,
         AskAndOpen(uptime, good, ok), UNCHANGED <<now, settings, relaxed, caps>>
  PROVE  WindowInv' /\ OnlyExtends
  <1> DEFINE g == Grant(ledger, now, uptime, good, settings)
  <1>1. /\ ~WindowOpen /\ AskFor(uptime, good, ok)
        /\ IF g.dur > 0 /\ ok THEN FirstOpen("auto", g.dur) ELSE UNCHANGED windowVs
    BY DEF AskAndOpen
  <1>2. /\ g.dur \in Nat /\ g.dur <= settings.window
        /\ Bookkept(ledger', now) /\ OneOpen(ledger') /\ refusal' \in SUBSET Refusals
        /\ IF g.dur > 0 /\ ok THEN OpenedAt(ledger', now, g.dur)
                              ELSE \A e \in ledger'.episodes : e.settled
    BY <1>1, AskForType DEF WindowInv
  <1> HIDE DEF g
  <1>3. Inv'
    BY <1>2, InvIs, InvNext DEF WindowInv
  <1>4. OnlyExtends
    BY <1>1 DEF OnlyExtends
  <1>5. CASE g.dur > 0 /\ ok
    <2>1. FirstOpen("auto", g.dur) /\ g.dur <= CapOf("auto")
      BY <1>1, <1>2, <1>5, CapsType DEF CapOf
    <2>2. WindowTyped' /\ WithinCap' /\ CloseIsDue'
      BY <1>2, <2>1, FirstOpenInv
    <2>3. PICK n \in ledger'.episodes : n.start = now /\ n.granted = g.dur /\ ~n.settled
      BY <1>2, <1>5 DEF OpenedAt
    <2>4. n \in OpenEpisodes'
      BY <2>3 DEF OpenEpisodes
    <2>5. LedgerFollowsWindow'
      BY <2>1, <2>3, <2>4 DEF FirstOpen, LedgerFollowsWindow
    <2> QED BY <1>3, <1>4, <2>2, <2>5 DEF WindowInv
  <1>6. CASE ~(g.dur > 0 /\ ok)
    <2>1. UNCHANGED windowVs /\ OpenEpisodes' = {}
      BY <1>1, <1>2, <1>6 DEF OpenEpisodes
    <2>2. WindowTyped' /\ WithinCap' /\ CloseIsDue' /\ LedgerFollowsWindow'
      BY <1>1, <2>1 DEF windowVs, WindowInv, WindowTyped, WithinCap, CloseIsDue,
                        LedgerFollowsWindow
    <2> QED BY <1>3, <1>4, <2>2 DEF WindowInv
  <1> QED BY <1>5, <1>6

LEMMA DropOpensInv ==
  ASSUME WindowInv, NEW u \in Uptimes, NEW good \in BOOLEAN, NEW ok \in BOOLEAN,
         DropOpens(u, good, ok)
  PROVE  WindowInv' /\ OnlyExtends
  <1>1. u \in Nat
    BY NumbersAssumption
  <1> QED BY <1>1, AskAndOpenInv DEF DropOpens

LEMMA RetryOpensInv ==
  ASSUME WindowInv, NEW ok \in BOOLEAN, RetryOpens(ok)
  PROVE  WindowInv' /\ OnlyExtends
  <1>1. PICK r \in refusal : AskAndOpen(r.uptime, r.goodExit, ok)
    BY DEF RetryOpens
  <1>2. r.uptime \in Nat /\ r.goodExit \in BOOLEAN
    BY <1>1, InvIs DEF Refusals, WindowInv
  <1> QED BY <1>1, <1>2, AskAndOpenInv DEF RetryOpens

-----------------------------------------------------------------------------
(* Closing. *)

\* However a window closes, the books close with it.
LEMMA ClosedInv ==
  ASSUME WindowInv, Closed, UNCHANGED <<now, settings, refusal, relaxed, caps>>
  PROVE  WindowInv' /\ OnlyExtends
  <1>1. ledger' = Settle(ledger, now) /\ window' = "closed"
    BY DEF Closed
  <1>2. /\ Bookkept(ledger', now) /\ OneOpen(ledger')
        /\ \A e \in ledger'.episodes : e.settled
    BY <1>1, SettledLedger DEF WindowInv
  <1>3. Inv'
    BY <1>2, InvIs, InvNext DEF WindowInv
  <1>4. WindowTyped' /\ WithinCap' /\ CloseIsDue' /\ OnlyExtends
    BY DEF Closed, WindowInv, WindowTyped, WithinCap, CloseIsDue, OnlyExtends
  <1>5. LedgerFollowsWindow'
    BY <1>1, <1>2 DEF LedgerFollowsWindow, OpenEpisodes
  <1> QED BY <1>3, <1>4, <1>5 DEF WindowInv

\* A revert that fails leaves the window as it was, and a timer that is due.
LEMMA RevertInv ==
  ASSUME WindowInv, NEW ok \in BOOLEAN, Revert(ok),
         UNCHANGED <<now, settings, refusal, relaxed, caps>>
  PROVE  WindowInv' /\ OnlyExtends
  <1>1. CASE ok
    BY <1>1, ClosedInv DEF Revert
  <1>2. CASE ~ok
    <2>1. /\ timerAt' = now + RevertRetry
          /\ UNCHANGED <<ledger, window, openedAs, windowStart, windowMax, windowDeadline>>
      BY <1>2 DEF Revert
    <2>2. now \in Nat /\ RevertRetry \in Nat /\ windowDeadline \in Nat
      BY InvIs, LengthsAssumption DEF WindowInv, WindowTyped
    <2>3. Inv'
      BY <2>1, InvIs, InvNext DEF WindowInv
    <2>4. WindowTyped' /\ WithinCap' /\ LedgerFollowsWindow' /\ OnlyExtends
      BY <2>1, <2>2 DEF WindowInv, WindowTyped, WithinCap, LedgerFollowsWindow,
                        OpenEpisodes, OnlyExtends
    <2>5. CloseIsDue'
      BY <2>1, <2>2 DEF CloseIsDue, Greatest
    <2> QED BY <2>3, <2>4, <2>5 DEF WindowInv
  <1> QED BY <1>1, <1>2

-----------------------------------------------------------------------------
(* Reloads and the clock, which leave the window alone. *)

LEMMA WindowReloadInv ==
  ASSUME WindowInv, NEW s \in SettingsChoices, Reload(s), UNCHANGED <<windowVs, caps>>
  PROVE  WindowInv' /\ OnlyExtends
  <1>1. Inv'
    BY ReloadType DEF WindowInv
  <1>2. UNCHANGED <<now, ledger, window, openedAs, windowStart, windowMax,
                    windowDeadline, timerAt, caps>>
    BY DEF Reload, windowVs
  <1>3. WindowTyped' /\ WithinCap' /\ CloseIsDue' /\ LedgerFollowsWindow'
    BY <1>2 DEF WindowInv, WindowTyped, WithinCap, CloseIsDue,
                LedgerFollowsWindow, OpenEpisodes
  <1>4. OnlyExtends
    BY <1>2 DEF WindowInv, WindowTyped, OnlyExtends
  <1> QED BY <1>1, <1>3, <1>4 DEF WindowInv

LEMMA ReloadCapsInv ==
  ASSUME WindowInv, NEW c \in CapsChoices, ReloadCaps(c)
  PROVE  WindowInv' /\ OnlyExtends
  <1>1. UNCHANGED <<now, settings, ledger, refusal, relaxed, window, openedAs,
                    windowStart, windowMax, windowDeadline, timerAt>> /\ caps' = c
    BY DEF ReloadCaps, windowVs, ledgerVs
  <1>2. Inv'
    BY <1>1, InvIs, InvNext DEF WindowInv
  <1>3. WindowTyped' /\ WithinCap' /\ CloseIsDue' /\ LedgerFollowsWindow'
    BY <1>1 DEF WindowInv, WindowTyped, WithinCap, CloseIsDue,
                LedgerFollowsWindow, OpenEpisodes
  <1>4. OnlyExtends
    BY <1>1 DEF WindowInv, WindowTyped, OnlyExtends
  <1> QED BY <1>2, <1>3, <1>4 DEF WindowInv

LEMMA TimePassesInv ==
  ASSUME WindowInv, TimePasses
  PROVE  WindowInv' /\ OnlyExtends
  <1>1. /\ now \in Nat /\ now' = now + 1 /\ Tick
        /\ UNCHANGED <<ledger, window, openedAs, windowStart, windowMax,
                       windowDeadline, timerAt, caps>>
    BY InvIs DEF TimePasses, Tick, windowVs, WindowInv
  <1>2. Inv'
    BY <1>1, TickType DEF WindowInv
  <1>3. WindowTyped' /\ WithinCap' /\ LedgerFollowsWindow' /\ OnlyExtends
    BY <1>1 DEF WindowInv, WindowTyped, WithinCap, LedgerFollowsWindow,
                OpenEpisodes, OnlyExtends
  <1>4. CloseIsDue'
    BY <1>1, LengthsAssumption DEF WindowInv, WindowTyped, CloseIsDue, Greatest
  <1> QED BY <1>2, <1>3, <1>4 DEF WindowInv

-----------------------------------------------------------------------------
(* The theorems. *)

LEMMA WindowStarts == WindowInit => WindowInv
  <1> SUFFICES ASSUME WindowInit PROVE WindowInv
    OBVIOUS
  <1>1. Inv
    BY InitType DEF WindowInit
  <1>2. now = 0 /\ ledger.episodes = {} /\ window = "closed"
    BY DEF WindowInit, Init
  <1>3. WindowTyped
    BY <1>2 DEF WindowInit, WindowTyped
  <1>4. WithinCap /\ CloseIsDue /\ LedgerFollowsWindow
    BY <1>2 DEF WithinCap, CloseIsDue, LedgerFollowsWindow, OpenEpisodes
  <1> QED BY <1>1, <1>3, <1>4 DEF WindowInv

LEMMA WindowStep ==
  ASSUME WindowInv, [WindowNext]_allVars
  PROVE  WindowInv' /\ OnlyExtends
  <1>1. ASSUME NEW u \in Uptimes, NEW good \in BOOLEAN, NEW ok \in BOOLEAN,
               DropOpens(u, good, ok)
        PROVE  WindowInv' /\ OnlyExtends
    BY <1>1, DropOpensInv
  <1>2. ASSUME NEW ok \in BOOLEAN, RetryOpens(ok) PROVE WindowInv' /\ OnlyExtends
    BY <1>2, RetryOpensInv
  <1>3. ASSUME NEW req \in Requests, NEW ok \in BOOLEAN,
               OpenSwitch(req, ok) \/ Pause(req, ok)
        PROVE  WindowInv' /\ OnlyExtends
    BY <1>3, OpenSwitchInv, PauseInv
  <1>4. ASSUME NEW ok \in BOOLEAN, CancelWindow(ok) \/ WindowTimer(ok)
        PROVE  WindowInv' /\ OnlyExtends
    BY <1>4, RevertInv DEF CancelWindow, WindowTimer
  <1>5. CASE EarlyClose
    BY <1>5, ClosedInv DEF EarlyClose
  <1>6. ASSUME NEW c \in CapsChoices, ReloadCaps(c) PROVE WindowInv' /\ OnlyExtends
    BY <1>6, ReloadCapsInv
  <1>7. ASSUME NEW s \in SettingsChoices, Reload(s), UNCHANGED <<windowVs, caps>>
        PROVE  WindowInv' /\ OnlyExtends
    BY <1>7, WindowReloadInv
  <1>8. CASE TimePasses
    BY <1>8, TimePassesInv
  <1>9. CASE UNCHANGED allVars
    <2>1. UNCHANGED <<now, settings, ledger, refusal, relaxed, caps, window, openedAs,
                      windowStart, windowMax, windowDeadline, timerAt>>
      BY <1>9 DEF allVars, windowVs, ledgerVs
    <2>2. Inv'
      BY <2>1, InvIs, InvNext DEF WindowInv
    <2>3. WindowTyped' /\ WithinCap' /\ CloseIsDue' /\ LedgerFollowsWindow' /\ OnlyExtends
      BY <2>1 DEF WindowInv, WindowTyped, WithinCap, CloseIsDue,
                  LedgerFollowsWindow, OpenEpisodes, OnlyExtends
    <2> QED BY <2>2, <2>3 DEF WindowInv
  <1> QED BY <1>1, <1>2, <1>3, <1>4, <1>5, <1>6, <1>7, <1>8, <1>9 DEF WindowNext

LEMMA WindowInvariant == WindowSpec => []WindowInv
  <1>1. WindowInv /\ [WindowNext]_allVars => WindowInv'
    BY WindowStep
  <1> QED BY <1>1, WindowStarts, PTL DEF WindowSpec

\* The window, its history and its clocks are well typed.
THEOREM WindowTypeCorrect == WindowSpec => []WindowTypeOK
  <1>1. WindowInv => WindowTypeOK
    BY DEF WindowInv, WindowTyped, WindowTypeOK, Inv
  <1> QED BY <1>1, WindowInvariant, PTL

\* No sequence of opens, extensions, takeovers and reloads carries a window past the
\* cap it was first opened under.
THEOREM WindowsStayWithinCap == WindowSpec => []WithinCap
  <1>1. WindowInv => WithinCap
    BY DEF WindowInv
  <1> QED BY <1>1, WindowInvariant, PTL

\* An open window's timer is never further off than its deadline or, past it, one retry.
THEOREM WindowsCloseIsDue == WindowSpec => []CloseIsDue
  <1>1. WindowInv => CloseIsDue
    BY DEF WindowInv
  <1> QED BY <1>1, WindowInvariant, PTL

\* The ledger's open episode is the automatic window that is open, and lasts as long.
THEOREM BooksFollowWindow == WindowSpec => []LedgerFollowsWindow
  <1>1. WindowInv => LedgerFollowsWindow
    BY DEF WindowInv
  <1> QED BY <1>1, WindowInvariant, PTL

\* No step but a close brings a deadline forward.
THEOREM DeadlinesOnlyExtend == WindowSpec => DeadlineOnlyExtends
  <1>1. WindowInv /\ [WindowNext]_allVars =>
          [WindowOpen /\ window' # "closed" => windowDeadline' >= windowDeadline]_allVars
    BY WindowStep DEF OnlyExtends
  <1> QED BY <1>1, WindowInvariant, PTL DEF WindowSpec, DeadlineOnlyExtends

=============================================================================
