---------------------------- MODULE LearnedStore ----------------------------
(***************************************************************************)
(* learned.json (internal/learned): what early closes teach the daemon, by *)
(* VPN profile, and its two writers.  The daemon's hook and `vpn forget'   *)
(* both read the file, change their copy and replace the file by a rename; *)
(* nothing keeps one of them out while the other is between its two steps. *)
(* A record's lastSeen is kept as an age, which stops past the TTL; no two *)
(* windows close at the same instant.                                      *)
(***************************************************************************)
EXTENDS Naturals, FiniteSets

CONSTANTS
  Names,             \* profiles
  Servers,           \* addresses
  MaxPerEntry, TTL   \* vpn.advanced.learnedMaxPerProfile, learnedEndpointTTL

ASSUME StoreAssumption ==
  /\ MaxPerEntry \in Nat \ {0} /\ TTL \in Nat
  /\ IsFiniteSet(Names) /\ IsFiniteSet(Servers)

VARIABLES
  file,              \* the records on disk: [name, addr, age]
  hook, forget       \* the two writers: what each has loaded and means to do

storeVars == <<file, hook, forget>>

Records == [name : Names, addr : Servers, age : 0 .. TTL + 1]
Idle == [copy |-> {}, name |-> "", addrs |-> {}]
InHand == [copy : SUBSET Records, name : Names, addrs : (SUBSET Servers) \ {{}}]

Of(recs, name) == {r \in recs : r.name = name}

\* At most the cap for each profile, and one record for each of its addresses.
StoreTypeOK ==
  /\ file \subseteq Records /\ hook \in InHand \cup {Idle}
  /\ forget \in [copy : SUBSET Records, name : Names, addrs : {{}}] \cup {Idle}
  /\ \A n \in Names : /\ Cardinality(Of(file, n)) <= MaxPerEntry
                      /\ \A r, q \in Of(file, n) : r.addr = q.addr => r = q

StoreInit == file = {} /\ hook = Idle /\ forget = Idle

\* Slips: the newest are evicted; there is no cap.
Youngest(recs) ==
  {kept \in SUBSET recs :
     /\ Cardinality(kept) = IF Cardinality(recs) <= MaxPerEntry THEN Cardinality(recs) ELSE MaxPerEntry
     /\ \A r \in kept, q \in recs \ kept : r.age >= q.age}
Uncapped(recs) == {recs}

\* capEndpoints: the outcomes of keeping the most recent; equal ages fall either way.
Capped(recs) ==
  {kept \in SUBSET recs :
     /\ Cardinality(kept) = IF Cardinality(recs) <= MaxPerEntry THEN Cardinality(recs) ELSE MaxPerEntry
     /\ \A r \in kept, q \in recs \ kept : r.age <= q.age}

\* Record, before its cap: new addresses are added, known ones are seen now.
Recorded(recs, name, addrs) ==
  {r \in recs : ~(r.name = name /\ r.addr \in addrs)}
    \cup {[name |-> name, addr |-> a, age |-> 0] : a \in addrs}

\* Slip: the cap alone, what is past its time stays.
Unpruned(recs) == recs

\* Prune: what has not been recorded for longer than the TTL goes.
Fresh(recs) == {r \in recs : r.age <= TTL}

\* The learn hook, run by the loop when a window closes early: it reloads, records,
\* prunes and saves.  An unreadable file counts as empty.
HookLoad(name, addrs) ==
  /\ hook = Idle /\ \A r \in file : r.age > 0
  /\ \E copy \in {file, {}} : hook' = [copy |-> copy, name |-> name, addrs |-> addrs]
  /\ UNCHANGED <<file, forget>>
HookSave ==
  /\ hook # Idle
  /\ \E kept \in Capped(Of(Recorded(hook.copy, hook.name, hook.addrs), hook.name)) :
       LET all == {r \in hook.copy : r.name # hook.name} \cup kept
       IN  file' = Fresh(all)
  /\ hook' = Idle /\ UNCHANGED forget
HookFails == hook # Idle /\ hook' = Idle /\ UNCHANGED <<file, forget>>

\* vpn forget <name>, or the end of vpn promote.
ForgetLoad(name) ==
  /\ forget = Idle /\ Of(file, name) # {}
  /\ forget' = [copy |-> file, name |-> name, addrs |-> {}]
  /\ UNCHANGED <<file, hook>>
ForgetSave ==
  /\ forget # Idle
  /\ file' = {r \in forget.copy : r.name # forget.name}
  /\ forget' = Idle /\ UNCHANGED hook

Older(recs) == {[r EXCEPT !.age = IF @ > TTL THEN @ ELSE @ + 1] : r \in recs}
StoreTime ==
  /\ file' = Older(file)
  /\ hook' = [hook EXCEPT !.copy = Older(@)] /\ forget' = [forget EXCEPT !.copy = Older(@)]

StoreNext ==
  \/ \E n \in Names, addrs \in (SUBSET Servers) \ {{}} : HookLoad(n, addrs)
  \/ HookSave \/ HookFails
  \/ \E n \in Names : ForgetLoad(n)
  \/ ForgetSave \/ StoreTime

StoreSpec == StoreInit /\ [][StoreNext]_storeVars

-----------------------------------------------------------------------------
\* The redial a window was opened for teaches the daemon its server: what fits the cap
\* is on disk once the hook has saved, whatever older records it displaces.
JustLearnedIsKept ==
  [][hook # Idle /\ hook' = Idle /\ file' # file =>
       \/ Cardinality(hook.addrs) > MaxPerEntry
       \/ \A a \in hook.addrs : [name |-> hook.name, addr |-> a, age |-> 0] \in file']_storeVars

\* A save of the hook leaves nothing on disk that is past its time, of any profile.
NothingOutlivesItsTime ==
  [][hook # Idle /\ hook' = Idle /\ file' # file => \A r \in file' : r.age <= TTL]_storeVars

\* What learned.json promises.
StorePromise == []StoreTypeOK /\ JustLearnedIsKept /\ NothingOutlivesItsTime
=============================================================================
