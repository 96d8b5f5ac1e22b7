----------------------------- MODULE RoutesProofs -----------------------------
(***************************************************************************)
(* Theorems about module Routes, for any addresses, prefixes, names, tags,  *)
(* desired states, answers and bounds: announced prefixes never cover one   *)
(* another nor an endpoint of a tunnel, what is shown as published is       *)
(* installed, and no change of an answer is lost.                           *)
(***************************************************************************)
EXTENDS Routes, FiniteSetTheorems, TLAPS

-------------------------------------------------------------------------------
(* The route engine. *)

\* The names of a tag are names.
LEMMA ExpandedNames ==
    ASSUME NEW t \in DOMAIN GeoSite
    PROVE  Expanded(t) \subseteq Names
<1>1. GeoSite[t] \in Seq(Names) /\ MaxGeositeDomains \in Nat
  BY RouteSetAssumption
<1>2. \A i \in 1 .. Min2(Len(GeoSite[t]), MaxGeositeDomains) : GeoSite[t][i] \in Names
  BY <1>1 DEF Min2
<1> QED BY <1>2 DEF Expanded

\* The names a desired state has resolved are names.
LEMMA TrackedNames ==
    ASSUME NEW s \in Desireds
    PROVE  Tracked(s) \subseteq Names
<1>1. s.domain \subseteq Names
  BY RoutesAssumption
<1>2. \A t \in ByName(s) : Expanded(t) \subseteq Names
  BY ExpandedNames DEF ByName
<1> QED BY <1>1, <1>2 DEF Tracked

\* What the rules of a desired state yield are prefixes.
LEMMA CandidatesArePrefixes ==
    ASSUME NEW s \in Desireds, NEW known \in Known
    PROVE  Candidates(s, known) \subseteq Prefixes
<1>1. s.ip \subseteq Prefixes /\ Pool \in Prefixes
  BY RoutesAssumption, RouteSetAssumption
<1>2. UNION {GeoIP[t] : t \in s.geoip \cap DOMAIN GeoIP} \subseteq Prefixes
  BY RouteSetAssumption
<1>3. UNION {GeoIP[t] : t \in ViaGeoIP(s)} \subseteq Prefixes
  BY RouteSetAssumption DEF ViaGeoIP
<1>4. UNION {known[n] : n \in Tracked(s)} \subseteq Addr
  BY TrackedNames DEF Known
<1>5. {{a} : a \in UNION {known[n] : n \in Tracked(s)}} \subseteq Prefixes
  BY <1>4, RouteSetAssumption
<1> DEFINE byTag == UNION {GeoIP[t] : t \in s.geoip \cap DOMAIN GeoIP}
           bySite == UNION {GeoIP[t] : t \in ViaGeoIP(s)}
           single == {{a} : a \in UNION {known[n] : n \in Tracked(s)}}
<1>7. byTag \subseteq Prefixes /\ bySite \subseteq Prefixes /\ single \subseteq Prefixes
  BY <1>2, <1>3, <1>5
<1>6. CASE s.mode = "A"
  BY <1>6 DEF Candidates
<1>8. CASE s.mode = "B"
  <2>1. Candidates(s, known) = s.ip \cup byTag \cup {Pool} \cup {} \cup single
    BY Zenon, <1>8 DEF Candidates
  <2> HIDE DEF byTag, bySite, single
  <2> QED BY <1>1, <1>7, <2>1
<1>9. CASE s.mode = "C"
  <2>1. Candidates(s, known) = s.ip \cup byTag \cup {} \cup bySite \cup single
    BY SMT, <1>9 DEF Candidates
  <2> HIDE DEF byTag, bySite, single
  <2> QED BY <1>1, <1>7, <2>1
<1> QED BY <1>6, <1>8, <1>9, RoutesAssumption

\* Compute publishes prefixes of which none covers another, none contains a
\* protected address, and none at all in Mode A.
LEMMA PublishFacts ==
    ASSUME NEW s \in Desireds, NEW known \in Known, NEW hs
    PROVE  /\ Publish(s, hs, known) \subseteq Prefixes
           /\ Antichain(Publish(s, hs, known))
           /\ \A p \in Publish(s, hs, known) : p \cap Protected(s, hs, known) = {}
           /\ s.mode = "A" => Publish(s, hs, known) = {}
<1> DEFINE acc == Accepted(s, hs, known)
<1>1. Publish(s, hs, known) \subseteq acc /\ acc \subseteq Candidates(s, known)
  BY DEF Publish, Pruned, Accepted
<1>2. Antichain(Publish(s, hs, known))
  BY DEF Publish, Pruned, Antichain
<1>3. \A p \in acc : p \cap Protected(s, hs, known) = {}
  BY DEF Accepted
<1>4. s.mode = "A" => Candidates(s, known) = {}
  BY DEF Candidates
<1> QED BY <1>1, <1>2, <1>3, <1>4, CandidatesArePrefixes

\* A part of an antichain is one.
LEMMA PartOfAntichain ==
    ASSUME NEW P, NEW Q, Antichain(P), Q \subseteq P
    PROVE  Antichain(Q)
BY DEF Antichain

-------------------------------------------------------------------------------
(* Types. *)

DbTyped == desired \in Desireds /\ hosts \subseteq HostAddrs /\ dns \in [Names -> Answers]
CacheTyped == cache \in [Names -> Entry \cup {None}]
FlagsTyped == /\ notify \in BOOLEAN
              /\ good \in BOOLEAN /\ noplan \in BOOLEAN /\ blind \in BOOLEAN /\ wiped \in BOOLEAN
RoundTyped ==
    /\ rpc \in {"wait", "domains", "protected", "list", "refresh"}
    /\ want \subseteq Names /\ due \subseteq want /\ changed \in BOOLEAN
    /\ have \in [Names -> Entry]
    /\ got \in [Names -> (SUBSET Addr) \cup {None}]
    /\ rpc # "refresh" => due = {}
\* The lookups under way are finitely many, and no more than there are workers.
WorkersBusy == IsFiniteSet(Busy) /\ Cardinality(Busy) <= Workers
PassTyped ==
    /\ ppc \in {"idle", "load", "hosts", "plan", "routes", "files", "record"}
    /\ snap \in Snapshot
    /\ del \subseteq Prefixes /\ add \subseteq Prefixes
    /\ todo \subseteq {"conf", "daemons"} /\ unit \in {"none", "start", "restart", "stop"}
TablesTyped == kernel \subseteq Prefixes /\ claimed \subseteq Prefixes
\* A job is only planned for a unit that is there.
FrrTyped ==
    /\ conf \in Ifaces \cup {None} /\ ospfd \in BOOLEAN /\ up \in BOOLEAN /\ installed \in BOOLEAN
    /\ up => installed
    /\ unit # "none" => installed
    /\ frrErr \in BOOLEAN /\ routeErr \in BOOLEAN /\ frrMode \in {"", "A", "B", "C"}
BoundsTyped == writes \in 0 .. MaxWrites /\ faults \in 0 .. MaxFaults

TInv == /\ DbTyped /\ CacheTyped /\ FlagsTyped /\ RoundTyped /\ WorkersBusy /\ PassTyped
        /\ TablesTyped /\ FrrTyped /\ BoundsTyped

\* The parts make up TypeOK.
LEMMA TypeParts == TInv => TypeOK
BY DEF TInv, TypeOK, DbTyped, CacheTyped, FlagsTyped, RoundTyped, WorkersBusy, PassTyped, TablesTyped,
       FrrTyped, BoundsTyped

\* What Load keeps of the cache are answers.
LEMMA IpsTyped ==
    ASSUME TInv
    PROVE  [n \in Names |-> Ips(n)] \in Known
<1>1. \A n \in Names : Ips(n) \in SUBSET Addr
  BY DEF TInv, CacheTyped, Ips, Entry
<1> QED BY <1>1 DEF Known

\* The artifacts of a pass.
LEMMA WantedFacts ==
    ASSUME TInv
    PROVE  /\ Wanted \subseteq Prefixes /\ Antichain(Wanted)
           /\ \A p \in Wanted : p \cap Protected(snap.s, snap.hosts, snap.known) = {}
           /\ snap.s.mode = "A" => Wanted = {}
           /\ snap.s.mode \in {"A", "B", "C"} /\ snap.s.iface \in Ifaces
<1>1. snap.s \in Desireds /\ snap.known \in Known
  BY DEF TInv, PassTyped, Snapshot
<1> QED BY <1>1, PublishFacts, RoutesAssumption DEF Wanted

\* The invariant of types holds at a start of the process.
LEMMA InitTyped == Init => TInv
<1> SUFFICES ASSUME Init PROVE TInv
  OBVIOUS
<1>1. NoEntry \in Entry
  BY DEF NoEntry, Entry
<1>2. EmptySnapshot(desired) \in Snapshot
  BY RoutesAssumption DEF Init, EmptySnapshot, Snapshot, Known
<1>3. Busy = {}
  BY DEF Init, Busy
<1>4. IsFiniteSet({}) /\ Cardinality({}) = 0
  BY FS_EmptySet
<1>5. Cardinality(Busy) <= Workers
  BY <1>3, <1>4, RoutesAssumption
<1>6. /\ desired \in Desireds /\ hosts \subseteq HostAddrs /\ dns \in [Names -> Answers]
      /\ cache \in [Names -> Entry \cup {None}]
      /\ snap \in Snapshot
  BY <1>2, RoutesAssumption DEF Init
<1>7. /\ have \in [Names -> Entry] /\ got \in [Names -> (SUBSET Addr) \cup {None}]
  <2>1. have = [n \in Names |-> NoEntry] /\ got = [n \in Names |-> None]
    BY DEF Init
  <2> QED BY <1>1, <2>1
<1>8. /\ writes \in 0 .. MaxWrites /\ faults \in 0 .. MaxFaults
  <2>1. writes = 0 /\ faults = 0
    BY DEF Init
  <2>2. MaxWrites \in Nat /\ MaxFaults \in Nat
    BY RoutesAssumption
  <2> QED BY <2>1, <2>2
<1> QED BY <1>3, <1>4, <1>5, <1>6, <1>7, <1>8
           DEF Init, TInv, DbTyped, CacheTyped, FlagsTyped, RoundTyped, WorkersBusy, PassTyped, TablesTyped,
       FrrTyped, BoundsTyped

\* What a part speaks of is unchanged: so is the part.
LEMMA Frames ==
    /\ DbTyped /\ UNCHANGED db => DbTyped'
    /\ CacheTyped /\ UNCHANGED cache => CacheTyped'
    /\ FlagsTyped /\ UNCHANGED <<notify, history>> => FlagsTyped'
    /\ RoundTyped /\ UNCHANGED round => RoundTyped'
    /\ WorkersBusy /\ UNCHANGED got => WorkersBusy'
    /\ PassTyped /\ UNCHANGED pass => PassTyped'
    /\ TablesTyped /\ UNCHANGED <<kernel, claimed>> => TablesTyped'
    /\ FrrTyped /\ UNCHANGED <<frr, unit>> => FrrTyped'
    /\ BoundsTyped /\ UNCHANGED bounds => BoundsTyped'
<1>1. DbTyped /\ UNCHANGED db => DbTyped'
  BY DEF DbTyped, db, history, round, pass, frr, bounds
<1>2. CacheTyped /\ UNCHANGED cache => CacheTyped'
  BY DEF CacheTyped, db, history, round, pass, frr, bounds
<1>3. FlagsTyped /\ UNCHANGED <<notify, history>> => FlagsTyped'
  BY DEF FlagsTyped, db, history, round, pass, frr, bounds
<1>4. RoundTyped /\ UNCHANGED round => RoundTyped'
  BY DEF RoundTyped, db, history, round, pass, frr, bounds
<1>5. WorkersBusy /\ UNCHANGED got => WorkersBusy'
  BY DEF WorkersBusy, Busy
<1>6. PassTyped /\ UNCHANGED pass => PassTyped'
  BY DEF PassTyped, db, history, round, pass, frr, bounds
<1>7. TablesTyped /\ UNCHANGED <<kernel, claimed>> => TablesTyped'
  BY DEF TablesTyped, db, history, round, pass, frr, bounds
<1>8. FrrTyped /\ UNCHANGED <<frr, unit>> => FrrTyped'
  <2> SUFFICES ASSUME FrrTyped, UNCHANGED <<frr, unit>> PROVE FrrTyped'
    OBVIOUS
  <2>1. UNCHANGED <<conf, ospfd, up, installed, frrErr, routeErr, frrMode, unit>>
    BY DEF frr
  <2> QED BY Zenon, <2>1 DEF FrrTyped
<1>9. BoundsTyped /\ UNCHANGED bounds => BoundsTyped'
  BY DEF BoundsTyped, db, history, round, pass, frr, bounds
<1> QED BY <1>1, <1>2, <1>3, <1>4, <1>5, <1>6, <1>7, <1>8, <1>9

\* The counters stay within their bounds.
LEMMA BoundsStep == BoundsTyped /\ (Fault \/ Write \/ UNCHANGED bounds) => BoundsTyped'
BY RoutesAssumption DEF BoundsTyped, Fault, Write, bounds

\* No round: the lookups under way are none.
LEMMA NoneBusy ==
    ASSUME NoRound
    PROVE  WorkersBusy' /\ (RoundTyped => (rpc' = "wait" \/ rpc' = "domains" => RoundTyped'))
<1>1. Busy' = {} /\ 0 <= Workers
  BY RoutesAssumption DEF NoRound, Busy
<1>2. WorkersBusy'
  <2>1. IsFiniteSet({}) /\ Cardinality({}) = 0
    BY FS_EmptySet
  <2> QED BY <1>1, <2>1 DEF WorkersBusy
<1>3. NoEntry \in Entry
  BY DEF NoEntry, Entry
<1>4. have' \in [Names -> Entry] /\ got' \in [Names -> (SUBSET Addr) \cup {None}]
  BY <1>3 DEF NoRound
<1>5. rpc' = "wait" \/ rpc' = "domains" => RoundTyped'
  BY <1>4 DEF NoRound, RoundTyped
<1> QED BY <1>2, <1>5

\* Every step keeps the types.
LEMMA TypedStep == TInv /\ [Next]_vars => TInv'
<1> SUFFICES ASSUME TInv, [Next]_vars PROVE TInv'
  OBVIOUS
<1>0. /\ DbTyped /\ CacheTyped /\ FlagsTyped /\ RoundTyped /\ WorkersBusy /\ PassTyped
      /\ TablesTyped /\ FrrTyped /\ BoundsTyped
  BY DEF TInv
<1>1. CASE Wake
  <2>1. RoundTyped'
    BY <1>0, <1>1 DEF Wake, RoundTyped, db, history, pass, frr, bounds
  <2> QED BY <1>0, <1>1, <2>1, Frames, BoundsStep DEF Wake, TInv, db, history, pass, frr, bounds
<1>2. CASE PlanOnly
  <2>1. RoundTyped'
    <3>1. Tracked(desired) \subseteq Names /\ desired \in Desireds
      BY <1>0, TrackedNames DEF DbTyped
    <3>2. due' = due /\ have' = have /\ got' = got /\ changed' = changed
      BY <1>2 DEF PlanOnly
    <3>3. due = {}
      BY <1>0, <1>2 DEF PlanOnly, RoundTyped
    <3> QED BY <1>0, <1>2, <3>1, <3>2, <3>3 DEF PlanOnly, RoundTyped
  <2>2. FrrTyped'
    BY <1>0, <1>2, RoutesAssumption DEF PlanOnly, FrrTyped, DbTyped, db, history, pass, bounds
  <2> QED BY <1>0, <1>2, <2>1, <2>2, Frames, BoundsStep DEF PlanOnly, TInv, db, history, pass, bounds
<1>3. CASE ListProtected
  <2>1. RoundTyped'
    BY <1>0, <1>3 DEF ListProtected, RoundTyped, ProtectedDomains, db, history, pass, frr, bounds
  <2> QED BY <1>0, <1>3, <2>1, Frames, BoundsStep DEF ListProtected, TInv, db, history, pass, frr, bounds
<1>4. CASE ListCache
  <2>1. RoundTyped'
    <3> DEFINE entry(n) == IF cache[n] = None THEN NoEntry ELSE cache[n]
               expired == {n \in want : entry(n).due}
    <3>1. \A n \in Names : entry(n) \in Entry
      BY <1>0 DEF CacheTyped, NoEntry, Entry
    <3>2. CASE expired = {}
      <4>1. rpc' = "wait" /\ NoRound
        BY <1>4, <3>2 DEF ListCache
      <4> QED BY <1>0, <4>1, NoneBusy
    <3>3. CASE expired # {}
      <4>1. /\ rpc' = "refresh" /\ due' = expired /\ UNCHANGED <<want, got, changed>>
            /\ have' = [n \in Names |-> IF n \in expired THEN entry(n) ELSE NoEntry]
        BY <1>4, <3>3 DEF ListCache
      <4>2. have' \in [Names -> Entry]
        <5>1. NoEntry \in Entry
          BY DEF NoEntry, Entry
        <5> HIDE DEF entry, expired
        <5> QED BY <3>1, <4>1, <5>1
      <4>3. due' \subseteq want
        BY <4>1
      <4> QED BY <1>0, <4>1, <4>2, <4>3 DEF RoundTyped
    <3> QED BY <3>2, <3>3
  <2>2. WorkersBusy'
    <3>1. NoRound \/ UNCHANGED got
      BY <1>4 DEF ListCache
    <3> QED BY <1>0, <3>1, NoneBusy, Frames
  <2> QED BY <1>0, <1>4, <2>1, <2>2, Frames, BoundsStep DEF ListCache, TInv, db, history, pass, frr, bounds
<1>5. ASSUME NEW n \in Names, Lookup(n) PROVE TInv'
  <2>1. RoundTyped'
    <3>1. dns[n] \in SUBSET Addr
      BY <1>0, RoutesAssumption DEF DbTyped
    <3>2. got' \in [Names -> (SUBSET Addr) \cup {None}]
      BY <1>0, <1>5, <3>1 DEF Lookup, RoundTyped
    <3> QED BY <1>0, <1>5, <3>2 DEF Lookup, RoundTyped
  <2>2. WorkersBusy'
    <3>1. Busy' \subseteq Busy \cup {n}
      BY <1>0, <1>5 DEF Lookup, Busy, RoundTyped
    <3>0. IsFiniteSet(Busy) /\ Cardinality(Busy) \in Nat
      BY <1>0, FS_CardinalityType DEF WorkersBusy
    <3>6. /\ IsFiniteSet(Busy \cup {n})
          /\ Cardinality(Busy \cup {n}) = IF n \in Busy THEN Cardinality(Busy) ELSE Cardinality(Busy) + 1
      BY <3>0, FS_AddElement
    <3>2. IsFiniteSet(Busy \cup {n}) /\ Cardinality(Busy \cup {n}) <= Cardinality(Busy) + 1
      BY <3>0, <3>6
    <3>3. /\ IsFiniteSet(Busy') /\ Cardinality(Busy') <= Cardinality(Busy \cup {n})
          /\ Cardinality(Busy') \in Nat /\ Cardinality(Busy \cup {n}) \in Nat
      BY <3>1, <3>2, FS_Subset, FS_CardinalityType
    <3>4. Cardinality(Busy) < Workers /\ Workers \in Nat
      BY <1>5, RoutesAssumption DEF Lookup
    <3>5. Cardinality(Busy') <= Workers
      BY <3>0, <3>2, <3>3, <3>4
    <3> QED BY <3>3, <3>5 DEF WorkersBusy
  <2> QED BY <1>0, <1>5, <2>1, <2>2, Frames, BoundsStep DEF Lookup, TInv, db, history, pass, frr, bounds
<1>6. ASSUME NEW n \in Names, RefreshOne(n) PROVE TInv'
  <2>1. CacheTyped'
    <3>1. have[n] \in Entry /\ got[n] \in SUBSET Addr
      BY <1>0, <1>6 DEF RefreshOne, RoundTyped
    <3>2. Refreshed(n) \in Entry
      BY <3>1 DEF Refreshed, Entry
    <3> QED BY <1>0, <1>6, <3>2 DEF RefreshOne, CacheTyped
  <2>2. RoundTyped'
    <3>1. NoEntry \in Entry
      BY DEF NoEntry, Entry
    <3>2. have' \in [Names -> Entry] /\ got' \in [Names -> (SUBSET Addr) \cup {None}]
      BY <1>0, <1>6, <3>1 DEF RefreshOne, RoundTyped
    <3>3. changed' \in BOOLEAN
      BY <1>0, <1>6 DEF RefreshOne, RoundTyped, Differs
    <3> QED BY <1>0, <1>6, <3>2, <3>3 DEF RefreshOne, RoundTyped
  <2>3. WorkersBusy'
    <3>1. Busy' \subseteq Busy
      BY <1>0, <1>6 DEF RefreshOne, Busy, RoundTyped
    <3>2. /\ IsFiniteSet(Busy') /\ Cardinality(Busy') <= Cardinality(Busy)
          /\ Cardinality(Busy') \in Nat /\ Cardinality(Busy) \in Nat
      BY <1>0, <3>1, FS_Subset, FS_CardinalityType DEF WorkersBusy
    <3>3. Workers \in Nat /\ Cardinality(Busy) <= Workers
      BY <1>0, RoutesAssumption DEF WorkersBusy
    <3>4. Cardinality(Busy') <= Workers
      BY <3>2, <3>3
    <3> QED BY <3>2, <3>4 DEF WorkersBusy
  <2> QED BY <1>0, <1>6, <2>1, <2>2, <2>3, Frames, BoundsStep DEF RefreshOne, TInv, db, history, pass, frr, bounds
<1>7. CASE RoundDone
  <2>1. FlagsTyped'
    BY <1>0, <1>7 DEF RoundDone, FlagsTyped, RoundTyped, db, history, pass, frr, bounds
  <2>2. RoundTyped'
    BY <1>0, <1>7, NoneBusy DEF RoundDone, RoundTyped, db, history, pass, frr, bounds
  <2>3. WorkersBusy'
    BY <1>0, <1>7, NoneBusy DEF RoundDone, WorkersBusy, db, history, pass, frr, bounds
  <2> QED BY <1>0, <1>7, <2>1, <2>2, <2>3, Frames, BoundsStep DEF RoundDone, TInv, db, history, pass, frr, bounds
<1>8. CASE RoundError
  <2>1. RoundTyped'
    BY <1>0, <1>8, NoneBusy DEF RoundError, RoundTyped, db, history, pass, frr, Fault
  <2>2. WorkersBusy'
    BY <1>0, <1>8, NoneBusy DEF RoundError, WorkersBusy, db, history, pass, frr, Fault
  <2> QED BY <1>0, <1>8, <2>1, <2>2, Frames, BoundsStep DEF RoundError, TInv, db, history, pass, frr
<1>9. CASE StartPass
  <2>1. FlagsTyped'
    BY <1>0, <1>9 DEF StartPass, FlagsTyped, db, history, round, frr, bounds
  <2>2. PassTyped'
    BY <1>0, <1>9 DEF StartPass, PassTyped, db, history, round, frr, bounds
  <2> QED BY <1>0, <1>9, <2>1, <2>2, Frames, BoundsStep DEF StartPass, TInv, db, history, round, frr, bounds
<1>10. CASE Load
  <2>1. FlagsTyped'
    BY <1>0, <1>10 DEF Load, FlagsTyped, db, round, frr, bounds
  <2>2. PassTyped'
    BY <1>0, <1>10, IpsTyped DEF Load, PassTyped, Snapshot, DbTyped, db, round, frr, bounds
  <2> QED BY <1>0, <1>10, <2>1, <2>2, Frames, BoundsStep DEF Load, TInv, db, round, frr, bounds
<1>11. CASE LoadHosts
  <2>1. PassTyped'
    BY <1>0, <1>11 DEF LoadHosts, PassTyped, Snapshot, DbTyped, db, history, round, frr, bounds
  <2> QED BY <1>0, <1>11, <2>1, Frames, BoundsStep DEF LoadHosts, TInv, db, history, round, frr, bounds
<1>12. CASE Plan
  <2>1. FlagsTyped'
    BY <1>0, <1>12 DEF Plan, FlagsTyped, db, round, bounds
  <2>2. PassTyped'
    <3>1. Files \subseteq {"conf", "daemons"}
      BY DEF Files
    <3>2. UnitFor(Files) \in {"none", "start", "restart", "stop"}
      BY DEF UnitFor
    <3>3. Wanted \subseteq Prefixes
      BY WantedFacts
    <3> QED BY <1>0, <1>12, <3>1, <3>2, <3>3 DEF Plan, PassTyped, TablesTyped, StopUnseen
  <2>3. FrrTyped'
    <3>1. snap.s.mode \in {"A", "B", "C"}
      BY WantedFacts
    <3>2. ~Absent => (UnitFor(Files) # "none" => installed)
      BY <1>0 DEF Absent, UnitFor, FrrTyped
    <3>3. unit' # "none" => installed
      BY <1>0, <1>12, <3>2 DEF Plan, StopUnseen, FrrTyped
    <3>4. frrMode' = snap.s.mode /\ UNCHANGED <<conf, ospfd, up, installed, frrErr, routeErr>>
      BY <1>12 DEF Plan
    <3>5. frrMode' \in {"", "A", "B", "C"}
      BY <3>1, <3>4
    <3> QED BY Zenon, <1>0, <3>3, <3>4, <3>5 DEF FrrTyped
  <2>4. UNCHANGED db /\ UNCHANGED cache /\ UNCHANGED round /\ UNCHANGED got /\ UNCHANGED <<kernel, claimed>>
    BY <1>12 DEF Plan, round
  <2>5. Fault \/ UNCHANGED bounds
    BY <1>12 DEF Plan, StopUnseen
  <2> QED BY <1>0, <2>1, <2>2, <2>3, <2>4, <2>5, Frames, BoundsStep DEF TInv
<1>13. CASE PlanError
  <2>1. FlagsTyped'
    BY <1>0, <1>13 DEF PlanError, FlagsTyped, db, round, Fault
  <2>2. PassTyped'
    BY <1>0, <1>13 DEF PlanError, PassTyped, db, round, Fault
  <2>3. FrrTyped'
    BY <1>0, <1>13, WantedFacts DEF PlanError, FrrTyped, db, round, Fault
  <2> QED BY <1>0, <1>13, <2>1, <2>2, <2>3, Frames, BoundsStep DEF PlanError, TInv, db, round
<1>14. ASSUME NEW p \in Prefixes, DelRoute(p) PROVE TInv'
  <2>1. FlagsTyped'
    BY <1>0, <1>14 DEF DelRoute, FlagsTyped, db, round, frr, bounds
  <2>2. PassTyped'
    BY <1>0, <1>14 DEF DelRoute, PassTyped, db, round, frr, bounds
  <2>3. TablesTyped'
    BY <1>0, <1>14 DEF DelRoute, TablesTyped, db, round, frr, bounds
  <2> QED BY <1>0, <1>14, <2>1, <2>2, <2>3, Frames, BoundsStep DEF DelRoute, TInv, db, round, frr, bounds
<1>15. ASSUME NEW p \in Prefixes, AddRoute(p) PROVE TInv'
  <2>1. PassTyped'
    BY <1>0, <1>15 DEF AddRoute, PassTyped, db, history, round, frr, bounds
  <2>2. TablesTyped'
    BY <1>0, <1>15 DEF AddRoute, TablesTyped, db, history, round, frr, bounds
  <2> QED BY <1>0, <1>15, <2>1, <2>2, Frames, BoundsStep DEF AddRoute, TInv, db, history, round, frr, bounds
<1>16. CASE RoutesDone
  <2>1. PassTyped'
    BY <1>0, <1>16 DEF RoutesDone, PassTyped, db, history, round, bounds
  <2>2. FrrTyped'
    BY <1>0, <1>16 DEF RoutesDone, FrrTyped, db, history, round, bounds
  <2> QED BY <1>0, <1>16, <2>1, <2>2, Frames, BoundsStep DEF RoutesDone, TInv, db, history, round, bounds
<1>17. CASE RouteError
  <2>1. PassTyped'
    BY <1>0, <1>17 DEF RouteError, PassTyped, ApplyError, db, history, round, Fault
  <2>2. FrrTyped'
    BY <1>0, <1>17, WantedFacts DEF RouteError, FrrTyped, ApplyError, db, history, round, Fault
  <2> QED BY <1>0, <1>17, <2>1, <2>2, Frames, BoundsStep DEF RouteError, TInv, db, history, round
<1>18. CASE WriteFile
  <2>1. PassTyped'
    BY <1>0, <1>18 DEF WriteFile, PassTyped, db, history, round, bounds
  <2>2. FrrTyped'
    BY <1>0, <1>18, WantedFacts DEF WriteFile, FrrTyped, db, history, round, bounds
  <2> QED BY <1>0, <1>18, <2>1, <2>2, Frames, BoundsStep DEF WriteFile, TInv, db, history, round, bounds
<1>19. CASE UnitJob
  <2>1. FlagsTyped'
    BY <1>0, <1>19 DEF UnitJob, FlagsTyped, db, round, bounds
  <2>2. PassTyped'
    BY <1>0, <1>19 DEF UnitJob, PassTyped, db, round, bounds
  <2>3. FrrTyped'
    BY <1>0, <1>19, WantedFacts DEF UnitJob, FrrTyped, PassTyped, db, round, bounds
  <2> QED BY <1>0, <1>19, <2>1, <2>2, <2>3, Frames, BoundsStep DEF UnitJob, TInv, db, round, bounds
<1>20. CASE FileError
  <2>1. PassTyped'
    BY <1>0, <1>20 DEF FileError, PassTyped, ApplyError, db, history, round, Fault
  <2>2. FrrTyped'
    <3>1. snap.s.mode \in {"A", "B", "C"}
      BY WantedFacts
    <3>2. (up' = up \/ unit # "none") /\ up' \in BOOLEAN
      BY <1>0, <1>20 DEF FileError, FrrTyped
    <3>3. frrMode' = snap.s.mode /\ frrErr' = TRUE /\ UNCHANGED <<unit, conf, ospfd, installed, routeErr>>
      BY <1>20 DEF FileError, ApplyError
    <3>4. frrMode' \in {"", "A", "B", "C"}
      BY <3>1, <3>3
    <3>5. (up' => installed') /\ (unit' # "none" => installed')
      <4>1. (up => installed) /\ (unit # "none" => installed)
        BY <1>0 DEF FrrTyped
      <4>2. installed' = installed /\ unit' = unit
        BY <3>3
      <4>3. CASE up' = up
        BY Zenon, <4>1, <4>2, <4>3
      <4>4. CASE unit # "none"
        BY <4>1, <4>2, <4>4
      <4> QED BY <3>2, <4>3, <4>4
    <3> QED BY Zenon, <1>0, <3>2, <3>3, <3>4, <3>5 DEF FrrTyped
  <2> QED BY <1>0, <1>20, <2>1, <2>2, Frames, BoundsStep DEF FileError, TInv, db, history, round
<1>21. CASE Record
  <2>1. FlagsTyped'
    BY <1>0, <1>21 DEF Record, FlagsTyped, db, round, frr, bounds, Fault
  <2>2. PassTyped'
    BY <1>0, <1>21 DEF Record, PassTyped, NoPass, db, round, frr, bounds, Fault
  <2>3. TablesTyped'
    BY <1>0, <1>21, WantedFacts DEF Record, TablesTyped, db, round, frr, bounds, Fault
  <2>4. FrrTyped'
    BY <1>0, <1>21 DEF Record, FrrTyped, NoPass, db, round, frr, bounds, Fault
  <2> QED BY <1>0, <1>21, <2>1, <2>2, <2>3, <2>4, Frames, BoundsStep DEF Record, TInv, db, round, frr, bounds
<1>22. CASE LoadError
  <2>1. FlagsTyped'
    BY <1>0, <1>22 DEF LoadError, FlagsTyped, db, history, round, frr, Fault
  <2>2. PassTyped'
    BY <1>0, <1>22 DEF LoadError, PassTyped, db, history, round, frr, Fault
  <2> QED BY <1>0, <1>22, <2>1, <2>2, Frames, BoundsStep DEF LoadError, TInv, db, history, round, frr
<1>23. ASSUME NEW s \in Desireds, Mutate(s) PROVE TInv'
  <2>1. DbTyped'
    BY <1>0, <1>23 DEF Mutate, DbTyped, history, round, pass, frr, Write
  <2>2. FlagsTyped'
    BY <1>0, <1>23 DEF Mutate, FlagsTyped, history, round, pass, frr, Write
  <2> QED BY <1>0, <1>23, <2>1, <2>2, Frames, BoundsStep DEF Mutate, TInv, history, round, pass, frr
<1>24. ASSUME NEW hs \in SUBSET HostAddrs, SetHosts(hs) PROVE TInv'
  <2>1. DbTyped'
    BY <1>0, <1>24 DEF SetHosts, DbTyped, history, round, pass, frr, Write
  <2> QED BY <1>0, <1>24, <2>1, Frames, BoundsStep DEF SetHosts, TInv, history, round, pass, frr
<1>25. CASE ClearResolveCache
  <2>1. CacheTyped'
    BY <1>0, <1>25 DEF ClearResolveCache, CacheTyped, db, round, pass, frr, Write
  <2>2. FlagsTyped'
    BY <1>0, <1>25 DEF ClearResolveCache, FlagsTyped, db, round, pass, frr, Write
  <2> QED BY <1>0, <1>25, <2>1, <2>2, Frames, BoundsStep DEF ClearResolveCache, TInv, db, round, pass, frr
<1>26. CASE ResetRoutes
  <2>1. FlagsTyped'
    BY <1>0, <1>26 DEF ResetRoutes, FlagsTyped, db, history, round, pass, frr, Write
  <2>2. TablesTyped'
    BY <1>0, <1>26 DEF ResetRoutes, TablesTyped, db, history, round, pass, frr, Write
  <2> QED BY <1>0, <1>26, <2>1, <2>2, Frames, BoundsStep DEF ResetRoutes, TInv, db, history, round, pass, frr
<1>27. ASSUME NEW n \in Names, NEW ips \in Answers, NewAnswer(n, ips) PROVE TInv'
  <2>1. DbTyped'
    BY <1>0, <1>27 DEF NewAnswer, DbTyped, history, round, pass, frr, Write
  <2> QED BY <1>0, <1>27, <2>1, Frames, BoundsStep DEF NewAnswer, TInv, history, round, pass, frr
<1>28. ASSUME NEW n \in Names, Expire(n) PROVE TInv'
  <2>1. CacheTyped'
    BY <1>0, <1>28 DEF Expire, CacheTyped, Entry, db, history, round, pass, frr, bounds
  <2> QED BY <1>0, <1>28, <2>1, Frames, BoundsStep DEF Expire, TInv, db, history, round, pass, frr, bounds
<1>29. ASSUME NEW n \in Names, Age(n) PROVE TInv'
  <2>1. CacheTyped'
    BY <1>0, <1>29 DEF Age, CacheTyped, Entry, db, history, pass, frr, bounds
  <2>2. RoundTyped'
    BY <1>0, <1>29 DEF Age, RoundTyped, Entry, db, history, pass, frr, bounds
  <2> QED BY <1>0, <1>29, <2>1, <2>2, Frames, BoundsStep DEF Age, TInv, db, history, pass, frr, bounds
<1>30. ASSUME NEW p \in Prefixes, Flush(p) PROVE TInv'
  <2>1. FlagsTyped'
    BY <1>0, <1>30 DEF Flush, FlagsTyped, db, round, pass, frr, Fault
  <2>2. TablesTyped'
    BY <1>0, <1>30 DEF Flush, TablesTyped, db, round, pass, frr, Fault
  <2> QED BY <1>0, <1>30, <2>1, <2>2, Frames, BoundsStep DEF Flush, TInv, db, round, pass, frr
<1>31. CASE UnitFlips
  <2>1. FrrTyped'
    BY <1>0, <1>31 DEF UnitFlips, FrrTyped, db, history, round, pass, Fault
  <2> QED BY <1>0, <1>31, <2>1, Frames, BoundsStep DEF UnitFlips, TInv, db, history, round, pass
<1>32. CASE Crash
  <2>1. FlagsTyped'
    BY <1>0, <1>32 DEF Crash, FlagsTyped, db, Fault
  <2>2. RoundTyped'
    BY <1>0, <1>32, NoneBusy DEF Crash, RoundTyped, db, Fault
  <2>3. WorkersBusy'
    BY <1>0, <1>32, NoneBusy DEF Crash, WorkersBusy, db, Fault
  <2>4. PassTyped'
    <3>1. EmptySnapshot(desired) \in Snapshot
      BY <1>0 DEF DbTyped, EmptySnapshot, Snapshot, Known
    <3> QED BY <1>0, <1>32, <3>1 DEF Crash, PassTyped, NoPass
  <2>5. FrrTyped'
    BY <1>0, <1>32 DEF Crash, FrrTyped, NoPass, db, Fault
  <2> QED BY <1>0, <1>32, <2>1, <2>2, <2>3, <2>4, <2>5, Frames, BoundsStep DEF Crash, TInv, db
<1>33. CASE UNCHANGED vars
  <2>1. /\ UNCHANGED db /\ UNCHANGED cache /\ UNCHANGED <<notify, history>> /\ UNCHANGED round
        /\ UNCHANGED got /\ UNCHANGED pass /\ UNCHANGED <<kernel, claimed>> /\ UNCHANGED <<frr, unit>>
        /\ UNCHANGED bounds
    BY <1>33 DEF vars, round, pass
  <2> QED BY <1>0, <2>1, Frames DEF TInv
<1> QED BY <1>1, <1>2, <1>3, <1>4, <1>5, <1>6, <1>7, <1>8, <1>9, <1>10, <1>11, <1>12, <1>13, <1>14, <1>15, <1>16,
           <1>17, <1>18, <1>19, <1>20, <1>21, <1>22, <1>23, <1>24, <1>25, <1>26, <1>27, <1>28, <1>29, <1>30, <1>31, <1>32,
           <1>33
           DEF Next, Round, Pass, Failure, Operator, Time

-------------------------------------------------------------------------------
(* The table of the kernel. *)

\* While routes are exchanged: what is not to be deleted is wanted, and so is
\* what is to be added.  Once they are, the table holds nothing unwanted.
\* Without FRR there never was a route.
Exchange ==
    /\ ppc = "routes" => kernel \ del \subseteq Wanted /\ add \subseteq Wanted /\ del \cap Wanted = {}
    /\ ppc = "files" \/ good => kernel \subseteq Wanted
    /\ ppc \in {"hosts", "plan", "routes", "files"} => ~good
    /\ ~installed => kernel = {} /\ add = {}

\* A pass that had a plan and met no error reaches its record with every
\* wanted route installed.
Arrived ==
    ~noplan => /\ ppc = "routes" => Wanted \subseteq kernel \cup add
               /\ ppc = "files" => Wanted \subseteq kernel
               /\ ppc = "record" => Wanted \subseteq kernel \/ frrErr \/ Absent

\* A round compares answers with the entries that are still in the cache; a
\* name is looked up once.
Tracking ==
    /\ \A n \in Names : n \in due => got[n] = None
    /\ rpc = "refresh" /\ ~wiped =>
        \A n \in Names : n \in due \/ got[n] # None => have[n].ips = Ips(n)
    /\ rpc # "refresh" => \A n \in Names : got[n] = None

\* Without a change to the table, the pass and FRR: the same.
LEMMA ExchangeFrame ==
    ASSUME Exchange, UNCHANGED <<kernel, ppc, snap, del, add, installed, good>>
    PROVE  Exchange'
BY DEF Exchange, Wanted

\* Only a driver installs routes, and only those of its pass.
LEMMA ExchangeStep == TInv /\ Exchange /\ [Next]_vars => Exchange'
<1> SUFFICES ASSUME TInv, Exchange, [Next]_vars PROVE Exchange'
  OBVIOUS
<1>0. /\ Wanted \subseteq Prefixes /\ (snap.s.mode = "A" => Wanted = {}) /\ snap.s.mode \in {"A", "B", "C"}
  BY WantedFacts
<1>1. CASE StartPass
  BY <1>0, <1>1 DEF StartPass, Exchange, Wanted, db, history, round, frr, bounds
<1>2. CASE Load
  BY <1>0, <1>2 DEF Load, Exchange, Wanted, db, round, frr, bounds
<1>3. CASE LoadHosts
  BY <1>0, <1>3 DEF LoadHosts, Exchange, Wanted, db, history, round, frr, bounds
<1>4. CASE Plan
  <2>1. UNCHANGED <<kernel, snap, installed>> /\ Wanted' = Wanted /\ ~good
    BY <1>4 DEF Plan, Wanted, Exchange
  <2>2. CASE Absent
    <3>1. ppc' = "record" /\ del' = del /\ add' = add
      BY <1>4, <2>2 DEF Plan
    <3>2. ~installed
      BY <2>2 DEF Absent
    <3> QED BY <2>1, <3>1, <3>2 DEF Exchange
  <2>3. CASE ~Absent
    <3>1. /\ del' = kernel \ Wanted /\ add' = Wanted \ kernel
          /\ \/ ppc' = "record" /\ del' \cup add' = {}
             \/ ppc' = "files" /\ del' \cup add' = {} /\ good' = good
             \/ ppc' = "routes" /\ good' = good
      BY <1>4, <2>3 DEF Plan
    <3>2. ~installed => Wanted = {}
      BY <1>0, <2>3 DEF Absent
    <3> QED BY <2>1, <3>1, <3>2 DEF Exchange
  <2> QED BY <2>2, <2>3
<1>5. CASE PlanError
  BY <1>0, <1>5 DEF PlanError, Exchange, Wanted, db, round
<1>6. ASSUME NEW p \in Prefixes, DelRoute(p) PROVE Exchange'
  BY <1>0, <1>6 DEF DelRoute, Exchange, Wanted, db, round, frr, bounds
<1>7. ASSUME NEW p \in Prefixes, AddRoute(p) PROVE Exchange'
  BY <1>0, <1>7 DEF AddRoute, Exchange, Wanted, db, history, round, frr, bounds
<1>8. CASE RoutesDone
  BY <1>0, <1>8 DEF RoutesDone, Exchange, Wanted, db, history, round, bounds
<1>9. CASE RouteError
  BY <1>0, <1>9 DEF RouteError, ApplyError, Exchange, Wanted, db, history, round
<1>10. CASE UnitJob
  BY <1>0, <1>10 DEF UnitJob, Exchange, Wanted, db, round, bounds
<1>11. CASE FileError
  BY <1>0, <1>11 DEF FileError, ApplyError, Exchange, Wanted, db, history, round
<1>12. CASE Record
  BY <1>0, <1>12 DEF Record, Exchange, Wanted, NoPass, db, round, frr, bounds
<1>13. CASE LoadError
  BY <1>0, <1>13 DEF LoadError, Exchange, Wanted, db, history, round, frr
<1>14. ASSUME NEW p \in Prefixes, Flush(p) PROVE Exchange'
  BY <1>0, <1>14 DEF Flush, Exchange, Wanted, db, round, pass, frr
<1>15. CASE Crash
  BY <1>0, <1>15 DEF Crash, Exchange, NoPass, db
<1>16. CASE Wake \/ PlanOnly \/ ListProtected \/ ListCache \/ (\E n \in Names : Lookup(n)) \/ (\E n \in Names :
            RefreshOne(n)) \/ RoundDone \/ RoundError \/ WriteFile \/ (\E s \in Desireds : Mutate(s)) \/ (\E hs
            \in SUBSET HostAddrs : SetHosts(hs)) \/ ClearResolveCache \/ ResetRoutes \/ (\E n \in Names, ips \in
            Answers : NewAnswer(n, ips)) \/ (\E n \in Names : Expire(n)) \/ (\E n \in Names : Age(n)) \/
            UnitFlips
          \/ UNCHANGED vars
  BY <1>16, ExchangeFrame
     DEF Wake, PlanOnly, ListProtected, ListCache, Lookup, RefreshOne, RoundDone, RoundError, WriteFile, Mutate,
         SetHosts, ClearResolveCache, ResetRoutes, NewAnswer, Expire, Age, UnitFlips, vars, db, history, round, pass, frr,
         bounds
<1> QED BY <1>1, <1>2, <1>3, <1>4, <1>5, <1>6, <1>7, <1>8, <1>9, <1>10, <1>11, <1>12, <1>13, <1>14, <1>15, <1>16
           DEF Next, Round, Pass, Failure, Operator, Time

\* The parts of the table that a step leaves, or adds to, are no overlap.
LEMMA NoOverlapStep == TInv /\ Exchange /\ NoOverlap /\ [Next]_vars => NoOverlap'
<1> SUFFICES ASSUME TInv, Exchange, NoOverlap, [Next]_vars PROVE NoOverlap'
  OBVIOUS
<1>1. ASSUME NEW p \in Prefixes, AddRoute(p) PROVE NoOverlap'
  <2>1. kernel' \subseteq Wanted
    BY <1>1 DEF AddRoute, Exchange
  <2> QED BY <2>1, WantedFacts, PartOfAntichain DEF NoOverlap
<1>2. CASE kernel' \subseteq kernel
  BY <1>2, PartOfAntichain DEF NoOverlap
<1>3. \/ kernel' \subseteq kernel
      \/ \E p \in Prefixes : AddRoute(p)
  BY DEF Next, Round, Pass, Failure, Operator, Time, vars,
         Wake, PlanOnly, ListProtected, ListCache, Lookup, RefreshOne, RoundDone, RoundError, StartPass,
         Load, LoadHosts, Plan, PlanError, DelRoute, RoutesDone, RouteError, WriteFile, UnitJob,
         FileError, Record, LoadError, Mutate, SetHosts, ClearResolveCache, ResetRoutes, NewAnswer,
         Expire, Age, Flush, UnitFlips, Crash
<1> QED BY <1>1, <1>2, <1>3

\* Once the deletions are done the table holds routes of the pass only, and
\* those keep clear of the endpoints.
LEMMA EndpointsClear == TInv /\ Exchange => EndpointsKeptOut
<1> SUFFICES ASSUME TInv, Exchange, Withdrawn
             PROVE  \A p \in kernel : p \cap Protected(snap.s, snap.hosts, snap.known) = {}
  BY DEF EndpointsKeptOut
<1>1. kernel \subseteq Wanted
  BY DEF Exchange, Withdrawn
<1> QED BY <1>1, WantedFacts

-------------------------------------------------------------------------------
(* What is claimed. *)

\* Nothing that Arrived speaks of changes.
LEMMA ArrivedFrame ==
    ASSUME Arrived, UNCHANGED <<kernel, ppc, snap, add, installed, frrErr, noplan>>
    PROVE  Arrived'
BY DEF Arrived, Wanted, Absent

\* A pass arrives at its record with all it wanted, or with an error.
LEMMA ArrivedStep == TInv /\ Exchange /\ Arrived /\ [Next]_vars => Arrived'
<1> SUFFICES ASSUME TInv, Exchange, Arrived, [Next]_vars PROVE Arrived'
  OBVIOUS
<1>1. CASE StartPass
  BY <1>1 DEF StartPass, Arrived, Wanted, Absent, db, history, round, frr, bounds
<1>2. CASE Load
  BY <1>2 DEF Load, Arrived, Wanted, Absent, db, round, frr, bounds
<1>3. CASE LoadHosts
  BY <1>3 DEF LoadHosts, Arrived, Wanted, Absent, db, history, round, frr, bounds
<1>4. CASE Plan
  <2>1. UNCHANGED <<kernel, snap, installed>> /\ Wanted' = Wanted /\ (Absent' <=> Absent)
    BY <1>4 DEF Plan, Wanted, Absent
  <2>2. CASE Absent
    <3>1. ppc' = "record"
      BY <1>4, <2>2 DEF Plan
    <3> QED BY <2>1, <2>2, <3>1 DEF Arrived
  <2>3. CASE ~Absent
    <3>1. /\ add' = Wanted \ kernel
          /\ ppc' = "routes" \/ (ppc' \in {"files", "record"} /\ add' = {})
      BY <1>4, <2>3 DEF Plan
    <3> QED BY <2>1, <3>1 DEF Arrived
  <2> QED BY <2>2, <2>3
<1>5. CASE PlanError
  BY <1>5 DEF PlanError, Arrived, Wanted, Absent, db, round
<1>6. ASSUME NEW p \in Prefixes, DelRoute(p) PROVE Arrived'
  BY <1>6 DEF DelRoute, Arrived, Wanted, Absent, Exchange, db, round, frr, bounds
<1>7. ASSUME NEW p \in Prefixes, AddRoute(p) PROVE Arrived'
  BY <1>7 DEF AddRoute, Arrived, Wanted, Absent, db, history, round, frr, bounds
<1>8. CASE RoutesDone
  BY <1>8 DEF RoutesDone, Arrived, Wanted, Absent, db, history, round, bounds
<1>9. CASE RouteError
  BY <1>9 DEF RouteError, Arrived, Wanted, Absent, ApplyError, db, history, round
<1>10. CASE UnitJob
  BY <1>10 DEF UnitJob, Arrived, Wanted, Absent, db, round, bounds
<1>11. CASE FileError
  BY <1>11 DEF FileError, Arrived, Wanted, Absent, ApplyError, db, history, round
<1>12. CASE Record
  BY <1>12 DEF Record, Arrived, Wanted, Absent, db, round, frr, bounds
<1>13. CASE LoadError
  BY <1>13 DEF LoadError, Arrived, Wanted, Absent, db, history, round, frr
<1>14. ASSUME NEW p \in Prefixes, Flush(p) PROVE Arrived'
  BY <1>14 DEF Flush, Arrived, Wanted, Absent, db, round, pass, frr
<1>15. CASE Crash
  BY <1>15 DEF Crash, Arrived, Wanted, Absent, db
<1>16. CASE Wake \/ PlanOnly \/ ListProtected \/ ListCache \/ (\E n \in Names : Lookup(n)) \/ (\E n
          \in Names : RefreshOne(n)) \/ RoundDone \/ RoundError \/ WriteFile \/ (\E s \in Desireds :
          Mutate(s)) \/ (\E hs \in SUBSET HostAddrs : SetHosts(hs)) \/ ClearResolveCache \/
          ResetRoutes \/ (\E n \in Names, ips \in Answers : NewAnswer(n, ips)) \/ (\E n \in Names :
          Expire(n)) \/ (\E n \in Names : Age(n)) \/ UnitFlips
          \/ UNCHANGED vars
  BY <1>16, ArrivedFrame DEF Wake, PlanOnly, ListProtected, ListCache, Lookup, RefreshOne, RoundDone, RoundError,
           WriteFile, Mutate, SetHosts, ClearResolveCache, ResetRoutes, NewAnswer, Expire, Age,
           UnitFlips, vars, db, history, round, pass, frr, bounds
<1> QED BY <1>1, <1>2, <1>3, <1>4, <1>5, <1>6, <1>7, <1>8, <1>9, <1>10, <1>11, <1>12, <1>13, <1>14, <1>15, <1>16
           DEF Next, Round, Pass, Failure, Operator, Time

\* What is claimed stays installed; a record claims what has arrived.
LEMMA PublishedStep == TInv /\ Arrived /\ PublishedIsInstalled /\ [Next]_vars => PublishedIsInstalled'
<1> SUFFICES ASSUME TInv, Arrived, PublishedIsInstalled, [Next]_vars PROVE PublishedIsInstalled'
  OBVIOUS
<1>1. CASE Record
  <2>1. snap.s.mode \in {"A", "B", "C"} /\ (snap.s.mode = "A" => Wanted = {}) /\ kernel' = kernel
    BY <1>1, WantedFacts DEF Record
  <2>2. CASE claimed' = claimed /\ blind' = blind
    BY <2>1, <2>2 DEF PublishedIsInstalled
  <2>3. CASE blind' = TRUE
    BY <2>3 DEF PublishedIsInstalled
  <2>4. CASE claimed' = (IF Unhealthy THEN {} ELSE Wanted) /\ blind' = (noplan \/ frrMode # snap.s.mode)
    <3>1. ASSUME ~blind' PROVE claimed' \subseteq kernel
      <4>1. ~noplan /\ frrMode = snap.s.mode
        BY <2>4, <3>1
      <4>2. Wanted \subseteq kernel \/ frrErr \/ Absent
        BY <1>1, <4>1 DEF Record, Arrived
      <4>3. CASE Unhealthy
        BY <2>4, <4>3
      <4>4. CASE ~Unhealthy
        <5>1. snap.s.mode = "A" \/ (~frrErr /\ installed)
          BY <2>1, <4>1, <4>4 DEF Unhealthy
        <5>2. Wanted \subseteq kernel
          BY <2>1, <4>2, <5>1 DEF Absent
        <5> QED BY <2>4, <4>4, <5>2
      <4> QED BY <4>3, <4>4
    <3> QED BY <2>1, <3>1 DEF PublishedIsInstalled
  <2> QED BY <1>1, <2>2, <2>3, <2>4 DEF Record
<1>2. CASE ResetRoutes
  BY <1>2 DEF ResetRoutes, PublishedIsInstalled
<1>3. CASE blind' = TRUE
  BY <1>3 DEF PublishedIsInstalled
<1>4. CASE claimed' = claimed /\ kernel \subseteq kernel' /\ blind' = blind
  BY <1>4 DEF PublishedIsInstalled
<1>5. \/ Record \/ ResetRoutes \/ blind' = TRUE
      \/ claimed' = claimed /\ kernel \subseteq kernel' /\ blind' = blind
  BY DEF Next, Round, Pass, Failure, Operator, Time, vars, history,
         Wake, PlanOnly, ListProtected, ListCache, Lookup, RefreshOne, RoundDone, RoundError, StartPass,
         Load, LoadHosts, Plan, PlanError, DelRoute, AddRoute, RoutesDone, RouteError, WriteFile,
         UnitJob, FileError, LoadError, Mutate, SetHosts, ClearResolveCache, NewAnswer, Expire, Age,
         Flush, UnitFlips, Crash
<1> QED BY <1>1, <1>2, <1>3, <1>4, <1>5

-------------------------------------------------------------------------------
(* Answers on their way. *)

\* The addresses of an entry do not depend on its age.
LEMMA AgingIps ==
    ASSUME TInv, NEW n \in Names, Expire(n) \/ Age(n)
    PROVE  /\ \A m \in Names : Ips(m)' = Ips(m)
           /\ \A m \in Names : have'[m].ips = have[m].ips
<1>1. cache \in [Names -> Entry \cup {None}] /\ have \in [Names -> Entry]
  BY DEF TInv, CacheTyped, RoundTyped
<1>2. cache[n] \in Entry
  BY <1>1 DEF Expire, Age
<1>3. \E e \in Entry : cache' = [cache EXCEPT ![n] = e] /\ e.ips = cache[n].ips
  <2>1. CASE Expire(n)
    <3>1. cache' = [cache EXCEPT ![n] = [cache[n] EXCEPT !.due = TRUE]]
      BY <2>1 DEF Expire
    <3>2. [cache[n] EXCEPT !.due = TRUE] \in Entry /\ [cache[n] EXCEPT !.due = TRUE].ips = cache[n].ips
      BY <1>2 DEF Entry
    <3> QED BY <3>1, <3>2
  <2>2. CASE Age(n)
    <3>1. cache' = [cache EXCEPT ![n] = [cache[n] EXCEPT !.stale = TRUE]]
      BY <2>2 DEF Age
    <3>2. [cache[n] EXCEPT !.stale = TRUE] \in Entry /\ [cache[n] EXCEPT !.stale = TRUE].ips = cache[n].ips
      BY <1>2 DEF Entry
    <3> QED BY <3>1, <3>2
  <2> QED BY <2>1, <2>2
<1>4. \A m \in Names : Ips(m)' = Ips(m)
  BY <1>1, <1>2, <1>3, NoEntryAssumption DEF Ips
<1>5. \A m \in Names : have'[m].ips = have[m].ips
  <2>1. CASE Expire(n)
    BY <2>1 DEF Expire, round
  <2>2. CASE Age(n)
    <3>1. have' = [have EXCEPT ![n] = [have[n] EXCEPT !.stale = TRUE]]
      BY <2>2 DEF Age
    <3>2. [have[n] EXCEPT !.stale = TRUE].ips = have[n].ips
      BY <1>1 DEF Entry
    <3> QED BY <1>1, <3>1, <3>2
  <2> QED BY <2>1, <2>2
<1> QED BY <1>4, <1>5

\* A row written by the round holds what the lookup made of it; other names
\* keep theirs.
LEMMA RefreshedIps ==
    ASSUME TInv, NEW n \in Names, RefreshOne(n)
    PROVE  /\ \A m \in Names : m # n => Ips(m)' = Ips(m) /\ have'[m] = have[m] /\ got'[m] = got[m]
           /\ Ips(n)' = Ips(n) \/ Ips(n)' = Refreshed(n).ips
           /\ have[n] \in Entry /\ got[n] \in SUBSET Addr /\ got'[n] = None
<1>1. cache \in [Names -> Entry \cup {None}] /\ have[n] \in Entry /\ got[n] \in SUBSET Addr
  BY DEF TInv, CacheTyped, RoundTyped, RefreshOne
<1>2. Refreshed(n) \in Entry
  BY <1>1 DEF Refreshed, Entry
<1>3. cache' = [cache EXCEPT ![n] = Refreshed(n)] \/ cache' = cache
  BY DEF RefreshOne
<1>4. /\ \A m \in Names : m # n => Ips(m)' = Ips(m)
      /\ Ips(n)' = Ips(n) \/ Ips(n)' = Refreshed(n).ips
  BY <1>1, <1>2, <1>3, NoEntryAssumption DEF Ips
<1>5. /\ \A m \in Names : m # n => have'[m] = have[m] /\ got'[m] = got[m]
      /\ got'[n] = None
  BY DEF RefreshOne, TInv, RoundTyped
<1> QED BY <1>1, <1>4, <1>5

\* refreshOne reports every change of the addresses it started from: after a
\* failed lookup they are kept or dropped altogether, so counting them is enough.
LEMMA DiffersIsExact ==
    ASSUME NEW n \in Names, have[n] \in Entry, got[n] \in SUBSET Addr, ~Differs(n)
    PROVE  Refreshed(n).ips = have[n].ips
<1>1. CASE got[n] # {}
  BY <1>1 DEF Differs, Refreshed
<1>2. CASE got[n] = {}
  <2>1. Refreshed(n).ips = IF have[n].stale THEN {} ELSE have[n].ips
    BY <1>2 DEF Refreshed
  <2>2. Cardinality(Refreshed(n).ips) = Cardinality(have[n].ips)
    BY <1>2 DEF Differs
  <2>3. IsFiniteSet(have[n].ips)
    <3>1. have[n].ips \in SUBSET Addr
      BY DEF Entry
    <3> QED BY <3>1, FS_Subset, RoutesAssumption
  <2>4. CASE have[n].stale
    <3>1. Refreshed(n).ips = {} /\ Cardinality({}) = 0
      BY <2>1, <2>4, FS_EmptySet
    <3>2. Cardinality(have[n].ips) = 0
      BY <2>2, <3>1
    <3>3. have[n].ips = {}
      BY <2>3, <3>2, FS_EmptySet
    <3> QED BY <3>1, <3>3
  <2>5. CASE ~have[n].stale
    BY <2>1, <2>5
  <2> QED BY <2>4, <2>5
<1> QED BY <1>1, <1>2

\* Nothing that Tracking speaks of changes.
LEMMA TrackingFrame ==
    ASSUME Tracking, UNCHANGED <<rpc, wiped, due, got, have, cache>>
    PROVE  Tracking'
BY DEF Tracking, Ips

\* A round goes on comparing with what the cache holds.
LEMMA TrackingStep == TInv /\ Tracking /\ [Next]_vars => Tracking'
<1> SUFFICES ASSUME TInv, Tracking, [Next]_vars PROVE Tracking'
  OBVIOUS
<1>1. CASE Wake
  BY <1>1 DEF Wake, Tracking, Ips, db, history, pass, frr, bounds
<1>2. CASE PlanOnly
  BY <1>2 DEF PlanOnly, Tracking, Ips, db, history, pass, bounds
<1>3. CASE ListProtected
  BY <1>3 DEF ListProtected, Tracking, Ips, db, history, pass, frr, bounds
<1>4. CASE ListCache
  <2> DEFINE entry(n) == IF cache[n] = None THEN NoEntry ELSE cache[n]
             expired == {n \in want : entry(n).due}
  <2>1. \A n \in Names : entry(n).ips = Ips(n)
    BY DEF Ips, NoEntry
  <2>2. (\A n \in Names : got[n] = None) /\ UNCHANGED cache
    BY <1>4 DEF ListCache, Tracking
  <2>3. \A n \in Names : Ips(n)' = Ips(n)
    BY <2>2 DEF Ips
  <2>4. CASE expired = {}
    <3>1. rpc' = "wait" /\ NoRound
      BY <1>4, <2>4 DEF ListCache
    <3> QED BY <3>1 DEF Tracking, NoRound
  <2>5. CASE expired # {}
    <3>1. /\ rpc' = "refresh" /\ due' = expired /\ UNCHANGED got
          /\ have' = [n \in Names |-> IF n \in expired THEN entry(n) ELSE NoEntry]
      BY <1>4, <2>5 DEF ListCache
    <3> HIDE DEF entry, expired
    <3> QED BY <2>1, <2>2, <2>3, <3>1 DEF Tracking
  <2> QED BY <2>4, <2>5
<1>5. ASSUME NEW n \in Names, Lookup(n) PROVE Tracking'
  <2>1. /\ rpc' = rpc /\ rpc = "refresh" /\ n \in due /\ due' = due \ {n} /\ have' = have /\ cache' = cache
        /\ wiped' = wiped
    BY <1>5 DEF Lookup, history
  <2>2. \A m \in Names : m # n => got'[m] = got[m]
    BY <1>5 DEF Lookup, TInv, RoundTyped
  <2>3. \A m \in Names : Ips(m)' = Ips(m)
    BY <2>1 DEF Ips
  <2> QED BY <2>1, <2>2, <2>3 DEF Tracking
<1>6. ASSUME NEW n \in Names, RefreshOne(n) PROVE Tracking'
  <2>1. rpc' = rpc /\ rpc = "refresh" /\ due' = due /\ wiped' = wiped /\ got[n] # None
    BY <1>6 DEF RefreshOne, history
  <2>2. n \notin due
    BY <2>1 DEF Tracking
  <2> QED BY <1>6, <2>1, <2>2, RefreshedIps DEF Tracking
<1>7. CASE RoundDone
  BY <1>7 DEF RoundDone, Tracking, NoRound, db, history, pass, frr, bounds
<1>8. CASE RoundError
  BY <1>8 DEF RoundError, Tracking, NoRound, db, history, pass, frr
<1>9. CASE Load
  BY <1>9 DEF Load, Tracking, Ips, db, round, frr, bounds
<1>10. CASE ClearResolveCache
  BY <1>10 DEF ClearResolveCache, Tracking, Ips, db, round, pass, frr
<1>11. ASSUME NEW n \in Names, Expire(n) PROVE Tracking'
  <2>1. UNCHANGED <<rpc, due, got, wiped>>
    BY <1>11 DEF Expire, round, history
  <2> QED BY <1>11, <2>1, AgingIps DEF Tracking
<1>12. ASSUME NEW n \in Names, Age(n) PROVE Tracking'
  <2>1. UNCHANGED <<rpc, due, got, wiped>>
    BY <1>12 DEF Age, round, history
  <2> QED BY <1>12, <2>1, AgingIps DEF Tracking
<1>13. CASE Crash
  BY <1>13 DEF Crash, Tracking, NoRound, db
<1>14. CASE StartPass \/ LoadHosts \/ Plan \/ PlanError \/ (\E p \in Prefixes : DelRoute(p)) \/ (\E p
          \in Prefixes : AddRoute(p)) \/ RoutesDone \/ RouteError \/ WriteFile \/ UnitJob \/
          FileError \/ Record \/ LoadError \/ (\E s \in Desireds : Mutate(s)) \/ (\E hs \in SUBSET
          HostAddrs : SetHosts(hs)) \/ ResetRoutes \/ (\E n \in Names, ips \in Answers :
          NewAnswer(n, ips)) \/ (\E p \in Prefixes : Flush(p)) \/ UnitFlips
          \/ UNCHANGED vars
  BY <1>14, TrackingFrame DEF StartPass, LoadHosts, Plan, PlanError, DelRoute, AddRoute, RoutesDone, RouteError,
           WriteFile, UnitJob, FileError, Record, LoadError, Mutate, SetHosts, ResetRoutes,
           NewAnswer, Flush, UnitFlips, vars, db, history, round, pass, frr, bounds
<1> QED BY <1>1, <1>2, <1>3, <1>4, <1>5, <1>6, <1>7, <1>8, <1>9, <1>10, <1>11, <1>12, <1>13, <1>14
           DEF Next, Round, Pass, Failure, Operator, Time

\* Nothing that NoLostAnswer speaks of changes.
LEMMA AnswerFrame ==
    ASSUME NoLostAnswer, UNCHANGED <<rpc, wiped, changed, notify, ppc, snap, cache>>
    PROVE  NoLostAnswer'
BY DEF NoLostAnswer, Ips

\* An answer that the last pass has not seen is announced by its round.
LEMMA AnswerStep == TInv /\ Tracking /\ NoLostAnswer /\ [Next]_vars => NoLostAnswer'
<1> SUFFICES ASSUME TInv, Tracking, NoLostAnswer, [Next]_vars PROVE NoLostAnswer'
  OBVIOUS
<1>1. CASE Wake
  BY <1>1 DEF Wake, NoLostAnswer, Ips, db, history, pass, frr, bounds
<1>2. CASE PlanOnly
  BY <1>2 DEF PlanOnly, NoLostAnswer, Ips, db, history, pass, bounds
<1>3. CASE ListProtected
  BY <1>3 DEF ListProtected, NoLostAnswer, Ips, db, history, pass, frr, bounds
<1>4. CASE ListCache
  BY <1>4 DEF ListCache, NoLostAnswer, Ips, db, history, pass, frr, bounds
<1>5. ASSUME NEW n \in Names, RefreshOne(n) PROVE NoLostAnswer'
  <2>1. /\ UNCHANGED <<rpc, wiped, notify, ppc, snap>> /\ rpc = "refresh" /\ got[n] # None
        /\ changed' = (changed \/ Differs(n))
    BY <1>5 DEF RefreshOne, pass, history
  <2>2. CASE Differs(n) \/ changed
    BY <2>1, <2>2 DEF NoLostAnswer
  <2>3. CASE ~Differs(n) /\ ~wiped
    <3>1. have[n].ips = Ips(n)
      BY <2>1, <2>3 DEF Tracking
    <3>2. \A m \in Names : Ips(m)' = Ips(m)
      BY <1>5, <2>3, <3>1, RefreshedIps, DiffersIsExact
    <3> QED BY <2>1, <3>2 DEF NoLostAnswer
  <2>4. CASE wiped
    BY <2>1, <2>4 DEF NoLostAnswer
  <2> QED BY <2>2, <2>3, <2>4
<1>6. CASE RoundDone
  BY <1>6 DEF RoundDone, NoLostAnswer, Ips, db, history, pass, frr, bounds
<1>7. CASE RoundError
  BY <1>7 DEF RoundError, NoLostAnswer, Ips, db, history, pass, frr
<1>8. CASE StartPass
  BY <1>8 DEF StartPass, NoLostAnswer, Ips, db, history, round, frr, bounds
<1>9. CASE Load
  <2>1. \A n \in Names : Ips(n)' = snap'.known[n]
    BY <1>9 DEF Load, Ips
  <2> QED BY <2>1 DEF NoLostAnswer
<1>10. CASE LoadHosts
  <2>1. UNCHANGED <<rpc, changed, wiped, notify, cache>> /\ (ppc' = "load" \/ ppc = "hosts")
    BY <1>10 DEF LoadHosts, round, history
  <2>2. snap'.known = snap.known
    BY <1>10 DEF LoadHosts, TInv, PassTyped, Snapshot
  <2> QED BY <2>1, <2>2 DEF NoLostAnswer, Ips
<1>11. CASE Plan
  BY <1>11 DEF Plan, NoLostAnswer, Ips, db, round, bounds
<1>12. CASE PlanError
  BY <1>12 DEF PlanError, NoLostAnswer, Ips, db, round
<1>13. CASE RoutesDone
  BY <1>13 DEF RoutesDone, NoLostAnswer, Ips, db, history, round, bounds
<1>14. CASE RouteError
  BY <1>14 DEF RouteError, NoLostAnswer, Ips, ApplyError, db, history, round
<1>15. CASE UnitJob
  BY <1>15 DEF UnitJob, NoLostAnswer, Ips, db, round, bounds
<1>16. CASE FileError
  BY <1>16 DEF FileError, NoLostAnswer, Ips, ApplyError, db, history, round
<1>17. CASE Record
  BY <1>17 DEF Record, NoLostAnswer, Ips, db, round, frr, bounds
<1>18. CASE LoadError
  BY <1>18 DEF LoadError, NoLostAnswer, Ips, db, history, round, frr
<1>19. ASSUME NEW s \in Desireds, Mutate(s) PROVE NoLostAnswer'
  BY <1>19 DEF Mutate, NoLostAnswer, Ips, history, round, pass, frr
<1>20. CASE ClearResolveCache
  BY <1>20 DEF ClearResolveCache, NoLostAnswer, Ips, db, round, pass, frr
<1>21. CASE ResetRoutes
  BY <1>21 DEF ResetRoutes, NoLostAnswer, Ips, db, history, round, pass, frr
<1>22. ASSUME NEW n \in Names, Expire(n) PROVE NoLostAnswer'
  <2>1. UNCHANGED <<rpc, changed, wiped, notify, ppc, snap>>
    BY <1>22 DEF Expire, round, pass, history
  <2> QED BY <1>22, <2>1, AgingIps DEF NoLostAnswer
<1>23. ASSUME NEW n \in Names, Age(n) PROVE NoLostAnswer'
  <2>1. UNCHANGED <<rpc, changed, wiped, notify, ppc, snap>>
    BY <1>23 DEF Age, round, pass, history
  <2> QED BY <1>23, <2>1, AgingIps DEF NoLostAnswer
<1>24. CASE Crash
  BY <1>24 DEF Crash, NoLostAnswer, Ips, db
<1>25. CASE (\E n \in Names : Lookup(n)) \/ (\E p \in Prefixes : DelRoute(p)) \/ (\E p \in Prefixes :
          AddRoute(p)) \/ WriteFile \/ (\E hs \in SUBSET HostAddrs : SetHosts(hs)) \/ (\E n \in
          Names, ips \in Answers : NewAnswer(n, ips)) \/ (\E p \in Prefixes : Flush(p)) \/ UnitFlips
          \/ UNCHANGED vars
  BY <1>25, AnswerFrame DEF Lookup, DelRoute, AddRoute, WriteFile, SetHosts, NewAnswer, Flush, UnitFlips, vars, db,
           history, round, pass, frr, bounds
<1> QED BY <1>1, <1>2, <1>3, <1>4, <1>5, <1>6, <1>7, <1>8, <1>9, <1>10, <1>11, <1>12, <1>13, <1>14, <1>15, <1>16,
           <1>17, <1>18, <1>19, <1>20, <1>21, <1>22, <1>23, <1>24, <1>25
           DEF Next, Round, Pass, Failure, Operator, Time

-------------------------------------------------------------------------------
(* The theorems. *)

IInv == TInv /\ Exchange /\ NoOverlap /\ Arrived /\ PublishedIsInstalled /\ Tracking /\ NoLostAnswer

\* The invariant of the resolver, the pass and the tables.
LEMMA RoutesInvariant == Spec => []IInv
<1>1. Init => IInv
  <2> SUFFICES ASSUME Init PROVE IInv
    OBVIOUS
  <2>1. TInv
    BY InitTyped
  <2>2. Exchange /\ Arrived /\ NoOverlap /\ PublishedIsInstalled
    BY DEF Init, Exchange, Arrived, NoOverlap, Antichain, PublishedIsInstalled
  <2>3. Tracking /\ NoLostAnswer
    BY DEF Init, Tracking, NoLostAnswer
  <2> QED BY <2>1, <2>2, <2>3 DEF IInv
<1>2. IInv /\ [Next]_vars => IInv'
  BY TypedStep, ExchangeStep, NoOverlapStep, ArrivedStep, PublishedStep, TrackingStep, AnswerStep DEF IInv
<1> QED BY <1>1, <1>2, PTL DEF Spec

\* Types, and no more lookups under way than there are workers (Refresh).
THEOREM RoutesTypeCorrect == Spec => []TypeOK
<1>1. IInv => TypeOK
  BY TypeParts DEF IInv
<1> QED BY <1>1, RoutesInvariant, PTL

\* No announced prefix ever covers another one, half way through an exchange,
\* after a failed one and across a crash too (route driver, apply).
THEOREM RoutesNeverOverlap == Spec => []NoOverlap
<1>1. IInv => NoOverlap
  BY DEF IInv
<1> QED BY <1>1, RoutesInvariant, PTL

\* Once a pass has withdrawn what it does not want, no announced prefix
\* attracts the traffic to a node or a managed host (protectedPrefixes).
THEOREM EndpointsStayOut == Spec => []EndpointsKeptOut
<1>1. IInv => EndpointsKeptOut
  BY EndpointsClear DEF IInv
<1> QED BY <1>1, RoutesInvariant, PTL

\* A route shown as published is installed (persistRoutes).
THEOREM ClaimsAreTrue == Spec => []PublishedIsInstalled
<1>1. IInv => PublishedIsInstalled
  BY DEF IInv
<1> QED BY <1>1, RoutesInvariant, PTL

\* Answers that the last pass has not loaded are on their way to one
\* (refreshOne, Loop).
THEOREM AnswersAreNotLost == Spec => []NoLostAnswer
<1>1. IInv => NoLostAnswer
  BY DEF IInv
<1> QED BY <1>1, RoutesInvariant, PTL

===============================================================================
