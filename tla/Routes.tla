-------------------------------- MODULE Routes --------------------------------
(***************************************************************************)
(* How announced routes follow the desired state: the resolver loop        *)
(* (internal/resolver) that keeps the resolve cache fresh, the pass of the  *)
(* reconciler as far as the FRR component is concerned, and the FRR and     *)
(* kernel route drivers (internal/driver/frr, internal/driver/route).       *)
(*                                                                          *)
(* The cache and the managed hosts carry no generation.  The resolver and   *)
(* the pass run concurrently; every name looked up and every row, route     *)
(* and file written is a step.  Times are events: an entry expires, an      *)
(* answer passes its grace period.                                          *)
(***************************************************************************)
EXTENDS RouteSet, FiniteSets

CONSTANTS
    Ifaces,        \* interfaces OSPF can join; frr.conf depends on nothing else
    Desireds,      \* desired states an operator can choose
    Starts,        \* those the process can start with
    Answers,       \* what the local Mosdns can answer for a name
    Bogons,        \* addresses the resolver drops from answers
    HostAddrs,     \* addresses managed hosts can have
    Workers,       \* Resolver.Workers
    None,          \* no row, no file, no lookup under way
    MaxWrites,     \* bound: writes by operators, changes of answers
    MaxFaults      \* bound: failed calls, outside interference and deaths of the process

ASSUME RoutesAssumption ==
    /\ \A s \in Desireds :
        /\ s.mode \in {"A", "B", "C"} /\ s.iface \in Ifaces
        /\ s.ip \subseteq Prefixes /\ s.domain \subseteq Names
    /\ IsFiniteSet(Addr)
    /\ Starts \subseteq Desireds
    /\ Answers \subseteq SUBSET Addr
    /\ Bogons \subseteq Addr
    /\ None \notin Ifaces
    /\ Workers \in Nat \ {0}
    /\ MaxWrites \in Nat /\ MaxFaults \in Nat

VARIABLES
    desired, hosts,       \* the tables; remote_hosts
    cache,                \* resolve_cache
    dns,                  \* what Mosdns answers now
    notify,               \* the one-place channel of the reconciler
    rpc, want, have, due, got, changed,   \* one round of the resolver
    ppc, snap, del, add, todo, unit,      \* one pass
    kernel,               \* table 200
    conf, ospfd,          \* frr.conf and the ospfd line of the daemons file
    up,                   \* frr.service is active
    installed,            \* /etc/frr exists
    frrErr, routeErr,     \* lastErr of the two drivers
    frrMode,              \* frr.Driver.mode
    claimed,              \* rows of routes_published that say "published"
    good,                 \* history: the last pass was good for FRR
    noplan, blind,        \* history: see PublishedIsInstalled
    wiped,                \* history: see NoLostAnswer
    writes, faults

db == <<desired, hosts, dns>>
round == <<rpc, want, have, due, got, changed>>
pass == <<ppc, snap, del, add, todo, unit>>
frr == <<conf, ospfd, up, installed, frrErr, routeErr, frrMode>>
history == <<good, noplan, blind, wiped>>
bounds == <<writes, faults>>
vars == <<db, cache, notify, round, pass, kernel, frr, claimed, history, bounds>>

Entry == [ips : SUBSET Addr, due : BOOLEAN, stale : BOOLEAN]
NoEntry == [ips |-> {}, due |-> TRUE, stale |-> TRUE]
ASSUME NoEntryAssumption == None \notin Entry
Snapshot == [s : Desireds, hosts : SUBSET (HostAddrs \cup Names), known : Known]

\* The names whose answers the workers hold.
Busy == {n \in Names : got[n] # None}

TypeOK ==
    /\ desired \in Desireds /\ hosts \subseteq HostAddrs
    /\ cache \in [Names -> Entry \cup {None}] /\ dns \in [Names -> Answers]
    /\ notify \in BOOLEAN
    /\ rpc \in {"wait", "domains", "protected", "list", "refresh"}
    /\ want \subseteq Names /\ due \subseteq want /\ changed \in BOOLEAN
    /\ have \in [Names -> Entry]
    /\ got \in [Names -> (SUBSET Addr) \cup {None}]
    /\ Cardinality(Busy) <= Workers
    /\ ppc \in {"idle", "load", "hosts", "plan", "routes", "files", "record"}
    /\ snap \in Snapshot
    /\ del \subseteq Prefixes /\ add \subseteq Prefixes
    /\ todo \subseteq {"conf", "daemons"} /\ unit \in {"none", "start", "restart", "stop"}
    /\ kernel \subseteq Prefixes /\ claimed \subseteq Prefixes
    /\ conf \in Ifaces \cup {None} /\ ospfd \in BOOLEAN /\ up \in BOOLEAN /\ installed \in BOOLEAN
    /\ up => installed
    /\ frrErr \in BOOLEAN /\ routeErr \in BOOLEAN /\ frrMode \in {"", "A", "B", "C"}
    /\ good \in BOOLEAN /\ noplan \in BOOLEAN /\ blind \in BOOLEAN /\ wiped \in BOOLEAN
    /\ writes \in 0 .. MaxWrites /\ faults \in 0 .. MaxFaults

\* What a round and a pass keep in local variables, when none is running.
NoRound == /\ want' = {} /\ due' = {} /\ changed' = FALSE
           /\ have' = [n \in Names |-> NoEntry] /\ got' = [n \in Names |-> None]
NoPass == del' = {} /\ add' = {} /\ todo' = {} /\ unit' = "none"

EmptySnapshot(s) == [s |-> s, hosts |-> {}, known |-> [n \in Names |-> {}]]

\* A fresh start: Run begins with a pass, the resolver with a round.
Init ==
    /\ desired \in Starts /\ hosts = {}
    /\ cache = [n \in Names |-> None] /\ dns \in [Names -> Answers]
    /\ notify = FALSE
    /\ rpc = "domains" /\ want = {} /\ due = {} /\ changed = FALSE
    /\ have = [n \in Names |-> NoEntry] /\ got = [n \in Names |-> None]
    /\ ppc = "load" /\ snap = EmptySnapshot(desired)
    /\ del = {} /\ add = {} /\ todo = {} /\ unit = "none"
    /\ kernel = {} /\ claimed = {}
    /\ conf = None /\ ospfd = FALSE /\ up = FALSE /\ installed \in BOOLEAN
    /\ frrErr = FALSE /\ routeErr = FALSE /\ frrMode = ""
    /\ good = FALSE /\ noplan = FALSE /\ blind = FALSE /\ wiped = FALSE
    /\ writes = 0 /\ faults = 0

Fault == faults < MaxFaults /\ faults' = faults + 1 /\ UNCHANGED writes
Write == writes < MaxWrites /\ writes' = writes + 1 /\ UNCHANGED faults

-------------------------------------------------------------------------------
(* The resolver. *)

Ips(n) == IF cache[n] = None THEN {} ELSE cache[n].ips

\* The loop's timer fires; Kick only makes it fire sooner.
Wake ==
    /\ rpc = "wait"
    /\ rpc' = "domains"
    /\ UNCHANGED <<db, cache, notify, want, have, due, got, changed, pass, kernel, frr, claimed, history, bounds>>

\* The names come from two loads: PlanOnly, which also asks the FRR driver
\* for a plan and so sets its mode, and a second snapshot for the endpoints.
PlanOnly ==
    /\ rpc = "domains"
    /\ frrMode' = desired.mode
    /\ IF desired.mode = "A" THEN rpc' = "wait" /\ want' = {}
                             ELSE rpc' = "protected" /\ want' = Tracked(desired)
    /\ UNCHANGED <<db, cache, notify, have, due, got, changed, pass, kernel, conf, ospfd, up,
                   installed, frrErr, routeErr, claimed, history, bounds>>

ListProtected ==
    /\ rpc = "protected"
    /\ want' = want \cup ProtectedDomains(desired, hosts)
    /\ rpc' = IF want' = {} THEN "wait" ELSE "list"
    /\ UNCHANGED <<db, cache, notify, have, due, got, changed, pass, kernel, frr, claimed, history, bounds>>

\* Refresh: the entries as they are now; those missing or expired are due.
ListCache ==
    /\ rpc = "list"
    /\ LET entry(n) == IF cache[n] = None THEN NoEntry ELSE cache[n]
           expired == {n \in want : entry(n).due}
       IN  IF expired = {} THEN rpc' = "wait" /\ NoRound
           ELSE /\ rpc' = "refresh" /\ due' = expired
                /\ have' = [n \in Names |-> IF n \in expired THEN entry(n) ELSE NoEntry]
                /\ UNCHANGED <<want, got, changed>>
    /\ UNCHANGED <<db, cache, notify, pass, kernel, frr, claimed, history, bounds>>

\* A worker asks Mosdns; bogons are dropped, an answer without an address is an error.
Lookup(n) ==
    /\ rpc = "refresh" /\ n \in due
    /\ Cardinality(Busy) < Workers
    /\ \/ got' = [got EXCEPT ![n] = dns[n] \ Bogons] /\ UNCHANGED bounds
       \/ got' = [got EXCEPT ![n] = {}] /\ Fault
    /\ due' = due \ {n}
    /\ UNCHANGED <<db, cache, notify, rpc, want, have, changed, pass, kernel, frr, claimed, history>>

\* A failed lookup keeps the old answer until its grace period is over.
Refreshed(n) ==
    IF got[n] # {} THEN [ips |-> got[n], due |-> FALSE, stale |-> FALSE]
    ELSE [ips |-> IF have[n].stale THEN {} ELSE have[n].ips, due |-> FALSE, stale |-> have[n].stale]

\* Mutant: only a successful lookup counts as a change.
DiffersIfResolved(n) == got[n] # {} /\ got[n] # have[n].ips

\* What refreshOne reports: another answer, or after an error another number
\* of addresses, compared with the entry the round began with.
Differs(n) ==
    IF got[n] # {} THEN got[n] # have[n].ips
    ELSE Cardinality(Refreshed(n).ips) # Cardinality(have[n].ips)

\* UpsertResolveCache; an error is logged and the result kept.
RefreshOne(n) ==
    /\ rpc = "refresh" /\ got[n] # None
    /\ \/ cache' = [cache EXCEPT ![n] = Refreshed(n)] /\ UNCHANGED bounds
       \/ UNCHANGED cache /\ Fault
    /\ changed' = (changed \/ Differs(n))
    /\ got' = [got EXCEPT ![n] = None] /\ have' = [have EXCEPT ![n] = NoEntry]
    /\ UNCHANGED <<db, notify, rpc, want, due, pass, kernel, frr, claimed, history>>

RoundDone ==
    /\ rpc = "refresh" /\ due = {} /\ \A n \in Names : got[n] = None
    /\ rpc' = "wait" /\ NoRound
    /\ notify' = (notify \/ changed)
    /\ UNCHANGED <<db, cache, pass, kernel, frr, claimed, history, bounds>>

\* Loading or listing fails: the loop waits for its minimum interval.
RoundError ==
    /\ rpc \in {"domains", "protected", "list"}
    /\ rpc' = "wait" /\ NoRound
    /\ Fault
    /\ UNCHANGED <<db, cache, notify, pass, kernel, frr, claimed, history>>

-------------------------------------------------------------------------------
(* The pass. *)

\* The reconciler is notified, or its resync ticker fires.
StartPass ==
    /\ ppc = "idle"
    /\ ppc' = "load" /\ notify' = FALSE
    /\ UNCHANGED <<db, cache, round, snap, del, add, todo, unit, kernel, frr, claimed, history, bounds>>

\* desired.Load reads the managed hosts last; it starts again if the desired
\* state was written meanwhile.
Load ==
    /\ ppc = "load"
    /\ snap' = [s |-> desired, hosts |-> {}, known |-> [n \in Names |-> Ips(n)]]
    /\ ppc' = "hosts"
    /\ good' = FALSE
    /\ wiped' = (wiped /\ rpc = "refresh")
    /\ UNCHANGED <<db, cache, notify, round, del, add, todo, unit, kernel, frr, claimed, noplan, blind, bounds>>

LoadHosts ==
    /\ ppc = "hosts"
    /\ IF snap.s # desired THEN ppc' = "load" /\ UNCHANGED snap
       ELSE ppc' = "plan" /\ snap' = [snap EXCEPT !.hosts = hosts]
    /\ UNCHANGED <<db, cache, notify, round, del, add, todo, unit, kernel, frr, claimed, history, bounds>>

\* Artifacts.Routes
Wanted == Publish(snap.s, snap.hosts, snap.known)

\* Without FRR nothing is announced in Mode B and C.
Absent == snap.s.mode # "A" /\ ~installed

Files == IF snap.s.mode = "A" THEN {}
         ELSE {f \in {"conf", "daemons"} : IF f = "conf" THEN conf # snap.s.iface ELSE ~ospfd}

\* Mutant: the unit is only looked at when a file is written.
UnitForFiles(files) ==
    IF snap.s.mode = "A" THEN IF up THEN "stop" ELSE "none"
    ELSE IF files = {} THEN "none" ELSE IF up THEN "restart" ELSE "start"

UnitFor(files) ==
    IF snap.s.mode = "A" THEN IF up THEN "stop" ELSE "none"
    ELSE IF ~up THEN "start" ELSE IF files # {} THEN "restart" ELSE "none"

\* In Mode A a unit whose state cannot be read counts as stopped.
StopUnseen == snap.s.mode = "A" /\ up /\ Fault /\ unit' = "none"

\* Plan of both drivers compares with the kernel's table, the files and the
\* unit as they are.
Plan ==
    /\ ppc = "plan"
    /\ frrMode' = snap.s.mode
    /\ noplan' = FALSE
    /\ IF Absent
       THEN ppc' = "record" /\ good' = TRUE /\ UNCHANGED <<del, add, todo, unit, bounds>>
       ELSE /\ del' = kernel \ Wanted /\ add' = Wanted \ kernel
            /\ todo' = Files
            /\ \/ unit' = UnitFor(Files) /\ UNCHANGED bounds
               \/ StopUnseen
            /\ IF del' \cup add' = {} /\ todo' = {} /\ unit' = "none"
               THEN ppc' = "record" /\ good' = TRUE
               ELSE ppc' = (IF del' \cup add' = {} THEN "files" ELSE "routes") /\ UNCHANGED good
    /\ UNCHANGED <<db, cache, notify, round, snap, kernel, conf, ospfd, up, installed, frrErr, routeErr,
                   claimed, blind, wiped>>

\* The kernel's table or the unit's state cannot be read.
PlanError ==
    /\ ppc = "plan" /\ installed /\ Fault
    /\ frrMode' = snap.s.mode
    /\ noplan' = TRUE
    /\ ppc' = "record"
    /\ UNCHANGED <<db, cache, notify, round, snap, del, add, todo, unit, kernel, conf, ospfd, up,
                   installed, frrErr, routeErr, claimed, good, blind, wiped>>

\* apply of the route driver: paced deletions, then paced additions; the
\* order within each does not matter here.
DelRoute(p) ==
    /\ ppc = "routes" /\ p \in del
    /\ kernel' = kernel \ {p} /\ del' = del \ {p}
    /\ blind' = TRUE
    /\ UNCHANGED <<db, cache, notify, round, ppc, snap, add, todo, unit, frr, claimed, good, noplan, wiped, bounds>>

\* Mutant: additions do not wait for the deletions.
AddRouteEarly(p) ==
    /\ ppc = "routes" /\ p \in add
    /\ kernel' = kernel \cup {p} /\ add' = add \ {p}
    /\ UNCHANGED <<db, cache, notify, round, ppc, snap, del, todo, unit, frr, claimed, history, bounds>>

AddRoute(p) ==
    /\ ppc = "routes" /\ del = {} /\ p \in add
    /\ kernel' = kernel \cup {p} /\ add' = add \ {p}
    /\ UNCHANGED <<db, cache, notify, round, ppc, snap, del, todo, unit, frr, claimed, history, bounds>>

RoutesDone ==
    /\ ppc = "routes" /\ del = {} /\ add = {}
    /\ ppc' = "files" /\ routeErr' = FALSE
    /\ UNCHANGED <<db, cache, notify, round, snap, del, add, todo, unit, kernel, conf, ospfd, up, installed,
                   frrErr, frrMode, claimed, history, bounds>>

\* Apply of the FRR driver ends with an error.
ApplyError ==
    /\ ppc' = "record"
    /\ frrMode' = snap.s.mode
    /\ frrErr' = TRUE

\* A netlink call fails, or the pause between two batches is cancelled.
RouteError ==
    /\ ppc = "routes" /\ del \cup add # {} /\ Fault
    /\ ApplyError /\ routeErr' = TRUE
    /\ UNCHANGED <<db, cache, notify, round, snap, del, add, todo, unit, kernel, conf, ospfd, up, installed,
                   claimed, history>>

\* frr.conf, then the daemons file.
WriteFile ==
    /\ ppc = "files" /\ todo # {}
    /\ IF "conf" \in todo THEN conf' = snap.s.iface /\ todo' = todo \ {"conf"} /\ UNCHANGED ospfd
                          ELSE ospfd' = TRUE /\ todo' = {} /\ UNCHANGED conf
    /\ UNCHANGED <<db, cache, notify, round, ppc, snap, del, add, unit, kernel, up, installed, frrErr,
                   routeErr, frrMode, claimed, history, bounds>>

\* The unit's job; then Apply has succeeded.
UnitJob ==
    /\ ppc = "files" /\ todo = {}
    /\ up' = CASE unit = "none" -> up [] unit = "stop" -> FALSE [] OTHER -> TRUE
    /\ ppc' = "record" /\ frrErr' = FALSE /\ frrMode' = snap.s.mode /\ good' = TRUE
    /\ UNCHANGED <<db, cache, notify, round, snap, del, add, todo, unit, kernel, conf, ospfd, installed,
                   routeErr, claimed, noplan, blind, wiped, bounds>>

\* A write or the job fails; the job may have had any effect.
FileError ==
    /\ ppc = "files" /\ Fault
    /\ todo # {} \/ unit # "none"
    /\ IF todo # {} THEN UNCHANGED up ELSE up' \in BOOLEAN
    /\ ApplyError
    /\ UNCHANGED <<db, cache, notify, round, snap, del, add, todo, unit, kernel, conf, ospfd, installed,
                   routeErr, claimed, history>>

\* Mutant: the errors kept from Apply are left out.
UnhealthyUnit == frrMode \notin {"", "A"} /\ (~installed \/ ~up)

\* Health of the FRR component, as far as the reconciler uses it.
Unhealthy == frrMode \notin {"", "A"} /\ (~installed \/ ~up \/ frrErr \/ routeErr)

\* persistRoutes.  Reading the unit's state or writing the table may fail.
Record ==
    /\ ppc = "record"
    /\ ppc' = "idle" /\ NoPass
    /\ \/ /\ claimed' = IF Unhealthy THEN {} ELSE Wanted
          /\ blind' = (noplan \/ frrMode # snap.s.mode)
          /\ UNCHANGED bounds
       \/ Fault /\ claimed' = Wanted /\ blind' = TRUE
       \/ Fault /\ UNCHANGED <<claimed, blind>>
    /\ noplan' = FALSE
    /\ UNCHANGED <<db, cache, notify, round, snap, kernel, frr, good, wiped>>

\* Loading or rendering fails: the pass ends before any driver.
LoadError ==
    /\ ppc \in {"load", "hosts"} /\ Fault
    /\ ppc' = "idle"
    /\ notify' = TRUE     \* the retry timer
    /\ UNCHANGED <<db, cache, round, snap, del, add, todo, unit, kernel, frr, claimed, history>>

-------------------------------------------------------------------------------
(* Operators, time and the outside world. *)

\* mutate: a new desired state, then Notify and Kick.
Mutate(s) ==
    /\ Write /\ s # desired
    /\ desired' = s /\ notify' = TRUE
    /\ UNCHANGED <<hosts, cache, dns, round, pass, kernel, frr, claimed, history>>

\* A managed host is created or deleted: nobody is notified.
SetHosts(hs) ==
    /\ Write /\ hs # hosts
    /\ hosts' = hs
    /\ UNCHANGED <<desired, cache, dns, notify, round, pass, kernel, frr, claimed, history>>

\* clearDNSCache; putDNS does the same without Notify when the upstreams change.
ClearResolveCache ==
    /\ Write
    /\ cache' = [n \in Names |-> None]
    /\ notify' \in {notify, TRUE}
    /\ wiped' = TRUE
    /\ UNCHANGED <<db, round, pass, kernel, frr, claimed, good, noplan, blind>>

\* resetRoutes
ResetRoutes ==
    /\ Write
    /\ claimed' = {} /\ notify' = TRUE
    /\ UNCHANGED <<db, cache, round, pass, kernel, frr, history>>

NewAnswer(n, ips) ==
    /\ Write /\ dns[n] # ips
    /\ dns' = [dns EXCEPT ![n] = ips]
    /\ UNCHANGED <<desired, hosts, cache, notify, round, pass, kernel, frr, claimed, history>>

\* An entry's time to live is over.
Expire(n) ==
    /\ cache[n] # None /\ ~cache[n].due
    /\ cache' = [cache EXCEPT ![n].due = TRUE]
    /\ UNCHANGED <<db, notify, round, pass, kernel, frr, claimed, history, bounds>>

\* StaleGrace is over, for a round that holds the entry too.
Age(n) ==
    /\ cache[n] # None /\ cache[n].due /\ ~cache[n].stale
    /\ cache' = [cache EXCEPT ![n].stale = TRUE]
    /\ have' = [have EXCEPT ![n].stale = TRUE]
    /\ UNCHANGED <<db, notify, rpc, want, due, got, changed, pass, kernel, frr, claimed, history, bounds>>

\* Somebody removes a route, or the unit stops or starts by itself.
Flush(p) ==
    /\ Fault /\ p \in kernel
    /\ kernel' = kernel \ {p}
    /\ noplan' = TRUE /\ blind' = TRUE
    /\ UNCHANGED <<db, cache, notify, round, pass, frr, claimed, good, wiped>>

UnitFlips ==
    /\ Fault /\ installed
    /\ up' = ~up
    /\ UNCHANGED <<db, cache, notify, round, pass, kernel, conf, ospfd, installed, frrErr, routeErr, frrMode,
                   claimed, history>>

\* The process dies and is started again; disk, kernel and unit stay.
Crash ==
    /\ Fault
    /\ notify' = FALSE
    /\ rpc' = "domains" /\ NoRound
    /\ ppc' = "load" /\ snap' = EmptySnapshot(desired) /\ NoPass
    /\ frrErr' = FALSE /\ routeErr' = FALSE /\ frrMode' = ""
    /\ good' = FALSE /\ noplan' = FALSE /\ blind' = TRUE /\ wiped' = FALSE
    /\ UNCHANGED <<db, cache, kernel, conf, ospfd, up, installed, claimed>>

-------------------------------------------------------------------------------

Round == PlanOnly \/ ListProtected \/ ListCache \/ RoundDone \/ \E n \in Names : Lookup(n) \/ RefreshOne(n)

Pass == \/ Load \/ LoadHosts \/ Plan \/ RoutesDone \/ WriteFile \/ UnitJob \/ Record
        \/ \E p \in Prefixes : DelRoute(p) \/ AddRoute(p)

Failure == RoundError \/ PlanError \/ RouteError \/ FileError \/ LoadError \/ UnitFlips
           \/ \E p \in Prefixes : Flush(p)

Operator ==
    \/ \E s \in Desireds : Mutate(s)
    \/ \E hs \in SUBSET HostAddrs : SetHosts(hs)
    \/ ClearResolveCache \/ ResetRoutes
    \/ \E n \in Names : \E ips \in Answers : NewAnswer(n, ips)

Time == \E n \in Names : Expire(n) \/ Age(n)

Next == Wake \/ Round \/ StartPass \/ Pass \/ Failure \/ Operator \/ Time \/ Crash

Spec == Init /\ [][Next]_vars

\* Goroutines run, timers fire and time passes; operators and faults stop.
FairSpec ==
    /\ Spec
    /\ WF_vars(Wake) /\ WF_vars(Round) /\ WF_vars(StartPass) /\ WF_vars(Pass)
    /\ \A n \in Names : WF_vars(Expire(n)) /\ WF_vars(Age(n))

-------------------------------------------------------------------------------
(* Properties. *)

\* "a shrinking set never has a window with both the broad and the narrow
\* prefix present" (route driver, apply): not while routes are exchanged, not
\* after an exchange that failed half way, and not across a crash.
NoOverlap == Antichain(kernel)

\* The path to a node or a managed host is not attracted to the gateway
\* (protectedPrefixes): once a pass has deleted what it does not want, no
\* announced prefix contains an address its snapshot knows for one of them,
\* whatever earlier passes left half done.
Withdrawn == good \/ (ppc = "routes" /\ del = {}) \/ ppc = "files"
EndpointsKeptOut ==
    Withdrawn => \A p \in kernel : p \cap Protected(snap.s, snap.hosts, snap.known) = {}

\* A route shown as published is installed (persistRoutes, StatePublished),
\* unless the pass that recorded it had no plan or lost its mode to PlanOnly,
\* or routes were changed since.
PublishedIsInstalled == ~blind => claimed \subseteq kernel

\* The loop "wakes the reconciler when answers change": answers that differ
\* from those the last pass loaded are on their way to it, unless the cache
\* was cleared under a round, which compares with what it had read before.
NoLostAnswer ==
    \/ \A n \in Names : Ips(n) = snap.known[n]
    \/ wiped \/ notify \/ ppc = "load" \/ (rpc = "refresh" /\ changed)

\* When operators, answers and faults come to rest, the table comes to hold
\* the routes of the desired state with the answers as they are, and FRR
\* runs exactly in Mode B and C.
Truth == [n \in Names |-> dns[n] \ Bogons]
RoutesConverge ==
    <>[](installed => kernel = Publish(desired, hosts, Truth) /\ (up <=> desired.mode # "A"))

===============================================================================
