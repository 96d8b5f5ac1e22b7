------------------------------ MODULE AuthProofs ------------------------------
(***************************************************************************)
(* Theorems about module Auth, for any number of requests, addresses,       *)
(* sessions and tokens and any limits: the generated password stays         *)
(* readable, a password change revokes what it promises to, the limiter     *)
(* bounds the failures of a source and no session outlives its lifetime.    *)
(***************************************************************************)
EXTENDS Auth, TLAPS, FiniteSetTheorems

\* What a request holds at each of its steps.
ByCookie == {"session", "touch", "admin", "change", "set", "mint", "logout"} \cup Changing
Shape(x) ==
    /\ x.pc \in {"check", "delay", "verify", "create"} => x.who \in IPs
    /\ x.pc \in ByCookie => x.who \in Sessions
    /\ x.pc = "token" => x.who \in Tokens /\ x.op \notin NeedsSession
    /\ x.pc \in {"session", "touch", "admin"} => x.op # "login"

Shaped == \A r \in Requests : Shape(q[r])

\* Requests are served once the account exists; until then there is nothing
\* to log in with.
Phases ==
    /\ boot = "serve" => admin # None
    /\ boot \in {"file", "set"} => admin = None
    /\ \A r \in Requests : q[r].pc # "idle" => boot = "serve"
    /\ admin = None => /\ \A s \in Sessions : sessions[s] = None
                       /\ \A t \in Tokens : tokens[t] = None

\* What the proofs of all the properties rest on.
Base == TypeOK /\ Shaped /\ Phases

-------------------------------------------------------------------------------
(* How a step moves a request. *)

\* r's request becomes x, the others stay.
Moves(r, x) == q' = [q EXCEPT ![r] = x] /\ x \in Request /\ Shape(x)

\* A request goes on to step p.
LEMMA GotoMoves ==
    ASSUME Base, NEW r \in Requests, NEW p, Goto(r, p),
           p \in {"delay", "verify", "touch", "admin", "set"} \cup Ops \cup Changing,
           p \in {"delay", "verify"} => q[r].who \in IPs,
           p \in ByCookie => q[r].who \in Sessions,
           p \in {"touch", "admin"} => q[r].op # "login"
    PROVE  Moves(r, [q[r] EXCEPT !.pc = p])
<1>1. q[r] \in Request
  BY DEF Base, TypeOK
<1>2. [q[r] EXCEPT !.pc = p] \in Request
  BY <1>1 DEF Request
<1>3. Shape([q[r] EXCEPT !.pc = p])
  BY <1>1 DEF Request, Shape, Ops, ByCookie, Changing, NeedsSession
<1>4. q' = [q EXCEPT ![r] = [q[r] EXCEPT !.pc = p]]
  BY DEF Goto
<1> QED
  BY <1>2, <1>3, <1>4 DEF Moves

\* A request goes on to step p with the password in force.
Sees(r, p) == q' = [q EXCEPT ![r].pc = p, ![r].seen = admin.pw]

\* It keeps the shape of a request.
LEMMA SeenMoves ==
    ASSUME Base, NEW r \in Requests, NEW p, Sees(r, p),
           admin # None, p \in {"create"} \cup (Ops \ {"login"}),
           p = "create" => q[r].who \in IPs, p # "create" => q[r].who \in Sessions
    PROVE  Moves(r, [q[r] EXCEPT !.pc = p, !.seen = admin.pw])
<1>1. q[r] \in Request /\ admin.pw \in Nat
  BY DEF Base, TypeOK, Account
<1>2. [q[r] EXCEPT !.pc = p, !.seen = admin.pw] \in Request
  BY <1>1 DEF Request
<1>3. Shape([q[r] EXCEPT !.pc = p, !.seen = admin.pw])
  BY <1>1 DEF Request, Shape, Ops, ByCookie, Changing, NeedsSession
<1>4. q' = [q EXCEPT ![r] = [q[r] EXCEPT !.pc = p, !.seen = admin.pw]]
  BY DEF Sees
<1> QED
  BY <1>2, <1>3, <1>4 DEF Moves

\* A request ends.
LEMMA EndMoves ==
    ASSUME NEW r \in Requests, End(r)
    PROVE  Moves(r, NoRequest)
BY DEF End, Moves, NoRequest, Request, Ops, Shape, ByCookie, Changing

\* What a request does to the other requests, and that it keeps what it holds.
MovesTo(r, from, to) ==
    /\ q[r].pc \in from
    /\ q' \in [Requests -> Request]
    /\ \A v \in Requests : v # r => q'[v] = q[v]
    /\ Shape(q'[r])
    /\ q'[r].pc \in to
    /\ q'[r].pc # "idle" => q'[r].who = q[r].who /\ q'[r].keep = q[r].keep

\* A request that moves keeps its credential until it is answered.
LEMMA MovesFacts ==
    ASSUME Base, NEW r \in Requests, NEW x, Moves(r, x), NEW from, NEW to,
           q[r].pc \in from, x.pc \in to,
           x.pc # "idle" => x.who = q[r].who /\ x.keep = q[r].keep
    PROVE  MovesTo(r, from, to)
BY DEF Base, TypeOK, Moves, MovesTo

\* Goto moves a request to a step its credential allows.
LEMMA GotoFacts ==
    ASSUME Base, NEW r \in Requests, NEW p, Goto(r, p), NEW from, NEW to, q[r].pc \in from, p \in to,
           p \in {"delay", "verify", "touch", "admin", "set"} \cup Ops \cup Changing,
           p \in {"delay", "verify"} => q[r].who \in IPs,
           p \in ByCookie => q[r].who \in Sessions,
           p \in {"touch", "admin"} => q[r].op # "login"
    PROVE  MovesTo(r, from, to)
<1>1. Moves(r, [q[r] EXCEPT !.pc = p])
  BY GotoMoves
<1>2. q[r] \in Request
  BY DEF Base, TypeOK
<1>3. /\ [q[r] EXCEPT !.pc = p].pc = p /\ [q[r] EXCEPT !.pc = p].who = q[r].who
      /\ [q[r] EXCEPT !.pc = p].keep = q[r].keep
  BY <1>2 DEF Request
<1> QED
  BY <1>1, <1>3, MovesFacts

\* Sees moves it to the handler, with the password it has read.
LEMMA SeenFacts ==
    ASSUME Base, NEW r \in Requests, NEW p, Sees(r, p),
           NEW from, NEW to, q[r].pc \in from, p \in to,
           admin # None, p \in {"create"} \cup (Ops \ {"login"}),
           p = "create" => q[r].who \in IPs, p # "create" => q[r].who \in Sessions
    PROVE  MovesTo(r, from, to)
<1> DEFINE x == [q[r] EXCEPT !.pc = p, !.seen = admin.pw]
<1>1. Moves(r, x)
  BY SeenMoves
<1>2. q[r] \in Request
  BY DEF Base, TypeOK
<1>3. x.pc = p /\ x.who = q[r].who /\ x.keep = q[r].keep
  BY <1>2 DEF Request
<1> QED
  BY <1>1, <1>3, MovesFacts

\* An answered request is idle.
LEMMA EndFacts ==
    ASSUME Base, NEW r \in Requests, End(r), NEW from, NEW to, q[r].pc \in from, "idle" \in to
    PROVE  MovesTo(r, from, to) /\ q'[r].pc = "idle"
<1>1. Moves(r, NoRequest)
  BY EndMoves
<1>2. NoRequest.pc = "idle"
  BY DEF NoRequest
<1>3. q'[r] = NoRequest
  BY <1>1 DEF Moves, Base, TypeOK
<1> QED
  BY <1>1, <1>2, <1>3, MovesFacts

\* Where each step takes the request.
Handled == {"api", "logout", "change", "kill", "revoke", "mint"}

\* The steps of Authenticate and Middleware.
LEMMA MiddlewareMoves ==
    ASSUME Base, NEW r \in Requests
    PROVE  /\ GetSession(r) => MovesTo(r, {"session"}, {"idle", "admin", "touch"})
           /\ Touch(r) => MovesTo(r, {"touch"}, {"admin"})
           /\ ReadAdmin(r) => MovesTo(r, {"admin"}, {"idle"} \cup Handled)
           /\ GetToken(r) => MovesTo(r, {"token"}, {"idle"} \cup Handled)
           /\ GiveUp(r) => q[r].pc \notin {"idle"} \cup Changing /\ MovesTo(r, {q[r].pc}, {"idle"})
<1> USE DEF Ops, ByCookie, Changing, Handled
<1>0. q[r] \in Request /\ Shape(q[r])
  BY DEF Base, TypeOK, Shaped
<1>1. ASSUME GetSession(r) PROVE MovesTo(r, {"session"}, {"idle", "admin", "touch"})
  <2>1. CASE End(r)
    BY <1>1, <2>1, EndFacts DEF GetSession
  <2>2. CASE Goto(r, "admin")
    BY <1>0, <1>1, <2>2, GotoFacts DEF GetSession, Shape
  <2>3. CASE Goto(r, "touch")
    BY <1>0, <1>1, <2>3, GotoFacts DEF GetSession, Shape
  <2> QED
    BY <1>1, <2>1, <2>2, <2>3 DEF GetSession
<1>2. ASSUME Touch(r) PROVE MovesTo(r, {"touch"}, {"admin"})
  BY <1>0, <1>2, GotoFacts DEF Touch, Shape
<1>3. ASSUME ReadAdmin(r) PROVE MovesTo(r, {"admin"}, {"idle"} \cup Handled)
  <2>1. CASE End(r)
    BY <1>3, <2>1, EndFacts DEF ReadAdmin
  <2>2. CASE Sees(r, q[r].op)
    <3>1. q[r].op \in Handled /\ q[r].who \in Sessions /\ q[r].pc = "admin"
      BY <1>0, <1>3 DEF ReadAdmin, Shape, Request
    <3>2. admin # None
      BY <3>1 DEF Base, Phases
    <3> QED
      BY <2>2, <3>1, <3>2, SeenFacts
  <2> QED
    BY <1>3, <2>1, <2>2 DEF ReadAdmin, Sees
<1>4. ASSUME GetToken(r) PROVE MovesTo(r, {"token"}, {"idle"} \cup Handled)
  <2>1. CASE End(r)
    BY <1>4, <2>1, EndFacts DEF GetToken
  <2>2. CASE Goto(r, q[r].op)
    <3>1. q[r].op \in {"api", "kill", "revoke"} /\ q[r].pc = "token"
      BY <1>0, <1>4 DEF GetToken, Shape, Request, NeedsSession
    <3> QED
      BY <2>2, <3>1, GotoFacts
  <2> QED
    BY <1>4, <2>1, <2>2 DEF GetToken
<1>5. ASSUME GiveUp(r) PROVE q[r].pc \notin {"idle"} \cup Changing /\ MovesTo(r, {q[r].pc}, {"idle"})
  BY <1>5, EndFacts DEF GiveUp
<1> QED
  BY <1>1, <1>2, <1>3, <1>4, <1>5

\* The steps of Login.
LEMMA LoginMoves ==
    ASSUME Base, NEW r \in Requests
    PROVE  /\ Check(r) => MovesTo(r, {"check"}, {"idle", "delay", "verify"})
           /\ Delay(r) => MovesTo(r, {"delay"}, {"verify"})
           /\ Verify(r) => MovesTo(r, {"verify"}, {"idle", "create"})
           /\ \A s \in Sessions : Create(r, s) => MovesTo(r, {"create"}, {"idle"})
<1> USE DEF Ops, ByCookie, Changing
<1>0. q[r] \in Request /\ Shape(q[r])
  BY DEF Base, TypeOK, Shaped
<1>1. ASSUME Check(r) PROVE MovesTo(r, {"check"}, {"idle", "delay", "verify"})
  <2>1. CASE End(r)
    BY <1>1, <2>1, EndFacts DEF Check
  <2>2. CASE Goto(r, "delay")
    BY <1>0, <1>1, <2>2, GotoFacts DEF Check, Shape
  <2>3. CASE Goto(r, "verify")
    BY <1>0, <1>1, <2>3, GotoFacts DEF Check, Shape
  <2> QED
    BY <1>1, <2>1, <2>2, <2>3 DEF Check
<1>2. ASSUME Delay(r) PROVE MovesTo(r, {"delay"}, {"verify"})
  BY <1>0, <1>2, GotoFacts DEF Delay, Shape
<1>3. ASSUME Verify(r) PROVE MovesTo(r, {"verify"}, {"idle", "create"})
  <2>1. CASE End(r)
    BY <1>3, <2>1, EndFacts DEF Verify
  <2>2. CASE Sees(r, "create")
    <3>1. q[r].pc = "verify" /\ q[r].who \in IPs
      BY <1>0, <1>3 DEF Verify, Shape
    <3>2. admin # None
      BY <3>1 DEF Base, Phases
    <3> QED
      BY <2>2, <3>1, <3>2, SeenFacts
  <2> QED
    BY <1>3, <2>1, <2>2 DEF Verify, Sees
<1>4. ASSUME NEW s \in Sessions, Create(r, s) PROVE MovesTo(r, {"create"}, {"idle"})
  BY <1>4, EndFacts DEF Create
<1> QED
  BY <1>1, <1>2, <1>3, <1>4

\* The steps of the handlers that take one call.
LEMMA HandlerMoves ==
    ASSUME Base, NEW r \in Requests
    PROVE  /\ Serve(r) => MovesTo(r, {"api"}, {"idle"})
           /\ Refuse(r) => MovesTo(r, Handled \cup {"set"}, {"idle"})
           /\ \A s \in Sessions : DeleteSession(r, s) => MovesTo(r, Handled, {"idle"})
           /\ \A t \in Tokens : DeleteAPIToken(r, t) => MovesTo(r, Handled, {"idle"})
           /\ \A t \in Tokens : \A scope \in {"read", "write"}, ttl \in {"never", "left"} :
                 CreateToken(r, t, scope, ttl) => MovesTo(r, {"mint"}, {"idle"})
<1> USE DEF Handled
<1>1. ASSUME Serve(r) PROVE MovesTo(r, {"api"}, {"idle"})
  BY <1>1, EndFacts DEF Serve
<1>2. ASSUME Refuse(r) PROVE MovesTo(r, Handled \cup {"set"}, {"idle"})
  BY <1>2, EndFacts DEF Refuse
<1>3. ASSUME NEW s \in Sessions, DeleteSession(r, s) PROVE MovesTo(r, Handled, {"idle"})
  BY <1>3, EndFacts DEF DeleteSession
<1>4. ASSUME NEW t \in Tokens, DeleteAPIToken(r, t) PROVE MovesTo(r, Handled, {"idle"})
  BY <1>4, EndFacts DEF DeleteAPIToken
<1>5. ASSUME NEW t \in Tokens, NEW scope \in {"read", "write"}, NEW ttl \in {"never", "left"},
             CreateToken(r, t, scope, ttl)
      PROVE  MovesTo(r, {"mint"}, {"idle"})
  BY <1>5, EndFacts DEF CreateToken
<1> QED
  BY <1>1, <1>2, <1>3, <1>4, <1>5

\* The steps of ChangePassword: the password first, then the file, the sessions
\* and the tokens.
LEMMA ChangeMoves ==
    ASSUME Base, NEW r \in Requests
    PROVE  /\ ChangeVerify(r) => MovesTo(r, {"change"}, {"idle", "set"})
           /\ ChangeSet(r) => MovesTo(r, {"set"}, {"remove"})
           /\ ChangeRemove(r) => MovesTo(r, {"remove"}, {"others"})
           /\ ChangeOthers(r) => MovesTo(r, {"others"}, IF q[r].keep THEN {"idle"} ELSE {"tokens"})
           /\ ChangeTokens(r) => MovesTo(r, {"tokens"}, {"idle"})
<1> USE DEF Ops, ByCookie, Changing
<1>0. q[r] \in Request /\ Shape(q[r])
  BY DEF Base, TypeOK, Shaped
<1>1. ASSUME ChangeVerify(r) PROVE MovesTo(r, {"change"}, {"idle", "set"})
  <2>1. CASE End(r)
    BY <1>1, <2>1, EndFacts DEF ChangeVerify
  <2>2. CASE Goto(r, "set")
    BY <1>0, <1>1, <2>2, GotoFacts DEF ChangeVerify, Shape
  <2> QED
    BY <1>1, <2>1, <2>2 DEF ChangeVerify
<1>2. ASSUME ChangeSet(r) PROVE MovesTo(r, {"set"}, {"remove"})
  BY <1>0, <1>2, GotoFacts DEF ChangeSet, Shape
<1>3. ASSUME ChangeRemove(r) PROVE MovesTo(r, {"remove"}, {"others"})
  BY <1>0, <1>3, GotoFacts DEF ChangeRemove, Shape
<1>4. ASSUME ChangeOthers(r) PROVE MovesTo(r, {"others"}, IF q[r].keep THEN {"idle"} ELSE {"tokens"})
  <2>1. CASE q[r].keep
    BY <1>4, <2>1, EndFacts DEF ChangeOthers
  <2>2. CASE ~q[r].keep
    BY <1>0, <1>4, <2>2, GotoFacts DEF ChangeOthers, Shape
  <2> QED
    BY <2>1, <2>2
<1>5. ASSUME ChangeTokens(r) PROVE MovesTo(r, {"tokens"}, {"idle"})
  BY <1>5, EndFacts DEF ChangeTokens
<1> QED
  BY <1>1, <1>2, <1>3, <1>4, <1>5

-------------------------------------------------------------------------------
(* Types, shapes and phases. *)

Rows ==
    /\ sessions \in [Sessions -> Session \cup {None}] /\ tokens \in [Tokens -> Token \cup {None}]
    /\ spent \subseteq Ids
    /\ \A s \in Sessions : sessions[s] # None => s \in spent
    /\ \A t \in Tokens : tokens[t] # None => t \in spent

\* A step of a request under way.
LEMMA RequestStep ==
    ASSUME Base, NEW r \in Requests, NEW from, NEW to, MovesTo(r, from, to), "idle" \notin from,
           admin' \in Account, file' \in Nat \cup {None}, Rows', fails' \in [IPs -> Attempts \cup {None}],
           made' \in 0 .. MaxPasswords, unrevoked' \in BOOLEAN, faults' \in 0 .. MaxFaults,
           UNCHANGED <<boot, accepted>>
    PROVE  Base'
<1>1. boot = "serve"
  BY DEF Base, Phases, MovesTo
<1>2. admin' # None
  BY NoRowAssumption
<1>3. TypeOK'
  BY DEF Base, TypeOK, Rows, MovesTo
<1>4. Shaped'
  BY DEF Base, Shaped, MovesTo
<1>5. Phases'
  BY <1>1, <1>2 DEF Phases, MovesTo
<1> QED
  BY <1>3, <1>4, <1>5 DEF Base

\* A request under way finds an account.
LEMMA Served ==
    ASSUME Base, NEW r \in Requests, q[r].pc # "idle"
    PROVE  boot = "serve" /\ admin \in Account /\ admin # None
BY DEF Base, Phases, TypeOK

\* A step that writes nothing but the request and the limiter.
LEMMA LocalStep ==
    ASSUME Base, NEW r \in Requests, NEW from, NEW to, MovesTo(r, from, to), "idle" \notin from,
           fails' \in [IPs -> Attempts \cup {None}], faults' \in 0 .. MaxFaults,
           UNCHANGED <<tables, boot, made, unrevoked, accepted>>
    PROVE  Base'
<1>1. admin' \in Account /\ file' \in Nat \cup {None}
  BY Served DEF MovesTo, tables, Base, TypeOK
<1>2. Rows'
  BY DEF Base, TypeOK, Rows, tables
<1>3. made' \in 0 .. MaxPasswords /\ unrevoked' \in BOOLEAN
  BY DEF Base, TypeOK
<1> QED
  BY <1>1, <1>2, <1>3, RequestStep

\* A fault is counted up to its bound.
LEMMA FaultType ==
    ASSUME Base, Fault
    PROVE  faults' \in 0 .. MaxFaults
BY AuthAssumption DEF Fault, Base, TypeOK

\* The start-up.
LEMMA BootBase ==
    ASSUME Base, Boot
    PROVE  Base'
<1>0. boot # "serve" /\ UNCHANGED <<fails, q, unrevoked, faults, accepted, sessions, tokens, spent>>
  BY DEF Boot, BootRead, BootFile, BootSet, tables
<1>1. \A r \in Requests : q[r].pc = "idle"
  BY <1>0 DEF Base, Phases
<1>2. Shaped'
  BY <1>0 DEF Base, Shaped
<1>3. made \in 0 .. MaxPasswords /\ admin \in Account \cup {None} /\ file \in Nat \cup {None}
  BY DEF Base, TypeOK
<1>4. /\ made' \in 0 .. MaxPasswords
      /\ admin' \in Account \cup {None} /\ file' \in Nat \cup {None}
  <2>1. CASE BootRead
    <3>1. made' = made \/ (made < MaxPasswords /\ made' = made + 1)
      BY <2>1 DEF BootRead
    <3> QED
      BY <2>1, <3>1, <1>3, AuthAssumption DEF BootRead, tables
  <2>2. CASE BootFile
    BY <2>2, <1>3, AuthAssumption DEF BootFile
  <2>3. CASE BootSet
    BY <2>3, <1>3, AuthAssumption DEF BootSet, SetAdminPassword, Account
  <2> QED
    BY <2>1, <2>2, <2>3 DEF Boot
<1>5. boot' \in {"start", "file", "set", "serve"}
  BY DEF Boot, BootRead, BootFile, BootSet
<1>6. TypeOK'
  BY <1>0, <1>4, <1>5 DEF Base, TypeOK
<1>7. Phases'
  <2>1. CASE BootRead
    BY <2>1, <1>1 DEF BootRead, Base, Phases, tables
  <2>2. CASE BootFile
    BY <2>2, <1>1 DEF BootFile, Base, Phases
  <2>3. CASE BootSet
    <3>1. admin' \in Account
      BY <2>3 DEF BootSet, SetAdminPassword, Account, Base, TypeOK
    <3>2. admin' # None
      BY <3>1, NoRowAssumption
    <3> QED
      BY <2>3, <3>2 DEF BootSet, Phases
  <2> QED
    BY <2>1, <2>2, <2>3 DEF Boot
<1> QED
  BY <1>2, <1>6, <1>7 DEF Base

\* A request arrives.
LEMMA AcceptBase ==
    ASSUME Base, NEW r \in Requests, NEW x \in Request, Shape(x), x.pc # "idle", Accept(r, x)
    PROVE  Base' /\ q'[r] = x /\ \A v \in Requests : v # r => q'[v] = q[v]
<1>1. q' \in [Requests -> Request] /\ q'[r] = x /\ \A v \in Requests : v # r => q'[v] = q[v]
  BY DEF Accept, Base, TypeOK
<1>2. TypeOK'
  BY <1>1, AuthAssumption DEF Accept, Base, TypeOK, tables
<1>3. Shaped'
  BY <1>1 DEF Base, Shaped
<1>4. Phases'
  BY DEF Accept, Base, Phases, tables
<1> QED
  BY <1>1, <1>2, <1>3, <1>4 DEF Base

\* A new request is at its first step.
Arriving == {"check", "session", "token"}

\* A request that arrives changes nothing but itself.
LEMMA ArriveBase ==
    ASSUME Base, NEW r \in Requests, Arrive(r)
    PROVE  /\ Base'
           /\ q[r].pc = "idle" /\ q'[r].pc \in Arriving /\ \A v \in Requests : v # r => q'[v] = q[v]
           /\ UNCHANGED <<tables, fails, boot, made, unrevoked>>
<1> USE DEF Arriving
<1>1. CASE \E ip \in IPs, pw \in 0 .. made : Login(r, ip, pw)
  <2>1. PICK ip \in IPs, pw \in 0 .. made : Login(r, ip, pw)
    BY <1>1
  <2> DEFINE x == [pc |-> "check", op |-> "login", who |-> ip, offer |-> pw, seen |-> 0, keep |-> FALSE]
  <2>2. x \in Request /\ Shape(x) /\ x.pc = "check"
    BY DEF Request, Shape, Ops, ByCookie, Changing, Base, TypeOK
  <2>3. Accept(r, x)
    BY <2>1 DEF Login
  <2> HIDE DEF x
  <2> QED
    BY <2>2, <2>3, AcceptBase DEF Accept
<1>2. CASE \E o \in Ops, s \in Sessions : WithCookie(r, o, s)
  <2>1. PICK o \in Ops, s \in Sessions : WithCookie(r, o, s)
    BY <1>2
  <2>2. PICK pw \in 0 .. made, k \in BOOLEAN :
          Accept(r, [pc |-> "session", op |-> o, who |-> s, offer |-> pw, seen |-> 0, keep |-> k])
    BY <2>1 DEF WithCookie
  <2> DEFINE x == [pc |-> "session", op |-> o, who |-> s, offer |-> pw, seen |-> 0, keep |-> k]
  <2>3. x \in Request /\ Shape(x) /\ x.pc = "session"
    BY <2>1 DEF WithCookie, Request, Shape, Ops, Ids, ByCookie, Changing, Base, TypeOK
  <2>4. Accept(r, x)
    BY <2>2
  <2> HIDE DEF x
  <2> QED
    BY <2>3, <2>4, AcceptBase DEF Accept
<1>3. CASE \E o \in Ops, t \in Tokens : WithToken(r, o, t)
  <2>1. PICK o \in Ops, t \in Tokens : WithToken(r, o, t)
    BY <1>3
  <2> DEFINE x == [pc |-> "token", op |-> o, who |-> t, offer |-> 0, seen |-> 0, keep |-> FALSE]
  <2>2. x \in Request /\ Shape(x) /\ x.pc = "token"
    BY <2>1 DEF WithToken, Request, Shape, Ops, Ids, ByCookie, Changing, Base, TypeOK
  <2>3. Accept(r, x)
    BY <2>1 DEF WithToken
  <2> HIDE DEF x
  <2> QED
    BY <2>2, <2>3, AcceptBase DEF Accept
<1> QED
  BY <1>1, <1>2, <1>3 DEF Arrive

\* The extension of a session stays within both of its limits.
LEMMA ExtendedFacts ==
    ASSUME NEW x \in Session
    PROVE  Extended(x) \in 0 .. Idle /\ Extended(x) <= x.life
BY AuthAssumption DEF Extended, Session

\* Writing one row, or one row and a new id.
LEMMA SessionRow ==
    ASSUME Base, NEW s \in Sessions, NEW x, x \in Session \cup {None}, s \in spent \/ x = None,
           sessions' = [sessions EXCEPT ![s] = x], UNCHANGED <<tokens, spent>>
    PROVE  Rows'
BY DEF Base, TypeOK, Rows

\* Writing one token leaves the rows consistent.
LEMMA TokenRow ==
    ASSUME Base, NEW t \in Tokens, NEW x, x \in Token \cup {None}, t \in spent' \/ x = None,
           tokens' = [tokens EXCEPT ![t] = x], spent \subseteq spent', spent' \subseteq Ids, UNCHANGED sessions
    PROVE  Rows'
BY DEF Base, TypeOK, Rows

\* The steps of the middleware and of a login.
LEMMA MiddlewareBase ==
    ASSUME Base, NEW r \in Requests,
           GetSession(r) \/ Touch(r) \/ ReadAdmin(r) \/ GetToken(r) \/ GiveUp(r)
    PROVE  Base'
<1>0. fails \in [IPs -> Attempts \cup {None}] /\ faults \in 0 .. MaxFaults
  BY DEF Base, TypeOK
<1>1. CASE GetSession(r)
  BY <1>0, <1>1, MiddlewareMoves, LocalStep DEF GetSession
<1>2. CASE Touch(r)
  <2>1. MovesTo(r, {"touch"}, {"admin"})
    BY <1>2, MiddlewareMoves
  <2>2. q[r].who \in Sessions
    BY <2>1 DEF MovesTo, Base, Shaped, Shape, ByCookie
  <2>3. Rows'
    <3>1. CASE UNCHANGED sessions
      BY <1>2, <3>1 DEF Touch, Rows, Base, TypeOK
    <3>2. CASE sessions[q[r].who] # None
               /\ sessions' = [sessions EXCEPT ![q[r].who].left = Extended(sessions[q[r].who]), ![q[r].who].fresh = TRUE]
      <4> DEFINE s == q[r].who
                 x == [sessions[s] EXCEPT !.left = Extended(sessions[s]), !.fresh = TRUE]
      <4>1. sessions[s] \in Session /\ s \in spent
        BY <2>2, <3>2 DEF Base, TypeOK
      <4>2. x \in Session
        BY <4>1, ExtendedFacts DEF Session
      <4>3. sessions' = [sessions EXCEPT ![s] = x]
        BY <3>2, <2>2 DEF Base, TypeOK
      <4> HIDE DEF x
      <4> QED
        BY <1>2, <2>2, <4>1, <4>2, <4>3, SessionRow DEF Touch
    <3> QED
      BY <1>2, <3>1, <3>2 DEF Touch
  <2>4. faults' \in 0 .. MaxFaults
    BY <1>0, <1>2, FaultType DEF Touch
  <2>5. admin \in Account /\ file \in Nat \cup {None} /\ made \in 0 .. MaxPasswords /\ unrevoked \in BOOLEAN
    BY <2>1, Served DEF MovesTo, Base, TypeOK
  <2> QED
    BY <1>0, <1>2, <2>1, <2>3, <2>4, <2>5, RequestStep DEF Touch
<1>3. CASE ReadAdmin(r)
  <2>1. MovesTo(r, {"admin"}, {"idle"} \cup Handled)
    BY <1>3, MiddlewareMoves
  <2> QED
    BY <1>0, <1>3, <2>1, LocalStep DEF ReadAdmin
<1>4. CASE GetToken(r)
  <2>1. MovesTo(r, {"token"}, {"idle"} \cup Handled)
    BY <1>4, MiddlewareMoves
  <2> QED
    BY <1>0, <1>4, <2>1, LocalStep DEF GetToken
<1>5. CASE GiveUp(r)
  <2>1. MovesTo(r, {q[r].pc}, {"idle"}) /\ q[r].pc # "idle"
    BY <1>5, MiddlewareMoves
  <2> QED
    BY <1>0, <1>5, <2>1, FaultType, LocalStep DEF GiveUp
<1> QED
  BY <1>1, <1>2, <1>3, <1>4, <1>5

\* Base is kept by every step of Login, the counter of failures included.
LEMMA LoginBase ==
    ASSUME Base, NEW r \in Requests,
           Check(r) \/ Delay(r) \/ Verify(r) \/ \E s \in Sessions : Create(r, s)
    PROVE  Base'
<1>0. fails \in [IPs -> Attempts \cup {None}] /\ faults \in 0 .. MaxFaults
  BY DEF Base, TypeOK
<1>1. CASE Check(r)
  <2>1. MovesTo(r, {"check"}, {"idle", "delay", "verify"})
    BY <1>1, LoginMoves
  <2>2. fails' \in [IPs -> Attempts \cup {None}]
    BY <1>0, <1>1 DEF Check
  <2> QED
    BY <1>0, <1>1, <2>1, <2>2, LocalStep DEF Check
<1>2. CASE Delay(r)
  BY <1>0, <1>2, LoginMoves, LocalStep DEF Delay
<1>3. CASE Verify(r)
  <2>1. MovesTo(r, {"verify"}, {"idle", "create"})
    BY <1>3, LoginMoves
  <2>2. q[r].who \in IPs
    BY <2>1 DEF MovesTo, Base, Shaped, Shape
  <2>3. Failed(fails[q[r].who]) \in Attempts
    BY <1>0, <2>2 DEF Failed, Attempts
  <2>4. fails' \in [IPs -> Attempts \cup {None}]
    BY <1>0, <1>3, <2>3 DEF Verify
  <2> QED
    BY <1>0, <1>3, <2>1, <2>4, LocalStep DEF Verify
<1>4. CASE \E s \in Sessions : Create(r, s)
  <2>1. PICK s \in Sessions : Create(r, s)
    BY <1>4
  <2>2. MovesTo(r, {"create"}, {"idle"})
    BY <2>1, LoginMoves
  <2>3. q[r].seen \in Nat
    BY DEF Base, TypeOK, Request
  <2>4. NewSession(q[r].seen) \in Session
    BY <2>3, AuthAssumption DEF NewSession, Session
  <2>5. \A x \in Sessions : Kept(x) \in {sessions[x], None}
    BY DEF Kept
  <2>6. Rows'
    BY <2>1, <2>4, <2>5 DEF Create, Rows, Base, TypeOK, Ids
  <2>7. admin \in Account /\ file \in Nat \cup {None} /\ made \in 0 .. MaxPasswords /\ unrevoked \in BOOLEAN
    BY <2>2, Served DEF MovesTo, Base, TypeOK
  <2> QED
    BY <1>0, <2>1, <2>2, <2>6, <2>7, RequestStep DEF Create
<1> QED
  BY <1>1, <1>2, <1>3, <1>4

\* The other handlers.
LEMMA HandlerBase ==
    ASSUME Base, NEW r \in Requests,
           \/ Serve(r) \/ Refuse(r) \/ \E s \in Sessions : DeleteSession(r, s)
           \/ \E t \in Tokens : \/ DeleteAPIToken(r, t)
                                \/ \E scope \in {"read", "write"}, ttl \in {"never", "left"} : CreateToken(r, t, scope, ttl)
    PROVE  Base'
<1> USE DEF Handled
<1>0. /\ fails \in [IPs -> Attempts \cup {None}] /\ faults \in 0 .. MaxFaults
      /\ file \in Nat \cup {None} /\ made \in 0 .. MaxPasswords /\ unrevoked \in BOOLEAN
  BY DEF Base, TypeOK
<1>1. CASE Serve(r)
  BY <1>0, <1>1, HandlerMoves, LocalStep DEF Serve
<1>2. CASE Refuse(r)
  <2>1. MovesTo(r, Handled \cup {"set"}, {"idle"})
    BY <1>2, HandlerMoves
  <2> QED
    BY <1>0, <1>2, <2>1, LocalStep DEF Refuse
<1>3. CASE \E s \in Sessions : DeleteSession(r, s)
  <2>1. PICK s \in Sessions : DeleteSession(r, s)
    BY <1>3
  <2>2. MovesTo(r, Handled, {"idle"})
    BY <2>1, HandlerMoves
  <2>3. Rows'
    BY <2>1, SessionRow DEF DeleteSession
  <2>4. admin \in Account
    BY <2>2, Served DEF MovesTo
  <2> QED
    BY <1>0, <2>1, <2>2, <2>3, <2>4, RequestStep DEF DeleteSession
<1>4. CASE \E t \in Tokens : DeleteAPIToken(r, t)
  <2>1. PICK t \in Tokens : DeleteAPIToken(r, t)
    BY <1>4
  <2>2. MovesTo(r, Handled, {"idle"})
    BY <2>1, HandlerMoves
  <2>3. Rows'
    BY <2>1, TokenRow DEF DeleteAPIToken, Base, TypeOK
  <2>4. admin \in Account
    BY <2>2, Served DEF MovesTo
  <2> QED
    BY <1>0, <2>1, <2>2, <2>3, <2>4, RequestStep DEF DeleteAPIToken
<1>5. CASE \E t \in Tokens : \E scope \in {"read", "write"}, ttl \in {"never", "left"} : CreateToken(r, t, scope, ttl)
  <2>1. PICK t \in Tokens, scope \in {"read", "write"}, ttl \in {"never", "left"} : CreateToken(r, t, scope, ttl)
    BY <1>5
  <2>2. MovesTo(r, {"mint"}, {"idle"})
    BY <2>1, HandlerMoves
  <2>3. NewToken(scope, ttl, q[r].seen) \in Token
    BY DEF NewToken, Token, Base, TypeOK, Request
  <2>4. spent' = spent \cup {t} /\ spent' \subseteq Ids
    BY <2>1 DEF CreateToken, Base, TypeOK, Ids
  <2>5. Rows'
    BY <2>1, <2>3, <2>4, TokenRow DEF CreateToken
  <2>6. admin \in Account
    BY <2>2, Served DEF MovesTo
  <2> QED
    BY <1>0, <2>1, <2>2, <2>5, <2>6, RequestStep DEF CreateToken
<1> QED
  BY <1>1, <1>2, <1>3, <1>4, <1>5

\* A password change.
LEMMA ChangeBase ==
    ASSUME Base, NEW r \in Requests,
           ChangeVerify(r) \/ ChangeSet(r) \/ ChangeRemove(r) \/ ChangeOthers(r) \/ ChangeTokens(r)
    PROVE  Base'
<1>0. /\ fails \in [IPs -> Attempts \cup {None}] /\ faults \in 0 .. MaxFaults
      /\ file \in Nat \cup {None} /\ made \in 0 .. MaxPasswords /\ unrevoked \in BOOLEAN /\ Rows
  BY DEF Base, TypeOK, Rows
<1>1. CASE ChangeVerify(r)
  BY <1>0, <1>1, ChangeMoves, LocalStep DEF ChangeVerify
<1>2. CASE ChangeSet(r)
  <2>1. MovesTo(r, {"set"}, {"remove"})
    BY <1>2, ChangeMoves
  <2>2. made' \in 0 .. MaxPasswords /\ made' \in Nat /\ admin' \in Account
    BY <1>0, <1>2, AuthAssumption DEF ChangeSet, SetAdminPassword, Account
  <2>3. q[r].who \in Sessions
    BY <2>1 DEF MovesTo, Base, Shaped, Shape, ByCookie
  <2>4. /\ sessions' \in [Sessions -> Session \cup {None}]
        /\ \A s \in Sessions : sessions'[s] # None => sessions[s] # None
    <3>1. CASE sessions[q[r].who] = None
      BY <1>0, <1>2, <3>1 DEF ChangeSet, Rows
    <3>2. CASE sessions[q[r].who] # None
      <4>1. [sessions[q[r].who] EXCEPT !.of = made'] \in Session
        BY <1>0, <2>2, <2>3, <3>2 DEF Rows, Session
      <4>2. sessions' = [sessions EXCEPT ![q[r].who] = [sessions[q[r].who] EXCEPT !.of = made']]
        BY <1>2, <3>2 DEF ChangeSet
      <4> QED
        BY <1>0, <2>3, <3>2, <4>1, <4>2 DEF Rows
    <3> QED
      BY <3>1, <3>2
  <2>5. /\ tokens' \in [Tokens -> Token \cup {None}]
        /\ \A t \in Tokens : tokens'[t] # None => tokens[t] # None
    <3>1. \A t \in Tokens : tokens[t] # None => [tokens[t] EXCEPT !.of = made'] \in Token
      BY <1>0, <2>2 DEF Rows, Token
    <3> QED
      BY <1>0, <1>2, <3>1 DEF ChangeSet, Rows
  <2>6. Rows'
    BY <1>0, <1>2, <2>4, <2>5 DEF ChangeSet, Rows
  <2> QED
    BY <1>0, <1>2, <2>1, <2>2, <2>6, RequestStep DEF ChangeSet
<1>3. CASE ChangeRemove(r)
  <2>1. MovesTo(r, {"remove"}, {"others"})
    BY <1>3, ChangeMoves
  <2>2. admin \in Account /\ faults' \in 0 .. MaxFaults
    BY <1>0, <1>3, <2>1, Served, FaultType DEF MovesTo, ChangeRemove
  <2>3. file' \in Nat \cup {None} /\ Rows'
    BY <1>0, <1>3 DEF ChangeRemove, Rows
  <2> QED
    BY <1>0, <1>3, <2>1, <2>2, <2>3, RequestStep DEF ChangeRemove
<1>4. CASE ChangeOthers(r)
  <2>1. MovesTo(r, {"others"}, IF q[r].keep THEN {"idle"} ELSE {"tokens"})
    BY <1>4, ChangeMoves
  <2>2. admin \in Account /\ faults' \in 0 .. MaxFaults
    BY <1>0, <1>4, <2>1, Served, FaultType DEF MovesTo, ChangeOthers
  <2>3. unrevoked' \in BOOLEAN
    BY <1>0, <1>4 DEF ChangeOthers
  <2>4. Rows'
    BY <1>0, <1>4 DEF ChangeOthers, Rows, Only
  <2> QED
    BY <1>0, <1>4, <2>1, <2>2, <2>3, <2>4, RequestStep DEF ChangeOthers
<1>5. CASE ChangeTokens(r)
  <2>1. MovesTo(r, {"tokens"}, {"idle"})
    BY <1>5, ChangeMoves
  <2>2. admin \in Account /\ faults' \in 0 .. MaxFaults
    BY <1>0, <1>5, <2>1, Served, FaultType DEF MovesTo, ChangeTokens
  <2>3. unrevoked' \in BOOLEAN /\ Rows'
    BY <1>0, <1>5 DEF ChangeTokens, Rows
  <2> QED
    BY <1>0, <1>5, <2>1, <2>2, <2>3, RequestStep DEF ChangeTokens
<1> QED
  BY <1>1, <1>2, <1>3, <1>4, <1>5

\* Any step of a request.
LEMMA StepBase ==
    ASSUME Base, NEW r \in Requests, Step(r)
    PROVE  Base'
BY MiddlewareBase, LoginBase, HandlerBase, ChangeBase DEF Step

\* A tick takes one from what a session has left.
Ticked(x) == [x EXCEPT !.left = Less(@), !.life = Less(@), !.fresh = FALSE]

\* The time a session has left shrinks in both its bounds.
LEMMA TickRow ==
    ASSUME NEW x \in Session
    PROVE  /\ Ticked(x) \in Session /\ Ticked(x).left = Less(x.left) /\ Ticked(x).life = Less(x.life)
           /\ Ticked(x).of = x.of /\ Ticked(x).late = x.late
           /\ x.left <= x.life => Ticked(x).left <= Ticked(x).life
<1>1. /\ x.left \in 0 .. Idle /\ x.life \in 0 .. Absolute /\ Idle \in Nat /\ Absolute \in Nat
      /\ x.of \in Nat /\ x.late \in BOOLEAN
  BY AuthAssumption DEF Session
<1>2. /\ Less(x.left) \in 0 .. Idle /\ Less(x.life) \in 0 .. Absolute
      /\ x.left <= x.life => Less(x.left) <= Less(x.life)
  BY <1>1 DEF Less
<1>3. /\ Ticked(x).left = Less(x.left) /\ Ticked(x).life = Less(x.life)
      /\ Ticked(x).of = x.of /\ Ticked(x).late = x.late
  BY DEF Ticked, Session
<1>4. Ticked(x) \in Session
  BY <1>2 DEF Session, Ticked
<1> QED
  BY <1>2, <1>3, <1>4

\* Time and crashes.
LEMMA TimeBase ==
    ASSUME Base, Time
    PROVE  Base'
<1>1. CASE Tick
  <2>1. UNCHANGED <<admin, file, tokens, spent, fails, boot, made, q, unrevoked, faults, accepted>>
    BY <1>1 DEF Tick
  <2>2. /\ sessions' \in [Sessions -> Session \cup {None}]
        /\ \A s \in Sessions : (sessions'[s] = None) = (sessions[s] = None)
    <3>1. sessions' = [s \in Sessions |-> IF sessions[s] = None THEN None ELSE Ticked(sessions[s])]
      BY <1>1 DEF Tick, Ticked
    <3>2. \A s \in Sessions : sessions[s] # None => Ticked(sessions[s]) \in Session /\ Ticked(sessions[s]) # None
      BY TickRow, NoRowAssumption DEF Base, TypeOK
    <3> QED
      BY <3>1, <3>2
  <2>3. TypeOK' /\ Shaped' /\ Phases'
    BY <2>1, <2>2 DEF Base, TypeOK, Shaped, Phases
  <2> QED
    BY <2>3 DEF Base
<1>2. CASE \E t \in Tokens : TokenExpires(t)
  <2>1. PICK t \in Tokens : TokenExpires(t)
    BY <1>2
  <2>2. UNCHANGED <<admin, file, sessions, spent, fails, boot, made, q, unrevoked, faults, accepted>>
    BY <2>1 DEF TokenExpires
  <2>3. [tokens[t] EXCEPT !.ttl = "over"] \in Token
    BY <2>1 DEF TokenExpires, Base, TypeOK, Token
  <2>4. /\ tokens' \in [Tokens -> Token \cup {None}]
        /\ \A u \in Tokens : (tokens'[u] = None) = (tokens[u] = None)
    BY <2>1, <2>3, NoRowAssumption DEF TokenExpires, Base, TypeOK
  <2>5. TypeOK' /\ Shaped' /\ Phases'
    BY <2>2, <2>4 DEF Base, TypeOK, Shaped, Phases
  <2> QED
    BY <2>5 DEF Base
<1>3. CASE \E ip \in IPs : LockOver(ip)
  <2>1. PICK ip \in IPs : LockOver(ip)
    BY <1>3
  <2>2. [fails[ip] EXCEPT !.over = TRUE] \in Attempts
    BY <2>1 DEF LockOver, Base, TypeOK, Attempts
  <2>3. fails' \in [IPs -> Attempts \cup {None}]
    BY <2>1, <2>2 DEF LockOver, Base, TypeOK
  <2>4. TypeOK' /\ Shaped' /\ Phases'
    BY <2>1, <2>3 DEF LockOver, Base, TypeOK, Shaped, Phases, tables
  <2> QED
    BY <2>4 DEF Base
<1> QED
  BY <1>1, <1>2, <1>3 DEF Time

\* A crash drops the requests and keeps the tables.
LEMMA CrashBase ==
    ASSUME Base, Crash
    PROVE  Base' /\ \A r \in Requests : q'[r].pc = "idle"
<1>1. NoRequest \in Request /\ Shape(NoRequest) /\ NoRequest.pc = "idle"
  BY DEF NoRequest, Request, Ops, Shape, ByCookie, Changing
<1>2. q' \in [Requests -> Request] /\ \A r \in Requests : q'[r] = NoRequest
  BY <1>1 DEF Crash
<1>3. faults' \in 0 .. MaxFaults /\ unrevoked' \in BOOLEAN
  BY FaultType DEF Crash, Base, TypeOK
<1>4. TypeOK'
  BY <1>2, <1>3 DEF Crash, Base, TypeOK, tables
<1>5. Shaped' /\ Phases'
  BY <1>1, <1>2 DEF Crash, Base, Shaped, Phases, tables
<1> QED
  BY <1>1, <1>2, <1>4, <1>5 DEF Base

\* Every step keeps types, shapes and phases.
LEMMA BaseStep ==
    ASSUME Base, [Next]_vars
    PROVE  Base'
<1>1. CASE UNCHANGED vars
  <2>1. TypeOK' /\ Shaped' /\ Phases'
    BY <1>1 DEF vars, tables, Base, TypeOK, Shaped, Phases
  <2> QED
    BY <2>1 DEF Base
<1>2. CASE Next
  BY <1>2, BootBase, ArriveBase, StepBase, TimeBase, CrashBase DEF Next
<1> QED
  BY <1>1, <1>2

\* Base holds initially.
LEMMA BaseInit ==
    ASSUME Init
    PROVE  Base /\ \A r \in Requests : q[r].pc = "idle"
<1>1. NoRequest \in Request /\ Shape(NoRequest) /\ NoRequest.pc = "idle"
  BY DEF NoRequest, Request, Ops, Shape, ByCookie, Changing
<1>2. TypeOK
  <2>1. made \in 0 .. MaxPasswords /\ accepted \in 0 .. MaxRequests /\ faults \in 0 .. MaxFaults
    BY AuthAssumption DEF Init
  <2> QED
    BY <1>1, <2>1 DEF Init, TypeOK
<1>3. Shaped /\ Phases /\ \A r \in Requests : q[r].pc = "idle"
  BY <1>1 DEF Init, Shaped, Phases
<1> QED
  BY <1>2, <1>3 DEF Base

\* Types hold always: tables, limiter, requests and counters keep their shape.
THEOREM BaseInvariant == Spec => []Base
<1>1. Init => Base
  BY BaseInit
<1>2. Base /\ [Next]_vars => Base'
  BY BaseStep
<1> QED
  BY <1>1, <1>2, PTL DEF Spec

-------------------------------------------------------------------------------
(* What any step of a request leaves alone. *)

Flows(r) ==
    /\ q[r].pc # "idle"
    /\ \A v \in Requests : v # r => q'[v] = q[v]
    /\ q'[r].pc # "idle" => q'[r].who = q[r].who /\ q'[r].keep = q[r].keep
    /\ q'[r].pc \in Changing => q[r].pc \in Changing \/ ChangeSet(r)
    /\ q'[r].pc \in {"delay", "verify"} => Check(r) \/ q[r].pc = "delay"
    /\ q[r].pc \in Changing => ChangeRemove(r) \/ ChangeOthers(r) \/ ChangeTokens(r)
    /\ UNCHANGED boot
    /\ Check(r) \/ Verify(r) \/ UNCHANGED fails
    /\ ChangeSet(r) \/ UNCHANGED <<admin, made>>
    /\ ChangeRemove(r) \/ UNCHANGED file
    /\ ChangeOthers(r) \/ ChangeTokens(r) \/ UNCHANGED unrevoked

\* Each kind of step flows.
LEMMA MiddlewareFlows ==
    ASSUME Base, NEW r \in Requests,
           GetSession(r) \/ Touch(r) \/ ReadAdmin(r) \/ GetToken(r) \/ GiveUp(r)
    PROVE  Flows(r)
<1> USE DEF Flows, MovesTo, Changing, Handled, tables
<1>1. CASE GetSession(r)
  BY <1>1, MiddlewareMoves DEF GetSession
<1>2. CASE Touch(r)
  BY <1>2, MiddlewareMoves DEF Touch
<1>3. CASE ReadAdmin(r)
  BY <1>3, MiddlewareMoves DEF ReadAdmin
<1>4. CASE GetToken(r)
  BY <1>4, MiddlewareMoves DEF GetToken
<1>5. CASE GiveUp(r)
  BY <1>5, MiddlewareMoves DEF GiveUp
<1> QED
  BY <1>1, <1>2, <1>3, <1>4, <1>5

\* Login leaves the password and the credentials of others alone.
LEMMA LoginFlows ==
    ASSUME Base, NEW r \in Requests,
           Check(r) \/ Delay(r) \/ Verify(r) \/ \E s \in Sessions : Create(r, s)
    PROVE  Flows(r)
<1> USE DEF Flows, MovesTo, Changing, tables
<1>1. CASE Check(r)
  <2>1. MovesTo(r, {"check"}, {"idle", "delay", "verify"})
    BY <1>1, LoginMoves
  <2>2. UNCHANGED <<admin, file, boot, made, unrevoked>>
    BY <1>1 DEF Check
  <2> QED
    BY <1>1, <2>1, <2>2
<1>2. CASE Delay(r)
  BY <1>2, LoginMoves DEF Delay
<1>3. CASE Verify(r)
  <2>1. MovesTo(r, {"verify"}, {"idle", "create"})
    BY <1>3, LoginMoves
  <2>2. UNCHANGED <<admin, file, boot, made, unrevoked>>
    BY <1>3 DEF Verify
  <2> QED
    BY <1>3, <2>1, <2>2
<1>4. CASE \E s \in Sessions : Create(r, s)
  BY <1>4, LoginMoves DEF Create
<1> QED
  BY <1>1, <1>2, <1>3, <1>4

\* So do the handlers, which at most delete rows and mint a token.
LEMMA HandlerFlows ==
    ASSUME Base, NEW r \in Requests,
           \/ Serve(r) \/ Refuse(r) \/ \E s \in Sessions : DeleteSession(r, s)
           \/ \E t \in Tokens : \/ DeleteAPIToken(r, t)
                                \/ \E scope \in {"read", "write"}, ttl \in {"never", "left"} : CreateToken(r, t, scope, ttl)
    PROVE  Flows(r)
<1> USE DEF Flows, MovesTo, Changing, Handled, tables
<1>1. CASE Serve(r)
  BY <1>1, HandlerMoves DEF Serve
<1>2. CASE Refuse(r)
  BY <1>2, HandlerMoves DEF Refuse
<1>3. CASE \E s \in Sessions : DeleteSession(r, s)
  BY <1>3, HandlerMoves DEF DeleteSession
<1>4. CASE \E t \in Tokens : DeleteAPIToken(r, t)
  BY <1>4, HandlerMoves DEF DeleteAPIToken
<1>5. CASE \E t \in Tokens : \E scope \in {"read", "write"}, ttl \in {"never", "left"} : CreateToken(r, t, scope, ttl)
  <2>1. PICK t \in Tokens : \E scope \in {"read", "write"}, ttl \in {"never", "left"} : CreateToken(r, t, scope, ttl)
    BY <1>5
  <2>2. PICK scope \in {"read", "write"}, ttl \in {"never", "left"} : CreateToken(r, t, scope, ttl)
    BY <2>1
  <2>3. MovesTo(r, {"mint"}, {"idle"})
    BY Zenon, <2>2, HandlerMoves
  <2>4. UNCHANGED <<admin, file, sessions, fails, boot, made, unrevoked>>
    BY <2>2 DEF CreateToken
  <2> QED BY <2>3, <2>4
<1> QED
  BY <1>1, <1>2, <1>3, <1>4, <1>5

\* So does ChangePassword, up to the revocations it makes.
LEMMA ChangeFlows ==
    ASSUME Base, NEW r \in Requests,
           ChangeVerify(r) \/ ChangeSet(r) \/ ChangeRemove(r) \/ ChangeOthers(r) \/ ChangeTokens(r)
    PROVE  Flows(r)
<1> USE DEF Flows, MovesTo, Changing, tables
<1>1. CASE ChangeVerify(r)
  BY <1>1, ChangeMoves DEF ChangeVerify
<1>2. CASE ChangeSet(r)
  <2>1. MovesTo(r, {"set"}, {"remove"}) /\ UNCHANGED <<file, fails, boot, unrevoked>>
    BY <1>2, ChangeMoves DEF ChangeSet
  <2> QED
    BY <1>2, <2>1
<1>3. CASE ChangeRemove(r)
  <2>1. MovesTo(r, {"remove"}, {"others"}) /\ UNCHANGED <<admin, made, fails, boot, unrevoked>>
    BY <1>3, ChangeMoves DEF ChangeRemove
  <2> QED
    BY <1>3, <2>1
<1>4. CASE ChangeOthers(r)
  <2>1. /\ MovesTo(r, {"others"}, IF q[r].keep THEN {"idle"} ELSE {"tokens"})
        /\ UNCHANGED <<admin, made, fails, boot, file>>
    BY <1>4, ChangeMoves DEF ChangeOthers
  <2> QED
    BY <1>4, <2>1
<1>5. CASE ChangeTokens(r)
  <2>1. MovesTo(r, {"tokens"}, {"idle"}) /\ UNCHANGED <<admin, made, fails, boot, file>>
    BY <1>5, ChangeMoves DEF ChangeTokens
  <2> QED
    BY <1>5, <2>1
<1> QED
  BY <1>1, <1>2, <1>3, <1>4, <1>5

\* Every step of a request flows.
LEMMA StepFlows ==
    ASSUME Base, NEW r \in Requests, Step(r)
    PROVE  Flows(r)
BY MiddlewareFlows, LoginFlows, HandlerFlows, ChangeFlows DEF Step

\* A tick, an expiry or the end of a lock touches only its own table.
LEMMA TimeFlows ==
    ASSUME Time
    PROVE  /\ UNCHANGED <<admin, file, boot, made, q, unrevoked>>
           /\ UNCHANGED sessions \/ Tick
           /\ UNCHANGED tokens \/ \E t \in Tokens : TokenExpires(t)
           /\ UNCHANGED fails \/ \E ip \in IPs : LockOver(ip)
<1>1. CASE Tick
  BY <1>1 DEF Tick
<1>2. CASE \E t \in Tokens : TokenExpires(t)
  BY <1>2 DEF TokenExpires
<1>3. CASE \E ip \in IPs : LockOver(ip)
  BY <1>3 DEF LockOver, tables
<1> QED
  BY <1>1, <1>2, <1>3 DEF Time

-------------------------------------------------------------------------------
(* The generated password. *)

\* The file is written before the hash; a change has replaced the generated
\* password by the time it removes the file.
Readable ==
    /\ BootstrapReadable
    /\ boot = "set" => file = made
    /\ \A r \in Requests : q[r].pc \in Changing => ~admin.first

\* Every step keeps the initial password readable until it is changed.
LEMMA ReadableStep ==
    ASSUME Base, Readable, [Next]_vars
    PROVE  Readable'
<1> USE DEF Readable, BootstrapReadable
<1>1. CASE UNCHANGED vars
  BY <1>1 DEF vars, tables
<1>2. CASE Boot
  <2>1. \A r \in Requests : q'[r].pc = "idle"
    BY <1>2 DEF Boot, BootRead, BootFile, BootSet, Base, Phases
  <2>2. CASE BootRead
    BY <2>1, <2>2 DEF BootRead, tables, Changing
  <2>3. CASE BootFile
    BY <2>1, <2>3 DEF BootFile, Changing, Base, Phases
  <2>4. CASE BootSet
    BY <2>1, <2>4 DEF BootSet, SetAdminPassword, Changing
  <2> QED
    BY <1>2, <2>2, <2>3, <2>4 DEF Boot
<1>3. ASSUME NEW r \in Requests, Arrive(r) PROVE Readable'
  BY <1>3, ArriveBase DEF Arriving, Changing, tables
<1>4. ASSUME NEW r \in Requests, Step(r) PROVE Readable'
  <2>0. Flows(r) /\ boot = "serve"
    BY <1>4, StepFlows, Served DEF Flows
  <2>1. CASE ChangeSet(r)
    BY <2>0, <2>1 DEF Flows, ChangeSet, SetAdminPassword
  <2>2. CASE ChangeRemove(r)
    <3>1. ~admin.first /\ UNCHANGED <<admin, made>> /\ q[r].pc \in Changing
      BY <2>2 DEF ChangeRemove, Changing
    <3> QED
      BY <2>0, <3>1 DEF Flows
  <2>3. CASE ~ChangeSet(r) /\ ~ChangeRemove(r)
    BY <2>0, <2>3 DEF Flows
  <2> QED
    BY <2>1, <2>2, <2>3
<1>5. CASE Time
  BY <1>5, TimeFlows
<1>6. CASE Crash
  BY <1>6, CrashBase DEF Crash, tables, Changing
<1> QED
  BY <1>1, <1>2, <1>3, <1>4, <1>5, <1>6 DEF Next

\* While the generated password is in use its file holds it, whatever crash or
\* failed call cuts Bootstrap or ChangePassword short.
THEOREM BootstrapReadableAlways == Spec => []BootstrapReadable
<1>1. Init => Base /\ Readable
  BY BaseInit DEF Init, Readable, BootstrapReadable, Changing
<1>2. Base /\ Readable /\ [Next]_vars => (Base /\ Readable)'
  BY BaseStep, ReadableStep
<1>3. Readable => BootstrapReadable
  BY DEF Readable
<1> QED
  BY <1>1, <1>2, <1>3, PTL DEF Spec

-------------------------------------------------------------------------------
(* The lifetime of a session. *)

\* The idle time never reaches beyond the absolute one.
Capped == \A s \in Sessions : sessions[s] # None => sessions[s].left <= sessions[s].life

\* A step that writes no session but one.
LEMMA CappedRow ==
    ASSUME Base, Capped, NEW s \in Sessions, NEW x, sessions' = [sessions EXCEPT ![s] = x],
           x # None => x.left <= x.life
    PROVE  Capped'
BY DEF Capped, Base, TypeOK

\* Every step, the sliding extension included, keeps sessions within their
\* life.
LEMMA CappedStep ==
    ASSUME Base, Capped, [Next]_vars
    PROVE  Capped'
<1>1. CASE UNCHANGED sessions
  BY <1>1 DEF Capped
<1>2. ASSUME NEW r \in Requests, Touch(r) PROVE Capped'
  <2> DEFINE s == q[r].who
             x == [sessions[s] EXCEPT !.left = Extended(sessions[s]), !.fresh = TRUE]
  <2>1. s \in Sessions
    BY <1>2 DEF Touch, Base, Shaped, Shape, ByCookie
  <2>2. CASE UNCHANGED sessions
    BY <2>2 DEF Capped
  <2>3. CASE sessions[s] # None /\ sessions' = [sessions EXCEPT ![s].left = Extended(sessions[s]), ![s].fresh = TRUE]
    <3>1. sessions[s] \in Session
      BY <2>1, <2>3 DEF Base, TypeOK
    <3>2. x.left = Extended(sessions[s]) /\ x.life = sessions[s].life
      BY <3>1 DEF Session
    <3>3. sessions' = [sessions EXCEPT ![s] = x]
      BY <2>1, <2>3 DEF Base, TypeOK
    <3>4. x.left <= x.life
      BY <3>1, <3>2, ExtendedFacts
    <3> HIDE DEF x, s
    <3> QED
      BY <2>1, <3>3, <3>4, CappedRow
  <2> QED
    BY <1>2, <2>2, <2>3 DEF Touch
<1>3. ASSUME NEW r \in Requests, NEW s \in Sessions, Create(r, s) PROVE Capped'
  <2>1. NewSession(q[r].seen).left <= NewSession(q[r].seen).life
    BY AuthAssumption DEF NewSession
  <2>2. \A x \in Sessions : sessions'[x] \in {sessions[x], None, NewSession(q[r].seen)}
    BY <1>3 DEF Create, Kept
  <2> QED
    BY <2>1, <2>2 DEF Capped
<1>4. ASSUME NEW r \in Requests, NEW s \in Sessions, DeleteSession(r, s) PROVE Capped'
  BY <1>4, CappedRow DEF DeleteSession
<1>5. ASSUME NEW r \in Requests, ChangeSet(r) PROVE Capped'
  <2> DEFINE s == q[r].who
             x == [sessions[s] EXCEPT !.of = made']
  <2>1. s \in Sessions
    BY <1>5 DEF ChangeSet, Base, Shaped, Shape, ByCookie
  <2>2. CASE sessions[s] = None
    BY <1>5, <2>2 DEF Capped, ChangeSet
  <2>3. CASE sessions[s] # None
    <3>1. sessions[s] \in Session
      BY <2>1, <2>3 DEF Base, TypeOK
    <3>2. x.left = sessions[s].left /\ x.life = sessions[s].life
      BY <3>1 DEF Session
    <3>3. sessions' = [sessions EXCEPT ![s] = x]
      BY <1>5, <2>3 DEF ChangeSet
    <3>4. x.left <= x.life
      BY <2>1, <2>3, <3>2 DEF Capped
    <3> HIDE DEF x, s
    <3> QED
      BY <2>1, <3>3, <3>4, CappedRow
  <2> QED
    BY <2>2, <2>3
<1>6. ASSUME NEW r \in Requests, ChangeOthers(r) PROVE Capped'
  BY <1>6 DEF Capped, ChangeOthers, Only
<1>7. CASE Tick
  <2>1. sessions' = [s \in Sessions |-> IF sessions[s] = None THEN None ELSE Ticked(sessions[s])]
    BY <1>7 DEF Tick, Ticked
  <2>2. \A s \in Sessions : sessions[s] # None => Ticked(sessions[s]).left <= Ticked(sessions[s]).life
    BY TickRow DEF Base, TypeOK, Capped
  <2> QED
    BY <2>1, <2>2 DEF Capped
<1>8. ASSUME NEW r \in Requests, Step(r) PROVE Capped'
  <2>1. \/ UNCHANGED sessions \/ Touch(r) \/ ChangeSet(r) \/ ChangeOthers(r)
        \/ \E s \in Sessions : Create(r, s) \/ DeleteSession(r, s)
    BY <1>8 DEF Step, GetSession, ReadAdmin, GetToken, GiveUp, Check, Delay, Verify, Serve, Refuse,
                DeleteAPIToken, CreateToken, ChangeVerify, ChangeRemove, ChangeTokens, tables
  <2> QED
    BY <2>1, <1>1, <1>2, <1>3, <1>4, <1>5, <1>6
<1>9. ASSUME NEW r \in Requests, Arrive(r) PROVE Capped'
  BY <1>1, <1>9, ArriveBase DEF tables
<1>10. CASE Boot
  BY <1>1, <1>10 DEF Boot, BootRead, BootFile, BootSet, tables
<1>11. CASE Time
  BY <1>1, <1>7, <1>11, TimeFlows
<1>12. CASE Crash
  BY <1>1, <1>12 DEF Crash, tables
<1> QED
  BY <1>1, <1>8, <1>9, <1>10, <1>11, <1>12 DEF Next, vars, tables

\* However often it is touched, no session outlives its absolute lifetime.
THEOREM SessionLifetimeAlways == Spec => []SessionLifetime
<1>1. Init => Base /\ Capped
  BY BaseInit DEF Init, Capped
<1>2. Base /\ Capped /\ [Next]_vars => (Base /\ Capped)'
  BY BaseStep, CappedStep
<1>3. Base /\ Capped => SessionLifetime
  BY AuthAssumption DEF Base, TypeOK, Session, Capped, SessionLifetime, Live
<1> QED
  BY <1>1, <1>2, <1>3, PTL DEF Spec

-------------------------------------------------------------------------------
(* The limiter. *)

Count(ip) == IF fails[ip] = None THEN 0 ELSE fails[ip].count

\* Attempts of a source that have passed the limiter and not yet failed.
Passed(ip) == {r \in Requests : q[r].pc \in {"delay", "verify"} /\ q[r].who = ip}

\* Each of them may still add a failure.
Bounded == \A ip \in IPs : Count(ip) + Cardinality(Passed(ip)) < LockAfter + Cardinality(Requests)

\* The requests past the check are finitely many.
LEMMA PassedFinite ==
    ASSUME NEW ip
    PROVE  /\ IsFiniteSet(Passed(ip)) /\ Cardinality(Passed(ip)) \in Nat
           /\ Cardinality(Requests) \in Nat /\ Cardinality(Passed(ip)) <= Cardinality(Requests)
<1>1. IsFiniteSet(Requests) /\ Passed(ip) \subseteq Requests
  BY AuthAssumption DEF Passed
<1> QED
  BY <1>1, FS_Subset, FS_CardinalityType

\* No more attempts have passed and no failure was added.
LEMMA BoundedKept ==
    ASSUME Base, Base', Bounded,
           \A ip \in IPs : (Passed(ip)' \subseteq Passed(ip) /\ Count(ip)' <= Count(ip)) \/ Count(ip)' < LockAfter
    PROVE  Bounded'
<1>1. SUFFICES ASSUME NEW ip \in IPs
               PROVE  Count(ip)' + Cardinality(Passed(ip)') < LockAfter + Cardinality(Requests)
  BY DEF Bounded
<1>2. Count(ip) \in Nat /\ Count(ip)' \in Nat /\ LockAfter \in Nat
  BY AuthAssumption DEF Count, Base, TypeOK, Attempts
<1>3. /\ IsFiniteSet(Passed(ip)) /\ Cardinality(Passed(ip)) \in Nat /\ Cardinality(Requests) \in Nat
  BY PassedFinite
<1>4. IsFiniteSet(Requests) /\ Passed(ip)' \subseteq Requests
  BY AuthAssumption DEF Passed
<1>5. Cardinality(Passed(ip)') \in Nat /\ Cardinality(Passed(ip)') <= Cardinality(Requests)
  BY <1>4, FS_Subset, FS_CardinalityType
<1>6. CASE Passed(ip)' \subseteq Passed(ip) /\ Count(ip)' <= Count(ip)
  <2>1. Cardinality(Passed(ip)') <= Cardinality(Passed(ip))
    BY <1>3, <1>6, FS_Subset
  <2> QED
    BY <1>2, <1>3, <1>5, <1>6, <2>1 DEF Bounded
<1>7. CASE Count(ip)' < LockAfter
  BY <1>2, <1>3, <1>5, <1>7
<1> QED
  BY <1>6, <1>7

\* Every step keeps the failures and the requests past the check within the
\* bound.
LEMMA BoundedStep ==
    ASSUME Base, Bounded, [Next]_vars
    PROVE  Bounded'
<1>0. Base' /\ fails \in [IPs -> Attempts \cup {None}]
  BY BaseStep DEF Base, TypeOK
<1>c. \A ip \in IPs : Count(ip) \in Nat
  BY <1>0 DEF Count, Attempts
<1>1. CASE UNCHANGED <<fails, q>>
  BY <1>0, <1>1, <1>c, BoundedKept DEF Count, Passed
<1>2. ASSUME NEW r \in Requests, Arrive(r) PROVE Bounded'
  <2>1. UNCHANGED fails /\ \A ip \in IPs : Passed(ip)' \subseteq Passed(ip)
    BY <1>2, ArriveBase DEF Passed, Arriving
  <2> QED
    BY <1>0, <1>c, <2>1, BoundedKept DEF Count
<1>3. ASSUME NEW r \in Requests, Step(r), ~Check(r), ~Verify(r) PROVE Bounded'
  <2>1. Flows(r) /\ UNCHANGED fails
    BY <1>3, StepFlows DEF Flows
  <2>2. \A ip \in IPs : Passed(ip)' \subseteq Passed(ip)
    BY <1>3, <2>1 DEF Flows, Passed
  <2> QED
    BY <1>0, <1>c, <2>1, <2>2, BoundedKept DEF Count
<1>4. ASSUME NEW r \in Requests, Check(r) PROVE Bounded'
  <2>1. q[r].who \in IPs /\ MovesTo(r, {"check"}, {"idle", "delay", "verify"})
    BY <1>4, LoginMoves DEF MovesTo, Base, Shaped, Shape
  <2>m. PICK me \in IPs : me = q[r].who
    BY <2>1
  <2>2. ASSUME NEW ip \in IPs, ip # me PROVE Passed(ip)' \subseteq Passed(ip) /\ Count(ip)' <= Count(ip)
    <3>1. fails'[ip] = fails[ip]
      BY <1>0, <1>4, <2>m, <2>2 DEF Check
    <3>2. Passed(ip)' \subseteq Passed(ip)
      BY <2>1, <2>m, <2>2 DEF MovesTo, Passed
    <3> QED
      BY <3>1, <3>2, <1>c DEF Count
  <2>3. \/ Count(me)' < LockAfter
        \/ q'[r].pc = "idle" /\ UNCHANGED fails
    <3>1. CASE fails[me] = None \/ fails[me].over
      BY <1>0, <1>4, <2>m, <3>1, AuthAssumption DEF Check, Count
    <3>2. CASE fails[me] # None /\ ~fails[me].over /\ Locked(fails[me])
      <4>1. End(r) /\ UNCHANGED fails /\ q[r].pc = "check"
        BY <1>4, <2>m, <3>2 DEF Check
      <4>2. q'[r].pc = "idle"
        BY <4>1 DEF End, NoRequest, Base, TypeOK
      <4> QED
        BY <4>1, <4>2
    <3>3. CASE fails[me] # None /\ ~fails[me].over /\ ~Locked(fails[me])
      <4>1. fails[me].count \in Nat
        BY <1>0, <3>3 DEF Attempts
      <4> QED
        BY <1>4, <2>m, <3>3, <4>1, AuthAssumption DEF Check, Count, Locked
    <3> QED
      BY <3>1, <3>2, <3>3
  <2>4. CASE q'[r].pc = "idle" /\ UNCHANGED fails
    <3>1. \A ip \in IPs : Passed(ip)' \subseteq Passed(ip)
      BY <2>1, <2>4 DEF MovesTo, Passed
    <3> QED
      BY <1>0, <1>c, <2>4, <3>1, BoundedKept DEF Count
  <2> QED
    BY <1>0, <2>2, <2>3, <2>4, BoundedKept
<1>5. ASSUME NEW r \in Requests, Verify(r) PROVE Bounded'
  <2>1. q[r].who \in IPs /\ MovesTo(r, {"verify"}, {"idle", "create"})
    BY <1>5, LoginMoves DEF MovesTo, Base, Shaped, Shape
  <2>2. \A ip \in IPs : Passed(ip)' = Passed(ip) \ {r}
    BY <2>1 DEF MovesTo, Passed
  <2>3. CASE VerifyPassword(r)
    <3>1. \A ip \in IPs : Count(ip)' <= Count(ip)
      BY <1>0, <1>5, <1>c, <2>1, <2>3 DEF Verify, Count
    <3> QED
      BY <1>0, <2>2, <3>1, BoundedKept
  <2>4. CASE ~VerifyPassword(r)
    <3>m. PICK me \in IPs : me = q[r].who
      BY <2>1
    <3>1. fails' = [fails EXCEPT ![me] = Failed(fails[me])]
      BY <1>5, <2>4, <3>m DEF Verify
    <3>2. Failed(fails[me]) # None /\ Failed(fails[me]).count = Count(me) + 1
      <4>1. Failed(fails[me]) \in Attempts
        BY <1>0 DEF Failed, Attempts
      <4>2. Failed(fails[me]).count = Count(me) + 1
        BY <1>c DEF Failed, Count
      <4> QED
        BY <4>1, <4>2, NoRowAssumption
    <3>3. Count(me)' = Count(me) + 1
      BY <1>0, <3>1, <3>2 DEF Count
    <3>4. r \in Passed(me)
      BY <2>1, <3>m DEF MovesTo, Passed
    <3>5. Cardinality(Passed(me)') = Cardinality(Passed(me)) - 1
      BY <2>2, <3>4, PassedFinite, FS_RemoveElement
    <3>6. Count(me)' + Cardinality(Passed(me)') < LockAfter + Cardinality(Requests)
      BY <1>c, <3>3, <3>5, PassedFinite, AuthAssumption DEF Bounded
    <3>7. ASSUME NEW ip \in IPs, ip # me
          PROVE  Count(ip)' + Cardinality(Passed(ip)') < LockAfter + Cardinality(Requests)
      <4>1. r \notin Passed(ip) /\ Passed(ip)' = Passed(ip)
        BY <2>2, <3>m, <3>7 DEF Passed
      <4>2. Count(ip)' = Count(ip)
        BY <1>0, <3>1, <3>7 DEF Count
      <4> QED
        BY <4>1, <4>2 DEF Bounded
    <3> QED
      BY <3>6, <3>7 DEF Bounded
  <2> QED
    BY <2>3, <2>4
<1>6. CASE \E ip \in IPs : LockOver(ip)
  <2>1. PICK ip \in IPs : LockOver(ip)
    BY <1>6
  <2>2. fails[ip] \in Attempts /\ fails' = [fails EXCEPT ![ip].over = TRUE] /\ UNCHANGED q
    BY <1>0, <2>1 DEF LockOver
  <2>3. \A x \in IPs : Count(x)' <= Count(x)
    <3>1. fails'[ip] \in Attempts /\ fails'[ip].count = fails[ip].count
      BY <1>0, <2>2 DEF Attempts
    <3>2. Count(ip)' = Count(ip)
      BY <2>2, <3>1, NoRowAssumption DEF Count
    <3>3. \A x \in IPs : x # ip => Count(x)' = Count(x)
      BY <1>0, <2>2 DEF Count
    <3> QED
      BY <1>c, <3>2, <3>3
  <2> QED
    BY <1>0, <2>2, <2>3, BoundedKept DEF Passed
<1>7. CASE Crash
  <2>1. \A ip \in IPs : Count(ip)' = 0
    BY <1>7 DEF Crash, Count
  <2> QED
    BY <1>0, <2>1, BoundedKept, AuthAssumption
<1>8. CASE Boot
  BY <1>1, <1>8 DEF Boot, BootRead, BootFile, BootSet
<1>9. CASE Time
  BY <1>1, <1>6, <1>9, TimeFlows
<1> QED
  BY <1>1, <1>2, <1>3, <1>4, <1>5, <1>7, <1>8, <1>9 DEF Next, vars

\* However its attempts interleave, a source never has more failures on record
\* than limitLockAfter plus the other attempts that passed check with it.
THEOREM AttemptsBoundedAlways == Spec => []AttemptsBounded
<1>1. Init => Base /\ Bounded
  <2>1. ASSUME Init, NEW ip \in IPs PROVE Count(ip) = 0 /\ Passed(ip) = {}
    BY <2>1, BaseInit DEF Init, Count, Passed
  <2>2. Cardinality(Requests) \in Nat /\ Cardinality({}) = 0
    BY FS_EmptySet, FS_CardinalityType, AuthAssumption
  <2> QED
    BY <2>1, <2>2, BaseInit, AuthAssumption DEF Bounded
<1>2. Base /\ Bounded /\ [Next]_vars => (Base /\ Bounded)'
  BY BaseStep, BoundedStep
<1>3. Base /\ Bounded => AttemptsBounded
  <2>1. ASSUME Base, Bounded, NEW ip \in IPs, fails[ip] # None
        PROVE  fails[ip].count < LockAfter + Cardinality(Requests)
    <3>1. fails[ip].count \in Nat /\ Count(ip) = fails[ip].count
      BY <2>1 DEF Base, TypeOK, Attempts, Count
    <3> QED
      BY <2>1, <3>1, PassedFinite, AuthAssumption DEF Bounded
  <2> QED
    BY <2>1 DEF AttemptsBounded
<1> QED
  BY <1>1, <1>2, <1>3, PTL DEF Spec

-------------------------------------------------------------------------------
(* Revocation. *)

\* Credentials of a password that was changed, apart from those whose request
\* had passed its check before.
StaleSession(s) == sessions[s] # None /\ ~sessions[s].late /\ sessions[s].of # admin.pw
StaleToken(t) == tokens[t] # None /\ ~tokens[t].late /\ tokens[t].of # admin.pw

\* A change that has still to delete session s, or the tokens.
WillDrop(r, s) == q[r].pc \in {"remove", "others"} /\ q[r].who # s
WillRevoke(r) == q[r].pc \in Changing /\ ~q[r].keep

\* Unless a revocation was cut short, each of them is about to be deleted.
Doomed ==
    \/ unrevoked
    \/ /\ \A s \in Sessions : StaleSession(s) => \E r \in Requests : WillDrop(r, s)
       /\ \A t \in Tokens : StaleToken(t) => \E r \in Requests : WillRevoke(r)

\* Nothing becomes stale and no change lets go of what it has to delete.
LEMMA DoomedKept ==
    ASSUME Doomed, unrevoked => unrevoked',
           \A s \in Sessions : StaleSession(s)' => StaleSession(s) /\ \A r \in Requests : WillDrop(r, s) => WillDrop(r, s)',
           \A t \in Tokens : StaleToken(t)' => StaleToken(t) /\ \A r \in Requests : WillRevoke(r) => WillRevoke(r)'
    PROVE  Doomed'
BY DEF Doomed

\* A step of a request that is not changing the password.
LEMMA BystanderDoomed ==
    ASSUME Base, Doomed, NEW r \in Requests, Flows(r), q[r].pc \notin Changing, ~ChangeSet(r),
           \A s \in Sessions : StaleSession(s)' => StaleSession(s),
           \A t \in Tokens : StaleToken(t)' => StaleToken(t)
    PROVE  Doomed'
<1>1. unrevoked' = unrevoked
  BY DEF Flows, ChangeOthers, ChangeTokens, Changing
<1>2. \A v \in Requests : v # r => q'[v] = q[v]
  BY DEF Flows
<1>3. \A s \in Sessions, v \in Requests : WillDrop(v, s) => WillDrop(v, s)'
  BY <1>2 DEF WillDrop, Changing
<1>4. \A v \in Requests : WillRevoke(v) => WillRevoke(v)'
  BY <1>2 DEF WillRevoke, Changing
<1> QED
  BY <1>1, <1>3, <1>4, DoomedKept

\* What such a step may do to the credentials.
LEMMA BystanderStale ==
    ASSUME Base, NEW r \in Requests, Step(r), q[r].pc \notin Changing, ~ChangeSet(r)
    PROVE  /\ \A s \in Sessions : StaleSession(s)' => StaleSession(s)
           /\ \A t \in Tokens : StaleToken(t)' => StaleToken(t)
<1>0. UNCHANGED admin
  BY StepFlows DEF Flows
<1>1. CASE Touch(r)
  <2> DEFINE me == q[r].who
  <2>1. me \in Sessions /\ UNCHANGED tokens
    BY <1>1 DEF Touch, Base, Shaped, Shape, ByCookie
  <2>2. CASE UNCHANGED sessions
    BY <1>0, <2>1, <2>2 DEF StaleSession, StaleToken
  <2>3. CASE sessions[me] # None /\ sessions' = [sessions EXCEPT ![me].left = Extended(sessions[me]), ![me].fresh = TRUE]
    <3>1. sessions[me] \in Session
      BY <2>1, <2>3 DEF Base, TypeOK
    <3>2. sessions'[me].of = sessions[me].of /\ sessions'[me].late = sessions[me].late
      BY <2>1, <2>3, <3>1 DEF Session, Base, TypeOK
    <3>3. \A s \in Sessions : s # me => sessions'[s] = sessions[s]
      BY <2>1, <2>3 DEF Base, TypeOK
    <3> QED
      BY <1>0, <2>1, <2>3, <3>2, <3>3 DEF StaleSession, StaleToken
  <2> QED
    BY <1>1, <2>2, <2>3 DEF Touch
<1>2. CASE \E s \in Sessions : Create(r, s)
  <2>1. PICK s \in Sessions : Create(r, s)
    BY <1>2
  <2>2. UNCHANGED tokens /\ \A x \in Sessions : sessions'[x] \in {sessions[x], None, NewSession(q[r].seen)}
    BY <2>1 DEF Create, Kept
  <2>3. NewSession(q[r].seen).of = admin.pw \/ NewSession(q[r].seen).late
    BY DEF NewSession
  <2> QED
    BY <1>0, <2>2, <2>3 DEF StaleSession, StaleToken
<1>3. CASE \E s \in Sessions : DeleteSession(r, s)
  <2>1. UNCHANGED tokens /\ \A x \in Sessions : sessions'[x] \in {sessions[x], None}
    BY <1>3 DEF DeleteSession, Base, TypeOK
  <2> QED
    BY <1>0, <2>1 DEF StaleSession, StaleToken
<1>4. CASE \E t \in Tokens : DeleteAPIToken(r, t)
  <2>1. UNCHANGED sessions /\ \A x \in Tokens : tokens'[x] \in {tokens[x], None}
    BY <1>4 DEF DeleteAPIToken, Base, TypeOK
  <2> QED
    BY <1>0, <2>1 DEF StaleSession, StaleToken
<1>5. CASE \E t \in Tokens : \E scope \in {"read", "write"}, ttl \in {"never", "left"} : CreateToken(r, t, scope, ttl)
  <2>1. PICK t \in Tokens, scope \in {"read", "write"}, ttl \in {"never", "left"} : CreateToken(r, t, scope, ttl)
    BY <1>5
  <2>2. UNCHANGED sessions /\ \A x \in Tokens : tokens'[x] \in {tokens[x], NewToken(scope, ttl, q[r].seen)}
    BY <2>1 DEF CreateToken, Base, TypeOK
  <2>3. NewToken(scope, ttl, q[r].seen).of = admin.pw \/ NewToken(scope, ttl, q[r].seen).late
    BY DEF NewToken
  <2> QED
    BY <1>0, <2>2, <2>3 DEF StaleSession, StaleToken
<1>6. CASE UNCHANGED <<sessions, tokens>>
  BY <1>0, <1>6 DEF StaleSession, StaleToken
<1>7. \/ UNCHANGED <<sessions, tokens>> \/ Touch(r)
      \/ \E s \in Sessions : Create(r, s) \/ DeleteSession(r, s)
      \/ \E t \in Tokens : \/ DeleteAPIToken(r, t)
                           \/ \E scope \in {"read", "write"}, ttl \in {"never", "left"} : CreateToken(r, t, scope, ttl)
  BY DEF Step, GetSession, ReadAdmin, GetToken, GiveUp, Check, Delay, Verify, Serve, Refuse,
         ChangeVerify, ChangeRemove, ChangeOthers, ChangeTokens, Changing, tables
<1> QED
  BY <1>1, <1>2, <1>3, <1>4, <1>5, <1>6, <1>7

\* The steps of a password change.
LEMMA ChangeDoomed ==
    ASSUME Base, Doomed, NEW r \in Requests,
           ChangeSet(r) \/ ChangeRemove(r) \/ ChangeOthers(r) \/ ChangeTokens(r)
    PROVE  Doomed'
<1>0. Flows(r) /\ q[r] \in Request /\ (q[r].pc \in Changing => q[r].who \in Sessions)
  BY ChangeFlows DEF Base, TypeOK, Shaped, Shape, ByCookie
<1>1. CASE ChangeSet(r)
  <2>1. q[r].who \in Sessions /\ MovesTo(r, {"set"}, {"remove"}) /\ q'[r].who = q[r].who /\ q'[r].keep = q[r].keep
    BY <1>1, ChangeMoves DEF MovesTo, ChangeSet, Base, Shaped, Shape, ByCookie
  <2>2. admin'.pw = made'
    BY <1>1 DEF ChangeSet, SetAdminPassword
  <2>3. ASSUME NEW s \in Sessions, StaleSession(s)' PROVE WillDrop(r, s)'
    <3>1. CASE s = q[r].who
      <4>1. CASE sessions[s] = None
        BY <1>1, <2>3, <3>1, <4>1 DEF ChangeSet, StaleSession
      <4>2. CASE sessions[s] # None
        <5>1. sessions[s] \in Session
          BY <4>2 DEF Base, TypeOK
        <5>2. sessions'[s].of = made'
          BY <1>1, <3>1, <4>2, <5>1 DEF ChangeSet, Session, Base, TypeOK
        <5> QED
          BY <2>2, <2>3, <5>2 DEF StaleSession
      <4> QED
        BY <4>1, <4>2
    <3>2. CASE s # q[r].who
      BY <2>1, <3>2 DEF WillDrop, MovesTo
    <3> QED
      BY <3>1, <3>2
  <2>4. ASSUME NEW t \in Tokens, StaleToken(t)' PROVE WillRevoke(r)'
    <3>1. CASE q[r].keep
      <4>1. tokens' = [x \in Tokens |-> IF tokens[x] = None THEN None ELSE [tokens[x] EXCEPT !.of = made']]
        BY <1>1, <3>1 DEF ChangeSet
      <4>2. tokens[t] # None => tokens[t] \in Token
        BY DEF Base, TypeOK
      <4>3. tokens'[t] # None => tokens'[t].of = made'
        BY <4>1, <4>2 DEF Token
      <4> QED
        BY <2>2, <2>4, <4>3 DEF StaleToken
    <3>2. CASE ~q[r].keep
      BY <2>1, <3>2 DEF WillRevoke, MovesTo, Changing
    <3> QED
      BY <3>1, <3>2
  <2> QED
    BY <2>3, <2>4 DEF Doomed
<1>2. CASE ChangeRemove(r)
  <2>1. MovesTo(r, {"remove"}, {"others"}) /\ UNCHANGED <<admin, sessions, tokens, unrevoked>>
    BY <1>2, ChangeMoves DEF ChangeRemove
  <2>2. /\ \A s \in Sessions, v \in Requests : WillDrop(v, s) => WillDrop(v, s)'
        /\ \A v \in Requests : WillRevoke(v) => WillRevoke(v)'
    BY <2>1 DEF MovesTo, WillDrop, WillRevoke, Changing
  <2> QED
    BY <2>1, <2>2, DoomedKept DEF StaleSession, StaleToken
<1>3. CASE ChangeOthers(r)
  <2>1. MovesTo(r, {"others"}, IF q[r].keep THEN {"idle"} ELSE {"tokens"}) /\ UNCHANGED <<admin, tokens>>
    BY <1>3, ChangeMoves DEF ChangeOthers
  <2>2. CASE sessions' = Only(q[r].who) /\ UNCHANGED unrevoked
    <3>1. \A v \in Requests : WillRevoke(v) => WillRevoke(v)'
      BY <2>1 DEF MovesTo, WillRevoke, Changing
    <3>2. \A s \in Sessions : StaleSession(s)' => StaleSession(s) /\ s = q[r].who
      BY <2>1, <2>2 DEF StaleSession, Only
    <3>3. \A v \in Requests : WillDrop(v, q[r].who) => v # r
      BY DEF WillDrop
    <3>4. \A v \in Requests, s \in Sessions : s = q[r].who /\ WillDrop(v, s) => WillDrop(v, s)'
      BY <2>1, <3>3 DEF MovesTo, WillDrop
    <3> QED
      BY <2>1, <2>2, <3>1, <3>2, <3>4, DoomedKept DEF StaleToken
  <2>3. CASE unrevoked'
    BY <2>3 DEF Doomed
  <2> QED
    BY <1>3, <2>2, <2>3 DEF ChangeOthers
<1>4. CASE ChangeTokens(r)
  <2>1. MovesTo(r, {"tokens"}, {"idle"}) /\ UNCHANGED <<admin, sessions>>
    BY <1>4, ChangeMoves DEF ChangeTokens
  <2>2. CASE tokens' = [t \in Tokens |-> None] /\ UNCHANGED unrevoked
    <3>1. \A t \in Tokens : ~StaleToken(t)'
      BY <2>2 DEF StaleToken
    <3>2. \A v \in Requests, s \in Sessions : WillDrop(v, s) => WillDrop(v, s)'
      BY <2>1 DEF MovesTo, WillDrop
    <3> QED
      BY <2>1, <2>2, <3>1, <3>2, DoomedKept DEF StaleSession
  <2>3. CASE unrevoked'
    BY <2>3 DEF Doomed
  <2> QED
    BY <1>4, <2>2, <2>3 DEF ChangeTokens
<1> QED
  BY <1>1, <1>2, <1>3, <1>4

\* Every step keeps the old credentials doomed or gone.
LEMMA DoomedStep ==
    ASSUME Base, Doomed, [Next]_vars
    PROVE  Doomed'
<1>1. CASE UNCHANGED vars
  BY <1>1 DEF vars, tables, Doomed, StaleSession, StaleToken, WillDrop, WillRevoke
<1>2. CASE Boot
  <2>1. CASE UNCHANGED admin
    BY <1>2, <2>1 DEF Boot, BootRead, BootFile, BootSet, tables,
                      Doomed, StaleSession, StaleToken, WillDrop, WillRevoke
  <2>2. CASE BootSet
    BY <2>2 DEF BootSet, Base, Phases, Doomed, StaleSession, StaleToken
  <2> QED
    BY <1>2, <2>1, <2>2 DEF Boot, BootRead, BootFile, tables
<1>3. ASSUME NEW r \in Requests, Arrive(r) PROVE Doomed'
  <2>1. q[r].pc = "idle" /\ (\A v \in Requests : v # r => q'[v] = q[v]) /\ UNCHANGED <<admin, sessions, tokens, unrevoked>>
    BY <1>3, ArriveBase DEF tables
  <2>2. /\ \A s \in Sessions, v \in Requests : WillDrop(v, s) => WillDrop(v, s)'
        /\ \A v \in Requests : WillRevoke(v) => WillRevoke(v)'
    BY <2>1 DEF WillDrop, WillRevoke, Changing
  <2> QED
    BY <2>1, <2>2, DoomedKept DEF StaleSession, StaleToken
<1>4. ASSUME NEW r \in Requests, Step(r) PROVE Doomed'
  <2>1. Flows(r)
    BY <1>4, StepFlows
  <2>2. CASE q[r].pc \in Changing \/ ChangeSet(r)
    BY <2>1, <2>2, ChangeDoomed DEF Flows
  <2>3. CASE q[r].pc \notin Changing /\ ~ChangeSet(r)
    BY <1>4, <2>1, <2>3, BystanderStale, BystanderDoomed
  <2> QED
    BY <2>2, <2>3
<1>5. CASE Time
  <2>1. UNCHANGED <<admin, q, unrevoked>>
    BY <1>5, TimeFlows
  <2>2. \A s \in Sessions : StaleSession(s)' => StaleSession(s)
    <3>1. CASE UNCHANGED sessions
      BY <2>1, <3>1 DEF StaleSession
    <3>2. CASE Tick
      <4>1. sessions' = [s \in Sessions |-> IF sessions[s] = None THEN None ELSE Ticked(sessions[s])]
        BY <3>2 DEF Tick, Ticked
      <4>2. \A s \in Sessions : sessions[s] # None =>
              Ticked(sessions[s]).of = sessions[s].of /\ Ticked(sessions[s]).late = sessions[s].late
        BY TickRow DEF Base, TypeOK
      <4> QED
        BY <2>1, <4>1, <4>2 DEF StaleSession
    <3> QED
      BY <1>5, <3>1, <3>2, TimeFlows
  <2>3. \A t \in Tokens : StaleToken(t)' => StaleToken(t)
    <3>1. CASE UNCHANGED tokens
      BY <2>1, <3>1 DEF StaleToken
    <3>2. ASSUME NEW u \in Tokens, TokenExpires(u) PROVE \A t \in Tokens : StaleToken(t)' => StaleToken(t)
      <4>1. tokens[u] \in Token /\ tokens[u] # None
        BY <3>2 DEF TokenExpires, Base, TypeOK
      <4>2. tokens'[u].of = tokens[u].of /\ tokens'[u].late = tokens[u].late
        BY <3>2, <4>1 DEF TokenExpires, Token, Base, TypeOK
      <4>3. \A t \in Tokens : t # u => tokens'[t] = tokens[t]
        BY <3>2 DEF TokenExpires, Base, TypeOK
      <4> QED
        BY <2>1, <4>1, <4>2, <4>3 DEF StaleToken
    <3> QED
      BY <1>5, <3>1, <3>2, TimeFlows
  <2> QED
    BY <2>1, <2>2, <2>3, DoomedKept DEF WillDrop, WillRevoke
<1>6. CASE Crash
  <2>1. UNCHANGED <<admin, sessions, tokens>> /\ unrevoked' = (unrevoked \/ \E r \in Requests : q[r].pc \in Changing)
    BY <1>6 DEF Crash, tables
  <2>2. CASE unrevoked'
    BY <2>2 DEF Doomed
  <2>3. CASE ~unrevoked'
    <3>1. ~unrevoked /\ \A r \in Requests : q[r].pc \notin Changing
      BY <2>1, <2>3
    <3>2. \A r \in Requests : ~WillRevoke(r) /\ \A s \in Sessions : ~WillDrop(r, s)
      BY <3>1 DEF WillRevoke, WillDrop, Changing
    <3>3. (\A s \in Sessions : ~StaleSession(s)) /\ (\A t \in Tokens : ~StaleToken(t))
      BY <3>1, <3>2 DEF Doomed
    <3> QED
      BY <2>1, <3>3 DEF Doomed, StaleSession, StaleToken
  <2> QED
    BY <2>2, <2>3
<1> QED
  BY <1>1, <1>2, <1>3, <1>4, <1>5, <1>6 DEF Next

\* Once no ChangePassword is under way and none was cut short, every session
\* and token belongs to the password in force, or to a request that had passed
\* its check before the change.
THEOREM CredentialsDieAlways == Spec => []CredentialsDie
<1>1. Init => Base /\ Doomed
  BY BaseInit DEF Init, Doomed, StaleSession, StaleToken
<1>2. Base /\ Doomed /\ [Next]_vars => (Base /\ Doomed)'
  BY BaseStep, DoomedStep
<1>3. Base /\ Doomed => CredentialsDie
  BY DEF Doomed, StaleSession, StaleToken, WillDrop, WillRevoke, CredentialsDie, Changing
<1> QED
  BY <1>1, <1>2, <1>3, PTL DEF Spec

===============================================================================
