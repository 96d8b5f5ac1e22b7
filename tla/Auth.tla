--------------------------------- MODULE Auth ---------------------------------
(***************************************************************************)
(* The single admin account (internal/auth, internal/store/auth.go): the    *)
(* bootstrap password, logins and their limiter, sessions, API tokens, the  *)
(* middleware and the password change.  Requests run concurrently and every *)
(* statement, file operation and limiter call of a request is a step.       *)
(*                                                                          *)
(* Passwords are numbered in the order they are made; 0 is a wrong one.     *)
(* Times are remainders: a session has `left' until it expires and `life'   *)
(* until its absolute end, in ticks longer than the five minutes between    *)
(* two touches; a limiter record is `over' after the lock time.             *)
(***************************************************************************)
EXTENDS Naturals, FiniteSets

CONSTANTS
    Requests,       \* requests that can be under way at a time
    IPs,            \* source addresses
    Sessions,       \* random session ids, never given out twice
    Tokens,         \* random token ids, never given out twice
    None,
    Idle, Absolute, \* sessionIdle, sessionAbsolute
    DelayAfter, LockAfter,   \* limitDelayAfter, limitLockAfter
    MaxPasswords,   \* bound: passwords ever made
    MaxRequests,    \* bound: requests ever accepted
    MaxFaults       \* bound: failed calls, given-up requests and crashes

ASSUME AuthAssumption ==
    /\ IsFiniteSet(Requests)
    /\ None \notin Sessions \cup Tokens \cup IPs /\ None \notin Nat
    /\ Idle \in Nat \ {0} /\ Absolute \in Nat /\ Idle <= Absolute
    /\ DelayAfter \in Nat /\ LockAfter \in Nat \ {0} /\ DelayAfter <= LockAfter
    /\ MaxPasswords \in Nat /\ MaxRequests \in Nat /\ MaxFaults \in Nat

VARIABLES
    admin, file,          \* auth_admin; bootstrap_password.txt
    sessions, tokens,     \* the tables
    spent,                \* session and token ids given out
    fails,                \* limiter.fails
    boot, made,           \* Bootstrap; the last password made
    q, accepted,          \* the requests under way; how many there were
    unrevoked,            \* history: a change was cut short or could not revoke
    faults

tables == <<admin, file, sessions, tokens, spent>>
vars == <<tables, fails, boot, made, q, accepted, unrevoked, faults>>

Ids == Sessions \cup Tokens
Account == [pw : Nat, first : BOOLEAN]
Attempts == [count : Nat, over : BOOLEAN]
Session == [left : 0 .. Idle, life : 0 .. Absolute, fresh : BOOLEAN, of : Nat, late : BOOLEAN]
Token == [scope : {"read", "write"}, ttl : {"never", "left", "over"}, of : Nat, late : BOOLEAN]
Ops == {"login", "api", "logout", "change", "kill", "revoke", "mint"}
NeedsSession == {"login", "logout", "change", "mint"}
Changing == {"remove", "others", "tokens"}

Request ==
    [pc : {"idle", "check", "delay", "verify", "create", "session", "touch", "admin", "token", "set"} \cup Ops \cup Changing,
     op : Ops, who : Ids \cup IPs \cup {None}, offer : Nat, seen : Nat, keep : BOOLEAN]
NoRequest == [pc |-> "idle", op |-> "login", who |-> None, offer |-> 0, seen |-> 0, keep |-> FALSE]

ASSUME NoRowAssumption == None \notin Account \cup Attempts \cup Session \cup Token

TypeOK ==
    /\ admin \in Account \cup {None} /\ file \in Nat \cup {None}
    /\ sessions \in [Sessions -> Session \cup {None}] /\ tokens \in [Tokens -> Token \cup {None}]
    /\ spent \subseteq Ids
    /\ \A s \in Sessions : sessions[s] # None => s \in spent
    /\ \A t \in Tokens : tokens[t] # None => t \in spent
    /\ fails \in [IPs -> Attempts \cup {None}]
    /\ boot \in {"start", "file", "set", "serve"} /\ made \in 0 .. MaxPasswords
    /\ q \in [Requests -> Request] /\ accepted \in 0 .. MaxRequests
    /\ unrevoked \in BOOLEAN /\ faults \in 0 .. MaxFaults

Init ==
    /\ admin = None /\ file = None
    /\ sessions = [s \in Sessions |-> None] /\ tokens = [t \in Tokens |-> None] /\ spent = {}
    /\ fails = [i \in IPs |-> None]
    /\ boot = "start" /\ made = 0
    /\ q = [r \in Requests |-> NoRequest] /\ accepted = 0
    /\ unrevoked = FALSE /\ faults = 0

Fault == faults < MaxFaults /\ faults' = faults + 1

Live(s) == sessions[s] # None /\ sessions[s].left > 0

SetAdminPassword(pw, bootstrap) == admin' = [pw |-> pw, first |-> bootstrap]
VerifyPassword(r) == q[r].offer = admin.pw

Goto(r, p) == q' = [q EXCEPT ![r].pc = p]
End(r) == q' = [q EXCEPT ![r] = NoRequest]

-------------------------------------------------------------------------------
(* Bootstrap; an error ends the process, as a crash does. *)

BootRead ==
    /\ boot = "start"
    /\ IF admin # None THEN boot' = "serve" /\ UNCHANGED made
       ELSE made < MaxPasswords /\ boot' = "file" /\ made' = made + 1
    /\ UNCHANGED <<tables, fails, q, unrevoked, faults, accepted>>

\* Mutant: the hash is stored first.
BootFileAfter ==
    /\ boot = "file"
    /\ SetAdminPassword(made, TRUE)
    /\ boot' = "set"
    /\ UNCHANGED <<file, sessions, tokens, spent, fails, made, q, unrevoked, faults, accepted>>

BootFile ==
    /\ boot = "file"
    /\ file' = made
    /\ boot' = "set"
    /\ UNCHANGED <<admin, sessions, tokens, spent, fails, made, q, unrevoked, faults, accepted>>

BootSet ==
    /\ boot = "set"
    /\ SetAdminPassword(made, TRUE)
    /\ boot' = "serve"
    /\ UNCHANGED <<file, sessions, tokens, spent, fails, made, q, unrevoked, faults, accepted>>

-------------------------------------------------------------------------------
(* Requests and the middleware. *)

Accept(r, request) ==
    /\ boot = "serve" /\ q[r].pc = "idle"
    /\ accepted < MaxRequests /\ accepted' = accepted + 1
    /\ q' = [q EXCEPT ![r] = request]
    /\ UNCHANGED <<tables, fails, boot, made, unrevoked, faults>>

Login(r, ip, pw) ==
    Accept(r, [pc |-> "check", op |-> "login", who |-> ip, offer |-> pw, seen |-> 0, keep |-> FALSE])

\* A request with a session cookie; the session may be gone meanwhile.
WithCookie(r, o, s) ==
    /\ o # "login" /\ s \in spent
    /\ \E pw \in 0 .. made, k \in BOOLEAN :
          /\ o # "change" => pw = 0 /\ ~k
          /\ Accept(r, [pc |-> "session", op |-> o, who |-> s, offer |-> pw, seen |-> 0, keep |-> k])

\* A request with a token; handlers that need a session refuse it.
WithToken(r, o, t) ==
    /\ o \notin NeedsSession /\ t \in spent
    /\ Accept(r, [pc |-> "token", op |-> o, who |-> t, offer |-> 0, seen |-> 0, keep |-> FALSE])

\* GetSession
GetSession(r) ==
    /\ q[r].pc = "session"
    /\ IF ~Live(q[r].who) THEN End(r)
       ELSE Goto(r, IF sessions[q[r].who].fresh THEN "admin" ELSE "touch")
    /\ UNCHANGED <<tables, fails, boot, made, unrevoked, faults, accepted>>

\* Mutant: the absolute lifetime does not cap the idle time.
ExtendedUncapped(x) == Idle

Extended(x) == IF Idle < x.life THEN Idle ELSE x.life

\* TouchSession updates the row if it is still there; an error is ignored.
Touch(r) ==
    /\ q[r].pc = "touch"
    /\ Goto(r, "admin")
    /\ \/ /\ sessions' = IF sessions[q[r].who] = None THEN sessions
                         ELSE [sessions EXCEPT ![q[r].who].left = Extended(sessions[q[r].who]), ![q[r].who].fresh = TRUE]
          /\ UNCHANGED faults
       \/ Fault /\ UNCHANGED sessions
    /\ UNCHANGED <<admin, file, tokens, spent, fails, boot, made, unrevoked, accepted>>

\* On the generated password only the auth endpoints are served.
Permitted(o, a) == ~a.first \/ o # "api"

ReadAdmin(r) ==
    /\ q[r].pc = "admin"
    /\ IF Permitted(q[r].op, admin) THEN q' = [q EXCEPT ![r].pc = q[r].op, ![r].seen = admin.pw]
                                  ELSE End(r)
    /\ UNCHANGED <<tables, fails, boot, made, unrevoked, faults, accepted>>

\* APITokenByHash and the scope; an api request may be a read.
GetToken(r) ==
    /\ q[r].pc = "token"
    /\ LET t == tokens[q[r].who]
       IN  IF t = None \/ t.ttl = "over" \/ (t.scope = "read" /\ q[r].op # "api") THEN End(r)
           ELSE Goto(r, q[r].op)
    /\ UNCHANGED <<tables, fails, boot, made, unrevoked, faults, accepted>>

\* A database error, or the client goes away.
GiveUp(r) ==
    /\ q[r].pc \notin {"idle"} \cup Changing
    /\ Fault /\ End(r)
    /\ UNCHANGED <<tables, fails, boot, made, unrevoked, accepted>>

-------------------------------------------------------------------------------
(* Login. *)

\* Mutant: one attempt too many.
LockedLate(rec) == rec.count > LockAfter

Locked(rec) == rec.count >= LockAfter

\* limiter.check
Check(r) ==
    /\ q[r].pc = "check"
    /\ LET rec == fails[q[r].who]
       IN  IF rec = None \/ (rec # None /\ rec.over)
           THEN Goto(r, "verify") /\ fails' = [fails EXCEPT ![q[r].who] = None]
           ELSE /\ UNCHANGED fails
                /\ IF Locked(rec) THEN End(r)
                   ELSE Goto(r, IF rec.count >= DelayAfter THEN "delay" ELSE "verify")
    /\ UNCHANGED <<tables, boot, made, unrevoked, faults, accepted>>

Delay(r) ==
    /\ q[r].pc = "delay"
    /\ Goto(r, "verify")
    /\ UNCHANGED <<tables, fails, boot, made, unrevoked, faults, accepted>>

\* limiter.fail
Failed(rec) == [count |-> 1 + (IF rec = None THEN 0 ELSE rec.count), over |-> FALSE]

\* Admin, VerifyPassword and the limiter's verdict.
Verify(r) ==
    /\ q[r].pc = "verify"
    /\ IF VerifyPassword(r)
       THEN /\ q' = [q EXCEPT ![r].pc = "create", ![r].seen = admin.pw]
            /\ fails' = [fails EXCEPT ![q[r].who] = None]
       ELSE End(r) /\ fails' = [fails EXCEPT ![q[r].who] = Failed(@)]
    /\ UNCHANGED <<tables, boot, made, unrevoked, faults, accepted>>

NewSession(pw) ==
    [left |-> Idle, life |-> Absolute, fresh |-> TRUE, of |-> pw, late |-> pw # admin.pw]

\* PruneSessions
Kept(s) == IF Live(s) THEN sessions[s] ELSE None

Create(r, s) ==
    /\ q[r].pc = "create" /\ s \notin spent
    /\ End(r)
    /\ spent' = spent \cup {s}
    /\ sessions' = [x \in Sessions |-> IF x = s THEN NewSession(q[r].seen) ELSE Kept(x)]
    /\ UNCHANGED <<admin, file, tokens, fails, boot, made, unrevoked, faults, accepted>>

-------------------------------------------------------------------------------
(* The other handlers. *)

Serve(r) ==
    /\ q[r].pc = "api"
    /\ End(r)
    /\ UNCHANGED <<tables, fails, boot, made, unrevoked, faults, accepted>>

\* ListSessions
Listed == {s \in Sessions : Live(s)}

DeleteSession(r, s) ==
    /\ \/ q[r].pc = "logout" /\ s = q[r].who
       \/ q[r].pc = "kill" /\ s \in Listed
    /\ End(r)
    /\ sessions' = [sessions EXCEPT ![s] = None]
    /\ UNCHANGED <<admin, file, tokens, spent, fails, boot, made, unrevoked, faults, accepted>>

\* The CSRF header, the body, the new password or the name is refused, or the
\* id is unknown.
Refuse(r) ==
    /\ q[r].pc \in {"change", "set", "kill", "revoke", "mint", "logout"}
    /\ End(r)
    /\ UNCHANGED <<tables, fails, boot, made, unrevoked, faults, accepted>>

DeleteAPIToken(r, t) ==
    /\ q[r].pc = "revoke"
    /\ End(r)
    /\ tokens' = [tokens EXCEPT ![t] = None]
    /\ UNCHANGED <<admin, file, sessions, spent, fails, boot, made, unrevoked, faults, accepted>>

\* CreateAPIToken
NewToken(scope, ttl, pw) == [scope |-> scope, ttl |-> ttl, of |-> pw, late |-> pw # admin.pw]

CreateToken(r, t, scope, ttl) ==
    /\ q[r].pc = "mint" /\ t \notin spent
    /\ End(r)
    /\ spent' = spent \cup {t}
    /\ tokens' = [tokens EXCEPT ![t] = NewToken(scope, ttl, q[r].seen)]
    /\ UNCHANGED <<admin, file, sessions, fails, boot, made, unrevoked, faults, accepted>>

\* ChangePassword: the old one is verified, against the row as it is now ...
ChangeVerify(r) ==
    /\ q[r].pc = "change"
    /\ IF VerifyPassword(r) THEN Goto(r, "set") ELSE End(r)
    /\ UNCHANGED <<tables, fails, boot, made, unrevoked, faults, accepted>>

\* ... the new hash stored (the caller's session and the tokens it keeps
\* count as the new password's from here on) ...
ChangeSet(r) ==
    /\ q[r].pc = "set" /\ made < MaxPasswords
    /\ made' = made + 1
    /\ SetAdminPassword(made', FALSE)
    /\ sessions' = IF sessions[q[r].who] = None THEN sessions ELSE [sessions EXCEPT ![q[r].who].of = made']
    /\ tokens' = IF ~q[r].keep THEN tokens
                 ELSE [t \in Tokens |-> IF tokens[t] = None THEN None ELSE [tokens[t] EXCEPT !.of = made']]
    /\ Goto(r, "remove")
    /\ UNCHANGED <<file, spent, fails, boot, unrevoked, faults, accepted>>

\* ... and, whatever fails from now on, the file removed ...
ChangeRemove(r) ==
    /\ q[r].pc = "remove"
    /\ Goto(r, "others")
    /\ \/ file' = None /\ UNCHANGED faults
       \/ Fault /\ UNCHANGED file
    /\ UNCHANGED <<admin, sessions, tokens, spent, fails, boot, made, unrevoked, accepted>>

\* Mutant: the tokens are only revoked, not the sessions.
ChangeOthersKept(r) ==
    /\ q[r].pc = "others"
    /\ IF q[r].keep THEN End(r) ELSE Goto(r, "tokens")
    /\ UNCHANGED <<tables, fails, boot, made, unrevoked, faults, accepted>>

\* DeleteOtherSessions
Only(keep) == [s \in Sessions |-> IF s = keep THEN sessions[s] ELSE None]

\* ... the other sessions ...
ChangeOthers(r) ==
    /\ q[r].pc = "others"
    /\ IF q[r].keep THEN End(r) ELSE Goto(r, "tokens")
    /\ \/ /\ sessions' = Only(q[r].who)
          /\ UNCHANGED <<unrevoked, faults>>
       \/ Fault /\ unrevoked' = TRUE /\ UNCHANGED sessions
    /\ UNCHANGED <<admin, file, tokens, spent, fails, boot, made, accepted>>

\* ... and the tokens revoked.
ChangeTokens(r) ==
    /\ q[r].pc = "tokens"
    /\ End(r)
    /\ \/ /\ tokens' = [t \in Tokens |-> None]
          /\ UNCHANGED <<unrevoked, faults>>
       \/ Fault /\ unrevoked' = TRUE /\ UNCHANGED tokens
    /\ UNCHANGED <<admin, file, sessions, spent, fails, boot, made, accepted>>

-------------------------------------------------------------------------------
(* Time and crashes. *)

Less(n) == IF n = 0 THEN 0 ELSE n - 1

Tick ==
    /\ \E s \in Sessions : sessions[s] # None
    /\ sessions' = [s \in Sessions |-> IF sessions[s] = None THEN None
                        ELSE [sessions[s] EXCEPT !.left = Less(@), !.life = Less(@), !.fresh = FALSE]]
    /\ UNCHANGED <<admin, file, tokens, spent, fails, boot, made, q, unrevoked, faults, accepted>>

TokenExpires(t) ==
    /\ tokens[t] # None /\ tokens[t].ttl = "left"
    /\ tokens' = [tokens EXCEPT ![t].ttl = "over"]
    /\ UNCHANGED <<admin, file, sessions, spent, fails, boot, made, q, unrevoked, faults, accepted>>

LockOver(ip) ==
    /\ fails[ip] # None /\ ~fails[ip].over
    /\ fails' = [fails EXCEPT ![ip].over = TRUE]
    /\ UNCHANGED <<tables, boot, made, q, unrevoked, faults, accepted>>

Crash ==
    /\ Fault
    /\ boot' = "start"
    /\ fails' = [i \in IPs |-> None]
    /\ q' = [r \in Requests |-> NoRequest]
    /\ unrevoked' = (unrevoked \/ \E r \in Requests : q[r].pc \in Changing)
    /\ UNCHANGED <<tables, made, accepted>>

-------------------------------------------------------------------------------

Boot == BootRead \/ BootFile \/ BootSet

Arrive(r) ==
    \/ \E ip \in IPs, pw \in 0 .. made : Login(r, ip, pw)
    \/ \E o \in Ops, s \in Sessions : WithCookie(r, o, s)
    \/ \E o \in Ops, t \in Tokens : WithToken(r, o, t)

Step(r) ==
    \/ GetSession(r) \/ Touch(r) \/ ReadAdmin(r) \/ GetToken(r) \/ GiveUp(r)
    \/ Check(r) \/ Delay(r) \/ Verify(r) \/ Serve(r) \/ Refuse(r)
    \/ \E s \in Sessions : Create(r, s) \/ DeleteSession(r, s)
    \/ \E t \in Tokens : \/ DeleteAPIToken(r, t)
                         \/ \E scope \in {"read", "write"}, ttl \in {"never", "left"} : CreateToken(r, t, scope, ttl)
    \/ ChangeVerify(r) \/ ChangeSet(r) \/ ChangeRemove(r) \/ ChangeOthers(r) \/ ChangeTokens(r)

Time == Tick \/ (\E t \in Tokens : TokenExpires(t)) \/ (\E ip \in IPs : LockOver(ip))

Next == Boot \/ (\E r \in Requests : Arrive(r) \/ Step(r)) \/ Time \/ Crash

Spec == Init /\ [][Next]_vars

-------------------------------------------------------------------------------
(* Properties. *)

\* While the generated password is in use the operator can read it: whatever
\* is cut short, by a crash or an error, the file holds the password whose
\* hash is stored (Bootstrap writes the file first, a change removes it last).
BootstrapReadable == admin # None /\ admin.first => file = admin.pw

\* A password change "revokes every other session and, unless keepTokens is
\* set, every API token" (ChangePassword): once no change is under way and
\* none was cut short, what works belongs to the current password, except a
\* login or a token request that had passed its check before the change.
CredentialsDie ==
    \/ unrevoked
    \/ \E r \in Requests : q[r].pc \in Changing
    \/ /\ \A s \in Sessions : sessions[s] # None => sessions[s].late \/ sessions[s].of = admin.pw
       /\ \A t \in Tokens : tokens[t] # None => tokens[t].late \/ tokens[t].of = admin.pw

\* Concurrent attempts pass the limiter together; still, a source never has
\* more failures on record than the lock allows plus those under way.
AttemptsBounded ==
    \A ip \in IPs : fails[ip] # None => fails[ip].count < LockAfter + Cardinality(Requests)

\* However often it is touched, no session outlives its absolute lifetime.
SessionLifetime == \A s \in Sessions : Live(s) => sessions[s].life > 0

===============================================================================
