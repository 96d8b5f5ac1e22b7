------------------------------- MODULE Gateway -------------------------------
(***************************************************************************)
(* What the reconciler promises, with no loop, lock, load or retry: desired *)
(* states are committed one after the other; a component is moved only to   *)
(* a committed state, whole, and never to an older one than it runs or than *)
(* the one acknowledged; acknowledgements only go forward.  The promise is  *)
(* kept on record (stored): a component that was left halfway, or touched   *)
(* by a third party, is in doubt until it is installed again, and may be    *)
(* acknowledged meanwhile on the strength of its record.                    *)
(***************************************************************************)
EXTENDS Integers

CONSTANTS
    Item,        \* the parts of a desired state
    Component    \* the components that run it

VARIABLES
    latest,      \* number of the newest committed desired state
    committed,   \* the committed desired states, 0 .. latest
    acked,       \* the desired state acknowledged as applied
    stored,      \* what is on record for each component, or unknown
    running,     \* what each component runs: a numbered state, or unknown
    doubt        \* components of which the record may not be true

gvars == <<latest, committed, acked, stored, running, doubt>>

Unknown == [gen |-> -1, cfg |-> [i \in Item |-> 0]]

Init ==
    /\ latest = 0
    /\ committed = [g \in 0 .. 0 |-> [i \in Item |-> 0]]
    /\ acked = 0
    /\ stored = [c \in Component |-> Unknown]
    /\ running = [c \in Component |-> Unknown]
    /\ doubt = {}

\* A new desired state; the earlier ones are history and do not change.
Commit ==
    /\ latest' = latest + 1
    /\ committed' = [g \in 0 .. latest + 1 |->
                        IF g = latest + 1 THEN committed'[latest + 1] ELSE committed[g]]
    /\ UNCHANGED <<acked, stored, running, doubt>>

\* The states c may be moved to.
Forward(c) == {g \in 0 .. latest : g >= acked /\ g >= running[c].gen}

Install(c) ==
    /\ \E g \in Forward(c) :
          /\ stored' = [stored EXCEPT ![c] = [gen |-> g, cfg |-> committed[g]]]
          /\ running' = [running EXCEPT ![c] = [gen |-> g, cfg |-> committed[g]]]
    /\ doubt' = doubt \ {c}
    /\ UNCHANGED <<latest, committed, acked>>

\* Records may be forgotten, all or some of them.
Forgotten(S, r) == [b \in Component |-> IF b \in S THEN Unknown ELSE r[b]]

\* An installation that did not finish, and perhaps records lost with it.
CutShort(c) ==
    /\ \E g \in Forward(c) :
          LET new == [gen |-> g, cfg |-> committed[g]]
          IN  /\ \E S \in SUBSET Component, r \in {stored[c], new} :
                    stored' = Forgotten(S, [stored EXCEPT ![c] = r])
              /\ \E w \in {running[c], new, Unknown} :
                    running' = [running EXCEPT ![c] = w]
    /\ doubt' = doubt \cup {c}
    /\ UNCHANGED <<latest, committed, acked>>

Forget ==
    /\ \E S \in SUBSET Component : stored' = Forgotten(S, stored)
    /\ UNCHANGED <<latest, committed, acked, running, doubt>>

\* A third party meddles with c.
Lose(c) ==
    /\ running' = [running EXCEPT ![c] = Unknown]
    /\ doubt' = doubt \cup {c}
    /\ UNCHANGED <<latest, committed, acked, stored>>

\* Acknowledged is only what is on record for every component, and what it
\* runs if it is not in doubt.
Acknowledge ==
    /\ acked' \in acked .. latest
    /\ \A c \in Component :
          /\ stored[c].gen = acked'
          /\ c \notin doubt => running[c].gen = acked'
    /\ UNCHANGED <<latest, committed, stored, running, doubt>>

Next ==
    \/ Commit
    \/ Acknowledge
    \/ Forget
    \/ \E c \in Component : Install(c) \/ CutShort(c) \/ Lose(c)

Spec == Init /\ [][Next]_gvars
==============================================================================
