------------------------------ MODULE Authority -----------------------------
(***************************************************************************)
(* What the authorization server promises, without a store, policies, reads*)
(* or writes: a grant or a session is handed out only for what was asked,  *)
(* only if the agent and the caller were entitled to it at a time between  *)
(* the asking and the answer, at most one for each asking, and it lasts no *)
(* longer than a lifetime that may be granted.  Where callers are          *)
(* authenticated, whoever asks for a grant in the name of another agent    *)
(* holds a session for that agent.  An authority may always refuse.        *)
(***************************************************************************)
EXTENDS Integers

CONSTANTS
    Agent,
    Purpose,        \* what may be asked for; {} is a session
    Server,         \* who serves: each at most one asking at a time
    Lifetime,       \* the seconds a credential may have left, a set of numbers
    Authenticated   \* nobody is taken to be the agent it names

VARIABLES
    entitled,     \* the agents, the callers and what each may get for each now
    asks,         \* the askings being served
    due,          \* those that were entitled to their purpose at a time since
    grants,       \* the grants that are accepted
    sessions      \* the sessions that are accepted

vars == <<entitled, asks, due, grants, sessions>>

Entitlement == Agent \X Agent \X Purpose

Ask == [server : Server, agent : Agent, caller : Agent, purpose : Purpose]

Entitled(ask, now) == <<ask.agent, ask.caller, ask.purpose>> \in now

\* A caller names itself, or an agent it holds a session for.
MayName(ask) ==
    \/ ask.agent = ask.caller
    \/ \E s \in sessions : s.agent = ask.agent /\ s.caller = ask.caller

Init ==
    /\ entitled \subseteq Entitlement
    /\ asks = {}
    /\ due = {}
    /\ grants = {}
    /\ sessions = {}

\* Agents come, go and change; an asking may be due once it is entitled.
Change ==
    /\ entitled' \subseteq Entitlement
    /\ due \subseteq due'
    /\ due' \subseteq due \cup {x \in asks : Entitled(x, entitled')}
    /\ UNCHANGED <<asks, grants, sessions>>

Receive(x) ==
    /\ \A y \in asks : y.server # x.server
    /\ Authenticated /\ x.purpose # {} => MayName(x)
    /\ asks' = asks \cup {x}
    /\ due' = due \cup {y \in {x} : Entitled(y, entitled)}
    /\ UNCHANGED <<entitled, grants, sessions>>

Refuse(x) ==
    /\ asks' = asks \ {x}
    /\ due' = due \ {x}
    /\ UNCHANGED <<entitled, grants, sessions>>

Credential(x, t) == [agent |-> x.agent, caller |-> x.caller, left |-> t]

Answer(x) ==
    /\ x \in due
    /\ \E t \in Lifetime :
          IF x.purpose = {}
          THEN sessions' = sessions \cup {Credential(x, t)} /\ grants' = grants
          ELSE grants' = grants \cup {Credential(x, t)} /\ sessions' = sessions
    /\ asks' = asks \ {x}
    /\ due' = due \ {x}
    /\ UNCHANGED entitled

OneSecondLess(tokens) == {[c EXCEPT !.left = @ - 1] : c \in {d \in tokens : d.left > 0}}

\* A credential is accepted for one second less; askings may wait too long.
Tick ==
    /\ grants' = OneSecondLess(grants)
    /\ sessions' = OneSecondLess(sessions)
    /\ asks' \subseteq asks
    /\ due' = due \cap asks'
    /\ UNCHANGED entitled

\* A restart forgets the askings, and may forget credentials.
Restart ==
    /\ entitled' \subseteq Entitlement
    /\ asks' = {}
    /\ due' = {}
    /\ grants' \subseteq grants
    /\ sessions' \subseteq sessions

Next ==
    \/ Change
    \/ \E x \in Ask : Receive(x)
    \/ \E x \in asks : Refuse(x) \/ Answer(x)
    \/ Tick
    \/ Restart

Spec == Init /\ [][Next]_vars
=============================================================================
