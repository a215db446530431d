---------------------------- MODULE MCMessages -----------------------------
(* Scenarios for TLC: every message alone at every proxy, and the pairs of  *)
(* messages that can get in each other's way.                               *)
EXTENDS ServerRequests

CONSTANTS hx, hy, p, q

Requests == {"toolsCall", "subscribe", "toolsList", "initialize", "unknown"}
Notifications == {"toolsCall", "initialized", "cancelled", "rootsChanged", "unknown"}
M(k, me, i, d) == [kind |-> k, method |-> me, id |-> i, declares |-> d]

Alone == {<<M("request", me, hx, d)>> : me \in Requests, d \in Declarations}
         \cup {<<M("notification", me, hx, d)>> : me \in Notifications, d \in Declarations}

\* One id used twice, a cancellation of the first or of nothing, a full pool, and a first
\* message that pins the revision of the second.
Pairs ==
  {<<M("request", first, hx, d), M(second[1], second[2], second[3], d)>> :
     first \in {"toolsCall", "toolsList"}, d \in {"none", newRev},
     second \in {<<"request", "toolsCall", hx>>, <<"request", "toolsCall", hy>>,
                 <<"notification", "cancelled", hx>>, <<"notification", "cancelled", hy>>}}
  \cup {<<M("request", "toolsCall", hx, newRev), M("request", "toolsList", hy, "none")>>,
        <<M("request", "initialize", hx, "none"), M("request", "toolsCall", hy, newRev)>>}

Proxy(t, a, s, u, c, n) == [transport |-> t, audit |-> a, strict |-> s, upstreamRev |-> u,
                            contextRev |-> c, slots |-> n]
\* Observing or strict: a decision may ask to be observed at any proxy.
AllProxies ==
  {Proxy("stdio", a, ~a, u, None, 2) : a \in BOOLEAN, u \in Revisions}
  \cup {Proxy("http", a, ~a, u, c, 2) : a \in BOOLEAN, u \in Revisions, c \in Revisions}
PairProxies ==
  {Proxy("stdio", FALSE, FALSE, u, None, 2) : u \in Revisions}
  \cup {Proxy("http", FALSE, FALSE, newRev, newRev, 2), Proxy("stdio", FALSE, TRUE, oldRev, None, 1)}

Host == [proxy: AllProxies, sends: Alone, asks: {<<>>}]
        \cup [proxy: PairProxies, sends: Pairs, asks: {<<>>}]

A(i, s) == [id |-> i, sampling |-> s, big |-> FALSE]

\* One id used again while it is in use, two ids past the limit of what is tracked, and an
\* id that is refused for its length.
Reuse == <<A(p, FALSE), A(p, TRUE), A(q, FALSE)>>
Short == <<[A(p, FALSE) EXCEPT !.big = TRUE], A(p, FALSE), A(p, TRUE)>>

Server ==
  [proxy: {Proxy("stdio", FALSE, TRUE, oldRev, None, 2), Proxy("http", FALSE, FALSE, oldRev, oldRev, 2)},
   sends: {<<>>}, asks: {Reuse}]
  \cup [proxy: {Proxy("http", FALSE, TRUE, oldRev, oldRev, 1), Proxy("http", TRUE, FALSE, oldRev, newRev, 1)},
        sends: {<<>>}, asks: {Short}]

ScenariosC == Host \cup Server
=============================================================================
