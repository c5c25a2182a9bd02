-------------------------- MODULE MCAgentTransport --------------------------
(***************************************************************************)
(* AgentTransport for TLC: two callers, two URLs, and three mixes of calls:*)
(* two inspections of one client; two principals reading one URL; a search *)
(* by POST beside a supporting document at the same URL.                   *)
(***************************************************************************)
EXTENDS AgentTransport, TLC

CONSTANTS u, v, c1, c2

MCCallers == {c1, c2}
Made(kind, partition, method, body) ==
    [kind |-> kind, partition |-> partition, method |-> method, url |-> u,
     language |-> "en", payload |-> body]
Two(first, second) == [c \in MCCallers |-> IF c = c1 THEN first ELSE second]

Inspect == Made("inspect", "alice", "GET", NoPayload)
Read(who) == Made("read", who, "GET", NoPayload)
SearchFor(what) == Made("read", "alice", "POST", what)
Support == Made("support", "anonymous", "GET", NoPayload)

(* The first caller comes back once.                                      *)
MCQuota == [c \in MCCallers |-> IF c = c1 THEN 2 ELSE 1]

MCMixes == {Two(Inspect, Inspect), Two(Read("alice"), Read("bob")),
            Two(SearchFor("query"), Support)}

(* Nothing redirects; the URL asked for does; both do, to each other.      *)
MCLayouts == {(u :> "here" @@ v :> "here"), (u :> v @@ v :> "here"), (u :> v @@ v :> u)}

Headers(d, g, known) == [directive |-> d, grant |-> g, vary |-> known]
MCReplies == {Headers("none", 0, TRUE),
              Headers("lifetime", 1, TRUE), Headers("no-store", 0, FALSE)}
=============================================================================
