------------------------------- MODULE Routes -------------------------------
(***************************************************************************)
(* What the forwarding table promises the rest of VpnCloud.  Peers claim   *)
(* address ranges; the table answers with a peer whose claim is the most   *)
(* specific one that matches and remembers the answer for a while; in      *)
(* learning mode it also remembers where addresses were seen.  ClaimTable, *)
(* the model of src/table.rs, implements this specification.               *)
(***************************************************************************)
EXTENDS Integers

CONSTANTS Peer, Address, Claim,
          Matches(_, _),    \* Matches(c, a): address a lies in the claimed range c
          PrefixLen(_),     \* how specific a claim is
          cache_timeout, claim_timeout

VARIABLES claims,     \* set of [peer, claim, timeout]
          cache,      \* maps some addresses to [peer, timeout, learned]
          now         \* the current time

vars == <<claims, cache, now>>

Entry == [peer : Peer, claim : Claim, timeout : Int]
Route == [peer : Peer, timeout : Int, learned : BOOLEAN]

\* f without the addresses outside S.
Only(f, S) == [a \in S |-> f[a]]

Live(es) == {e \in es : e.timeout >= now}
LiveCache(peers) ==
    Only(cache, {a \in DOMAIN cache : cache[a].timeout >= now /\ cache[a].peer \in peers})

Init ==
    /\ claims = {}
    /\ cache = [a \in {} |-> 0]
    /\ now \in Nat

\* The peer announces all its claims.  What it announced before and does not
\* announce now may stay until it expires.
SetClaims(peer, announced) ==
    /\ \E kept \in SUBSET {e \in claims : e.peer = peer} :
        claims' = Live({e \in claims : e.peer # peer} \cup kept) \cup
                    {[peer |-> peer, claim |-> c, timeout |-> now + claim_timeout] :
                        c \in announced}
    /\ cache' = LiveCache(Peer \ {peer})
    /\ UNCHANGED now

RemoveClaims(peer) ==
    /\ claims' = Live({e \in claims : e.peer # peer})
    /\ cache' = LiveCache(Peer \ {peer})
    /\ UNCHANGED now

Remember(addr, route) ==
    cache' = [a \in DOMAIN cache \cup {addr} |-> IF a = addr THEN route ELSE cache[a]]

\* The address was seen as the source of a packet from the peer.
Learn(addr, peer) ==
    /\ Remember(addr, [peer |-> peer, timeout |-> now + cache_timeout, learned |-> TRUE])
    /\ UNCHANGED <<claims, now>>

MostSpecific(e, addr) ==
    /\ Matches(e.claim, addr)
    /\ \A d \in claims : Matches(d.claim, addr) => PrefixLen(d.claim) <= PrefixLen(e.claim)

\* The first packet to an address without a route.
Resolve(addr) ==
    /\ addr \notin DOMAIN cache
    /\ \E e \in claims :
        /\ MostSpecific(e, addr)
        /\ LET t == now + cache_timeout
           IN  Remember(addr, [peer |-> e.peer, learned |-> FALSE,
                               timeout |-> IF t <= e.timeout THEN t ELSE e.timeout])
    /\ UNCHANGED <<claims, now>>

Expire ==
    /\ claims' = Live(claims)
    /\ cache' = LiveCache(Peer)
    /\ UNCHANGED now

Tick == now' = now + 1 /\ UNCHANGED <<claims, cache>>

Next ==
    \/ \E peer \in Peer : \/ \E announced \in SUBSET Claim : SetClaims(peer, announced)
                          \/ RemoveClaims(peer)
                          \/ \E addr \in Address : Learn(addr, peer)
    \/ \E addr \in Address : Resolve(addr)
    \/ Expire
    \/ Tick

Spec == Init /\ [][Next]_vars

(* Types.  In particular a route never leads to an unknown peer.            *)
TypeOK ==
    /\ claims \in SUBSET Entry
    /\ DOMAIN cache \subseteq Address
    /\ cache \in [DOMAIN cache -> Route]
    /\ now \in Nat

(* A remembered route that was not learned from traffic is backed by a      *)
(* claim: the peer it leads to claims a range with the address in it, and   *)
(* that claim lives at least as long as the route.                          *)
Backed ==
    \A a \in DOMAIN cache :
        ~cache[a].learned =>
            \E e \in claims : /\ e.peer = cache[a].peer
                              /\ Matches(e.claim, a)
                              /\ cache[a].timeout <= e.timeout
=============================================================================
