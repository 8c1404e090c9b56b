----------------------------- MODULE ClaimTable -----------------------------
(***************************************************************************)
(* The forwarding table, src/table.rs: a list of claims, one entry per     *)
(* range a peer announced, and a cache of routes that lookups and learning *)
(* fill.  Every entry carries the time at which it expires.                *)
(*                                                                         *)
(* learned, announced and since are history: they record where a cache     *)
(* entry came from, when a peer last announced a range, and since when the *)
(* table holds it.                                                         *)
(***************************************************************************)
EXTENDS Ranges, Sequences, FiniteSets

CONSTANTS Peer,
          Addresses,          \* the addresses looked up, a subset of Address
          Announcements,      \* the range lists that peers announce
          cache_timeout, claim_timeout,
          MaxTime             \* bound on the clock

ASSUME TableAssumption ==
    /\ Addresses \subseteq Address
    /\ Announcements \subseteq Seq(AddressRange)
    /\ cache_timeout \in Nat /\ claim_timeout \in Nat /\ MaxTime \in Nat \ {0}

VARIABLES claims, cache, now, announced, since
vars == <<claims, cache, now, announced, since>>

Items(s) == {s[i] : i \in DOMAIN s}
Claims == UNION {Items(s) : s \in Announcements}
Never == 0

Init ==
    /\ claims = <<>>
    /\ cache = [a \in {} |-> 0]
    /\ now = 1
    /\ announced = [p \in Peer |-> [c \in Claims |-> Never]]
    /\ since = [p \in Peer |-> [c \in Claims |-> Never]]

-----------------------------------------------------------------------------
(* housekeep, which every change of claims ends with.                       *)

retain(cs, t) ==
    LET kept[k \in 0 .. Len(cs)] ==
            IF k = 0 THEN <<>>
            ELSE IF cs[k].timeout >= t THEN Append(kept[k - 1], cs[k]) ELSE kept[k - 1]
    IN  kept[Len(cs)]

retain_cache(ca, t) == [a \in {b \in DOMAIN ca : ca[b].timeout >= t} |-> ca[a]]

\* The cache with the entries of the peer expired.
ZeroCache(peer) ==
    [a \in DOMAIN cache |->
        IF cache[a].peer = peer THEN [cache[a] EXCEPT !.timeout = 0] ELSE cache[a]]

\* A range is held since now, unless the table held it before.
Hold ==
    since' = [p \in Peer |-> [c \in Claims |->
                IF \A e \in Items(claims') : e.peer # p \/ e.claim # c THEN Never
                ELSE IF since[p][c] = Never THEN now ELSE since[p][c]]]

housekeep == /\ claims' = retain(claims, now)
             /\ cache' = retain_cache(cache, now)
             /\ Hold
             /\ UNCHANGED <<now, announced>>

-----------------------------------------------------------------------------
(* set_claims.                                                              *)

\* Vec::swap_remove: the last element takes the place of the removed one.
swap_remove(s, pos) == [i \in 1 .. Len(s) - 1 |-> IF i = pos THEN s[Len(s)] ELSE s[i]]

\* The first of the indices, 0 if there is none.
First(indices) ==
    IF indices = {} THEN 0 ELSE CHOOSE i \in indices : \A j \in indices : i <= j

position(s, x) == First({i \in DOMAIN s : s[i] = x})

\* One round of the loop over the table.  Once the last announced range is
\* found the loop stops, and the entries that follow stay as they are.
Refresh(peer, state, k) ==
    LET entry == state.table[k]
        pos == position(state.left, entry.claim)
        rest == swap_remove(state.left, pos)
    IN  IF state.stopped \/ entry.peer # peer
        THEN state
        ELSE IF pos = 0
        THEN [state EXCEPT !.table = [@ EXCEPT ![k].timeout = 0]]
        ELSE [table |-> [state.table EXCEPT ![k].timeout = now + claim_timeout],
              left |-> rest, stopped |-> rest = <<>>]

Refreshed(peer, list) ==
    LET after[k \in 0 .. Len(claims)] ==
            IF k = 0 THEN [table |-> claims, left |-> list, stopped |-> FALSE]
            ELSE Refresh(peer, after[k - 1], k)
    IN  after[Len(claims)]

set_claims(peer, list) ==
    LET loop == Refreshed(peer, list)
        pushed == [i \in DOMAIN loop.left |->
                     [peer |-> peer, claim |-> loop.left[i], timeout |-> now + claim_timeout]]
    IN  /\ claims' = retain(loop.table \o pushed, now)
        /\ cache' = retain_cache(ZeroCache(peer), now)
        /\ announced' = [announced EXCEPT ![peer] =
                [c \in Claims |-> IF c \in Items(list) THEN now ELSE @[c]]]
        /\ Hold
        /\ UNCHANGED now

remove_claims(peer) ==
    LET zeroed == [i \in DOMAIN claims |->
                     IF claims[i].peer = peer THEN [claims[i] EXCEPT !.timeout = 0] ELSE claims[i]]
    IN  /\ claims' = retain(zeroed, now)
        /\ cache' = retain_cache(ZeroCache(peer), now)
        /\ announced' = [announced EXCEPT ![peer] = [c \in Claims |-> Never]]
        /\ Hold
        /\ UNCHANGED now

-----------------------------------------------------------------------------
(* Lookups and learning.                                                    *)

Insert(addr, entry) ==
    cache' = [a \in DOMAIN cache \cup {addr} |-> IF a = addr THEN entry ELSE cache[a]]

\* ClaimTable::cache, called for the source of a packet from the peer.
Learn(addr, peer) ==
    /\ Insert(addr, [peer |-> peer, timeout |-> now + cache_timeout, learned |-> TRUE])
    /\ UNCHANGED <<claims, now, announced, since>>

\* Mutant: the first entry that matches is the answer.
FoundFirst(addr) == First({i \in DOMAIN claims : matches(claims[i].claim, addr)})

\* One round of the scan: entry k, or the best one so far, 0 for none.
Better(addr, best, k) ==
    IF /\ best = 0 \/ claims[k].claim.prefix_len > claims[best].claim.prefix_len
       /\ matches(claims[k].claim, addr)
    THEN k ELSE best

\* The index of the entry the scan of the table ends with.
Found(addr) ==
    LET best[k \in 0 .. Len(claims)] == IF k = 0 THEN 0 ELSE Better(addr, best[k - 1], k)
    IN  best[Len(claims)]

\* Mutant: the route is kept as long as the claim.
CacheFoundLong(addr, e) ==
    Insert(addr, [peer |-> e.peer, learned |-> FALSE, timeout |-> e.timeout])

CacheFound(addr, e) ==
    Insert(addr, [peer |-> e.peer, learned |-> FALSE,
                  timeout |-> IF now + cache_timeout <= e.timeout THEN now + cache_timeout
                                                                  ELSE e.timeout])

\* A lookup answered from the cache changes nothing, and neither does one for
\* an address that nobody claims.
lookup(addr) ==
    /\ IF addr \notin DOMAIN cache /\ Found(addr) # 0
       THEN CacheFound(addr, claims[Found(addr)])
       ELSE UNCHANGED cache
    /\ UNCHANGED <<claims, now, announced, since>>

Tick == now < MaxTime /\ now' = now + 1 /\ UNCHANGED <<claims, cache, announced, since>>

Next ==
    \/ \E peer \in Peer :
        \/ \E list \in Announcements : set_claims(peer, list)
        \/ remove_claims(peer)
        \/ \E addr \in Addresses : Learn(addr, peer)
    \/ \E addr \in Addresses : lookup(addr)
    \/ housekeep
    \/ Tick

Spec == Init /\ [][Next]_vars

-----------------------------------------------------------------------------
R == INSTANCE Routes WITH claims <- Items(claims), Address <- Addresses, Claim <- Claims,
        Matches <- matches, PrefixLen <- LAMBDA c : c.prefix_len

(* Types: entries of the table and of the cache belong to known peers, and  *)
(* none carries the time 0 that marks an entry for removal by housekeep.    *)
TypeOK ==
    /\ claims \in Seq([peer : Peer, claim : Claims, timeout : Nat \ {0}])
    /\ DOMAIN cache \subseteq Addresses
    /\ \A a \in DOMAIN cache :
        cache[a] \in [peer : Peer, timeout : Nat \ {0}, learned : BOOLEAN]
    /\ now \in 1 .. MaxTime

(* The table, its loops, its break and its zeroed timeouts included, does   *)
(* nothing that the abstract table does not: a lookup returns a most        *)
(* specific matching claim, and routes derived from claims are backed by    *)
(* one as long as they are kept (RoutesBacked in ClaimTableProofs).        *)
ImplementsRoutes == R!Spec

\* Where a table holds a range of a peer, and where a list names a range.
Holding(table, p, c) == {i \in DOMAIN table : table[i].peer = p /\ table[i].claim = c}
Naming(list, c) == {i \in DOMAIN list : list[i] = c}

\* The table holds a range of a peer no more often than one announcement may
\* name it.
NoPileUp ==
    \A p \in Peer, c \in Claims :
        \E list \in Announcements :
            Cardinality(Holding(claims, p, c)) <= Cardinality(Naming(list, c))

\* The ranges with the address that its peer has announced.
Backing(a) == {c \in Claims : matches(c, a) /\ announced[cache[a].peer][c] # Never}

(* The table follows what peers announce.  Repeated announcements do not    *)
(* pile up entries.  A route that lookup derived ends at most claim_timeout *)
(* after its peer last announced a range with the address in it, and there  *)
(* is none to a peer whose claims were removed and that has not announced   *)
(* any since.  When another peer claims a more specific range, the route in *)
(* the cache hides that claim for no longer than cache_timeout.             *)
TableFollowsAnnouncements ==
    /\ TypeOK /\ NoPileUp
    /\ \A a \in {b \in DOMAIN cache : ~cache[b].learned} :
        /\ \E c \in Backing(a) :
                cache[a].timeout <= announced[cache[a].peer][c] + claim_timeout
        /\ \A e \in Items(claims) :
                /\ cache[a].timeout >= now /\ matches(e.claim, a)
                /\ \A c \in Backing(a) : c.prefix_len < e.claim.prefix_len
                => now <= since[e.peer][e.claim] + cache_timeout
=============================================================================
