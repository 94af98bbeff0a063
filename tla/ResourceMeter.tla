--------------------------- MODULE ResourceMeter ---------------------------
(***************************************************************************)
(* resource_meter and session: what is left of a block's disk, network and *)
(* compute budget, and the rc budget of the transaction that is paying.    *)
(* While a session lives its rc pays for every use; without one the use is *)
(* the block producer's ("system").  A meter is a record, and each use     *)
(* answers the meter after it and the exception it throws.                 *)
(***************************************************************************)
EXTENDS Integers, Sequences

LOCAL INSTANCE FiniteSetsExt

CONSTANTS
    Limit,    \* resource_limit_data: the block's budget of each resource
    Price     \* and the rc one unit of each costs

Resources == {"disk", "network", "compute"}

NoSession == [alive |-> FALSE, begin |-> 0, end |-> 0, events |-> <<>>]

\* The constructor's limits, which nothing that runs before
\* set_resource_limit_data can exhaust.
Plenty == 1000

NewMeter ==
    [limit |-> [r \in Resources |-> Plenty], left |-> [r \in Resources |-> Plenty],
     price |-> [r \in Resources |-> 0],
     system |-> [r \in Resources |-> 0], session |-> NoSession]

\* set_resource_limit_data.
SetLimits(m) ==
    [m EXCEPT !.limit = Limit, !.left = Limit, !.price = Price,
              !.system = [r \in Resources |-> 0]]

\* make_session and the end of the session's life.
MakeSession(m, rc) ==
    [m EXCEPT !.session = [alive |-> TRUE, begin |-> rc, end |-> rc, events |-> <<>>]]

EndSession(m) == [m EXCEPT !.session = NoSession]

\* session::used_rc: freed disk may leave more rc than there was.
UsedRc(m) == Max({m.session.begin - m.session.end, 0})

\* What the three use_ methods share: the block's budget is checked first, then
\* session::use_rc takes the cost from the payer, or the use is the system's.
Use(m, r, n) ==
    LET cost == n * m.price[r]
        took == [m EXCEPT !.left[r] = @ - n]
    IN  IF n > m.left[r] THEN [meter |-> m, exc |-> "failure"]
        ELSE IF ~m.session.alive
             THEN [meter |-> [took EXCEPT !.system[r] = @ + n], exc |-> "none"]
        ELSE IF cost > m.session.end THEN [meter |-> m, exc |-> "reversion"]
        ELSE [meter |-> [took EXCEPT !.session.end = @ - cost], exc |-> "none"]

UseDisk(m, bytes) == Use(m, "disk", bytes)

UseNetwork(m, bytes) ==
    IF bytes < 0 THEN [meter |-> m, exc |-> "failure"] ELSE Use(m, "network", bytes)

UseCompute(m, ticks) ==
    IF ticks < 0 THEN [meter |-> m, exc |-> "failure"] ELSE Use(m, "compute", ticks)

\* disk_storage_used, network_bandwidth_used, compute_bandwidth_used.
Used(m, r) == Max({m.limit[r] - m.left[r], 0})

\* compute_bandwidth_remaining: the payer's rc may allow less than the block.
ComputeRemaining(m) ==
    IF m.session.alive /\ m.price["compute"] > 0
    THEN Min({Min({m.session.begin, m.session.end}) \div m.price["compute"],
              m.left["compute"]})
    ELSE m.left["compute"]

===========================================================================
