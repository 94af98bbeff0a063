------------------------------ MODULE PeerPolicy ------------------------------
(***************************************************************************)
(* What the P2P node thinks of its peers: the error scores                 *)
(* (error_handler.hpp), the fork watchdog (fork_watchdog.hpp) and the      *)
(* classification of errors (p2p_node.cpp).  A score is kept for each      *)
(* address.  Scores are scaled down and do not grow past the threshold at  *)
(* which a peer is dropped.                                                *)
(***************************************************************************)
EXTENDS Naturals, FiniteSets

LOCAL INSTANCE FiniteSetsExt

CONSTANTS
    DisconnectAt,   \* error_score_disconnect_threshold
    ReconnectBelow  \* error_score_reconnect_threshold

\* What can be said against a peer, with its score in P2POptions.
Errors == {"timeout", "transport", "application", "not_connected", "fork_bomb"}

ScoreForError(error) ==
    IF error \in {"not_connected", "fork_bomb"} THEN DisconnectAt ELSE 1

\* record_error: what is left of the score, anything down to nothing as time passes,
\* and the new error.
RecordError(scores, address, error) ==
    {[scores EXCEPT ![address] = Min({DisconnectAt, left + ScoreForError(error)})] :
        left \in {0, scores[address]}}

\* report_peer_error: the peer is dropped at the threshold, and at once when the
\* connection is what failed.
Drops(scores, address, error) == scores[address] >= DisconnectAt \/ error = "transport"

\* can_connect: the score as it was at the last error.
CanConnect(scores, address) == scores[address] < ReconnectBelow

---------------------------------------------------------------------------
(* The fork watchdog, as the set of blocks it has counted.                 *)

CONSTANTS
    MaxForks,   \* max_forks_per_parent
    ForkKey(_), \* of a block: the signature and the parent under which it is counted
    HeightOf(_)

\* check counts the block; this is its answer.
ForkBomb(counted, b) ==
    Cardinality({c \in counted \cup {b} : ForkKey(c) = ForkKey(b)}) > MaxForks

\* purge_below: a key goes with its lowest block.
PurgeBelow(counted, height) ==
    {c \in counted : \A d \in counted : ForkKey(d) = ForkKey(c) => HeightOf(d) > height}
=============================================================================
