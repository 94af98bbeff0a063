------------------------------- MODULE LiveNode -------------------------------
(***************************************************************************)
(* A running node among its peers: the P2P node (p2p_node.cpp) on its      *)
(* transport (libp2p_transport.cpp), the chain it feeds, the block store,  *)
(* the stores that follow accepted blocks, the gossip toggle and the block *)
(* producer, as main.cpp wires them.                                       *)
(*                                                                         *)
(* Threads: one sync loop for each connected peer, the transport's one io  *)
(* thread, the reconnect thread, the gossip toggle's thread and the block  *)
(* producer's.  Sync loops, the io thread (gossip) and the producer submit *)
(* blocks; the process may die at any step.                                *)
(***************************************************************************)
EXTENDS BlockStore, AcceptedIndexes, BlockProducer

LOCAL INSTANCE SequencesExt
LOCAL INSTANCE FiniteSetsExt

CONSTANTS
    NoBlock,
    DisconnectAt, ReconnectBelow, MaxForks,
    Signature,     \* signature() of each block
    Threshold,     \* how far behind a block the last irreversible one is
    Peer,
    NextHeads,     \* of each head: the ones that a peer which has it may get next
    Checkpoint,    \* the configured checkpoint
    BatchSize,     \* block_request_batch_size
    Recent,        \* blocks whose timestamp is close to the clock
    Own,           \* the blocks that the producer may make; bounds them
    Pending,       \* what get_pending_transactions may answer
    Failing,       \* transactions that fail when the proposed block is executed
    Slots,         \* bounds the sync loops of one peer that exist at a time
    Budget         \* bounds crashes, stops, gossip messages, peers that change branch
                   \* and, at two each, faults of the network, all together

\* A batch must reach past the local head, or a node far behind makes no progress.
ASSUME BatchAssumption == BatchSize > Threshold

VARIABLES
    proc,    \* "up", "stopping" or "down"
    chain,   \* the chain's state: root (durable), nodes, final, head
    sub,     \* of each submitter: the block it submits and how far that is
    bs, ix,  \* the block store, and the stores that follow accepted blocks
    net,     \* the host's connections, and the transport's tables and queue
    io,      \* the io thread: the peer it handles and the steps left to do
    p2p,     \* the tables of P2PNode
    loops,   \* the sync loops
    gossip,  \* the gossip toggle, and the gate of the producer that follows it
    prod,    \* the block producer
    heads,   \* the head of each peer
    spent,   \* the budget used so far
    hist     \* cut: the blocks that were being submitted when the process died, and
             \*     have not been announced since
             \* pruned: the blocks whose node a commit removed while they were being
             \*     submitted
             \* late: the peers that were added although the transport had dropped them

vars == <<proc, chain, sub, bs, ix, net, io, p2p, loops, gossip, prod, heads, spent, hist>>

Policy == INSTANCE PeerPolicy WITH
    ForkKey <- LAMBDA b : <<Signature[b], Previous[b]>>, HeightOf <- LAMBDA b : Height[b]

---------------------------------------------------------------------------
(* States *)

Submitter == {"sync", "io", "producer"}

Quiet == [at |-> "none", block |-> NoBlock]

Returned == {"applied", "known", "irreversible", "unknown", "failed"}

\* The address under which gossip errors are counted: to_peer_id leaves it empty.
NoAddress == "no_address"

Loop == Peer \X Slots

NoLoop == [at |-> "none", attached |-> FALSE, lib |-> 0, head |-> NoBlock, todo |-> <<>>]

IdleIo == [peer |-> NoBlock, todo |-> <<>>]

FreshNet == [link |-> {}, connected |-> {}, connecting |-> {}, queue |-> <<>>]

FreshP2P ==
    [running |-> TRUE, peers |-> {}, joining |-> {}, lib |-> 0, seen |-> {}, counted |-> {},
     scores |-> [a \in Peer \cup {NoAddress} |-> 0]]

FreshProducer ==
    [at |-> "idle", aux |-> "none", parent |-> NoBlock, metadata |-> NoBlock, trxs |-> <<>>]

FreshGossip == [on |-> FALSE, head |-> "none"]

ChainAt(path) ==
    [root |-> path[1], nodes |-> Range(path), final |-> Range(path), head |-> Last(path)]

MemoryIsFresh ==
    /\ sub' = [t \in Submitter |-> Quiet]
    /\ net' = FreshNet /\ io' = IdleIo /\ p2p' = FreshP2P
    /\ loops' = [l \in Loop |-> NoLoop]
    /\ gossip' = FreshGossip /\ prod' = FreshProducer

Init ==
    /\ proc = "up"
    /\ chain = ChainAt(<<Genesis>>)
    /\ sub = [t \in Submitter |-> Quiet]
    /\ bs = EmptyBlockStore /\ ix = EmptyIndexes
    /\ net = FreshNet /\ io = IdleIo /\ p2p = FreshP2P
    /\ loops = [l \in Loop |-> NoLoop]
    /\ gossip = FreshGossip /\ prod = FreshProducer
    /\ heads = [p \in Peer |-> Genesis]
    /\ spent = 0 /\ hist = [cut |-> {}, pruned |-> {}, late |-> {}]

Up == proc = "up"
Alive == proc # "down"
Running == p2p.running

Spend(n) == spent + n <= Budget /\ spent' = spent + n

---------------------------------------------------------------------------
(* Submitting a block: apply_block.  The database lock is shared up to the *)
(* end of the execution and again during the announcements, and exclusive  *)
(* in between.                                                             *)

\* What apply_block finds: the block is there, its parent is final, or why not.
Lookup(b) ==
    CASE b \in chain.nodes -> "known"
      [] b \notin chain.nodes /\ Previous[b] \in chain.final -> "execute"
      [] b \notin chain.nodes /\ Previous[b] \notin chain.nodes /\ Height[b] < Height[chain.root]
            -> "irreversible"
      [] OTHER -> "unknown"

Enter(t, b) ==
    /\ sub' = [sub EXCEPT ![t] = [at |-> Lookup(b), block |-> b]]
    /\ chain' = IF Lookup(b) = "execute" THEN [chain EXCEPT !.nodes = @ \cup {b}] ELSE chain

Leave(t) == sub' = [sub EXCEPT ![t] = Quiet]

\* The block is executed, and the block store gets it.
Execute(t) ==
    /\ sub[t].at = "execute"
    /\ bs' = AddBlock(bs, sub[t].block)
    /\ sub' = [sub EXCEPT ![t].at = "finalize"]
    /\ UNCHANGED <<proc, chain, ix, net, io, p2p, loops, gossip, prod, heads, spent, hist>>

\* get_last_irreversible_block in the state of a block.
IrreversibleHeight(b) == IF Height[b] > Threshold THEN Height[b] - Threshold ELSE 0

\* The blocks among some that descend from a block, or are it.
From(blocks, r) == {b \in blocks : Height[b] >= Height[r] /\ Ancestor(b, Height[r]) = r}

\* finalize_node on the chain, then commit_node of the irreversible block.
Finalized(c, b) ==
    LET lib   == IrreversibleHeight(b)
        final == c.final \cup {b}
        head  == IF Height[b] > Height[c.head] THEN b ELSE c.head
        root  == Ancestor(b, lib)
    IN  IF lib > Height[c.root]
        THEN [root |-> root, nodes |-> From(c.nodes, root), final |-> From(final, root),
              head |-> head]
        ELSE [c EXCEPT !.final = final, !.head = head]

\* The exclusive section.  The commit of another thread may have removed the node.
Finalize(t) ==
    /\ sub[t].at = "finalize"
    /\ \A u \in Submitter : sub[u].at # "execute"
    /\ LET b == sub[t].block
       IN  \/ /\ b \in chain.nodes
              /\ chain' = Finalized(chain, b)
              /\ hist' = [hist EXCEPT !.pruned =
                    @ \cup ((chain.nodes \ chain.final) \ chain'.nodes)]
              /\ sub' = [sub EXCEPT ![t].at = "announce"]
           \/ /\ b \notin chain.nodes
              /\ sub' = [sub EXCEPT ![t].at = "failed"]
              /\ UNCHANGED <<chain, hist>>
    /\ UNCHANGED <<proc, bs, ix, net, io, p2p, loops, gossip, prod, heads, spent>>

\* on_block_irreversible, then on_block_accepted of every subscriber.
Announce(t) ==
    /\ sub[t].at = "announce"
    /\ LET lib == Height[chain.root]
       IN  p2p' = [p2p EXCEPT !.lib = lib, !.counted = Policy!PurgeBelow(@, lib)]
    /\ ix' = IndexBlock(ix, sub[t].block)
    /\ gossip' = [gossip EXCEPT !.head = IF sub[t].block \in Recent THEN "recent" ELSE "old"]
    /\ sub' = [sub EXCEPT ![t].at = "applied"]
    /\ hist' = [hist EXCEPT !.cut = @ \ {sub[t].block}]
    /\ UNCHANGED <<proc, chain, bs, net, io, loops, prod, heads, spent>>

---------------------------------------------------------------------------
(* Peers: errors, connections *)

\* disconnect_peer, up to its callback.
Disconnected(n, p) ==
    [n EXCEPT !.connected = @ \ {p}, !.connecting = @ \ {p}, !.queue = Append(@, <<"drop", p>>)]

\* Mutant: the loop stays with the peer's entry.
DetachedNot(ls, p) == ls

\* on_peer_disconnected: the loop is detached, not ended.
Detached(ls, p) ==
    [l \in Loop |-> IF l[1] = p THEN [ls[l] EXCEPT !.attached = FALSE] ELSE ls[l]]

\* report_peer_error against the peer of a sync loop, which ends when the peer is
\* dropped; otherwise it goes on at a given place.
Report(l, error, at) ==
    LET p == l[1]
    IN  \E scores \in Policy!RecordError(p2p.scores, p, error) :
          /\ p2p' = [p2p EXCEPT !.scores = scores]
          /\ IF Policy!Drops(scores, p, error)
             THEN /\ net' = Disconnected(net, p)
                  /\ loops' = [loops EXCEPT ![l] =
                        IF p \in net.connected
                        THEN [NoLoop EXCEPT !.at = "drop", !.attached = loops[l].attached]
                        ELSE NoLoop]
             ELSE /\ loops' = [loops EXCEPT ![l] =
                        [NoLoop EXCEPT !.at = at, !.attached = loops[l].attached]]
                  /\ UNCHANGED net

\* The callback of the disconnect that a sync loop has asked for.
DropCallback(l) ==
    /\ loops[l].at = "drop"
    /\ loops' = [Detached(loops, l[1]) EXCEPT ![l] = NoLoop]
    /\ p2p' = [p2p EXCEPT !.peers = @ \ {l[1]}]
    /\ UNCHANGED <<proc, chain, sub, bs, ix, net, io, gossip, prod, heads, spent, hist>>

\* Mutant: a seed is not dialled again after any error at all.
DialSpotless(p) ==
    /\ Up /\ Running
    /\ p2p.scores[p] = 0 /\ p \notin p2p.peers
    /\ p \notin net.connected \cup net.connecting
    /\ net' = [net EXCEPT !.connecting = @ \cup {p}, !.queue = Append(@, <<"dial", p>>)]
    /\ UNCHANGED <<proc, chain, sub, bs, ix, io, p2p, loops, gossip, prod, heads, spent, hist>>

\* The reconnect thread dials a seed that it does not see connected.
Dial(p) ==
    /\ Up /\ Running
    /\ Policy!CanConnect(p2p.scores, p) /\ p \notin p2p.peers
    /\ p \notin net.connected \cup net.connecting
    /\ net' = [net EXCEPT !.connecting = @ \cup {p}, !.queue = Append(@, <<"dial", p>>)]
    /\ UNCHANGED <<proc, chain, sub, bs, ix, io, p2p, loops, gossip, prod, heads, spent, hist>>

---------------------------------------------------------------------------
(* The io thread runs what is posted to it, and every callback of libp2p.  *)

IoNext == IF Len(io.todo) = 1 THEN IdleIo ELSE [io EXCEPT !.todo = Tail(@)]

\* What the callback of a disconnect is left to do for a peer.
TellDisconnected(p) ==
    IF p \in net.connected THEN [peer |-> p, todo |-> <<"disconnected">>] ELSE IdleIo

\* It takes up the next task, up to the first callback: a dial, which may fail, a
\* disconnect, or the host's news of a connection that is new or lost.
IoTask ==
    /\ Alive /\ io.todo = <<>> /\ net.queue # <<>>
    /\ LET kind == Head(net.queue)[1]
           p    == Head(net.queue)[2]
           rest == [net EXCEPT !.queue = Tail(@)]
           gone == [rest EXCEPT !.link = @ \ {p}, !.connected = @ \ {p}, !.connecting = @ \ {p}]
       IN  \/ /\ kind = "dial" /\ p \notin net.link
              /\ net' = [rest EXCEPT !.link = @ \cup {p}, !.connected = @ \cup {p}]
              /\ io' = [peer |-> p, todo |-> IF p \in net.connected THEN <<"dialled">>
                                            ELSE <<"connected", "dialled">>]
              /\ UNCHANGED spent
           \/ /\ kind = "dial" /\ p \in net.link
              /\ net' = [rest EXCEPT !.connected = @ \cup {p}, !.connecting = @ \ {p}]
              /\ io' = [peer |-> p, todo |-> <<"connected">>]
              /\ UNCHANGED spent
           \/ /\ kind = "dial" /\ p \notin net.link
              /\ Spend(2)
              /\ net' = [rest EXCEPT !.connecting = @ \ {p}]
              /\ UNCHANGED io
           \/ /\ kind = "drop"
              /\ net' = IF p \in net.link THEN gone ELSE rest
              /\ io' = IF p \in net.link THEN TellDisconnected(p) ELSE IdleIo
              /\ UNCHANGED spent
           \/ /\ kind = "lost"
              /\ net' = [gone EXCEPT !.link = net.link]
              /\ io' = TellDisconnected(p)
              /\ UNCHANGED spent
           \/ /\ kind = "new"
              /\ net' = [rest EXCEPT !.connected = @ \cup {p}]
              /\ io' = IF p \in net.connected THEN IdleIo
                       ELSE [peer |-> p, todo |-> <<"connected">>]
              /\ UNCHANGED spent
    /\ UNCHANGED <<proc, chain, sub, bs, ix, p2p, loops, gossip, prod, heads, hist>>

\* The callback of connect, after the news of the connection it made.
Dialled ==
    /\ Alive /\ io.todo = <<"dialled">>
    /\ net' = [net EXCEPT !.connected = @ \cup {io.peer}, !.connecting = @ \ {io.peer}]
    /\ io' = [io EXCEPT !.todo = <<"connected">>]
    /\ UNCHANGED <<proc, chain, sub, bs, ix, p2p, loops, gossip, prod, heads, spent, hist>>

\* on_peer_connected: a sync loop is started for a peer that is not there yet.
OnPeerConnected ==
    LET p == io.peer
    IN  /\ Alive /\ io.todo # <<>> /\ Head(io.todo) = "connected"
        /\ io' = IoNext
        /\ \/ p \in p2p.peers /\ UNCHANGED <<p2p, loops, hist>>
           \/ /\ p \notin p2p.peers
              /\ hist' = [hist EXCEPT !.late = IF p \in net.connected THEN @ ELSE @ \cup {p}]
              /\ p2p' = [p2p EXCEPT !.peers = @ \cup {p}]
              /\ LET free == {i \in Slots : loops[<<p, i>>].at = "none"}
                 IN  /\ free # {}
                     /\ loops' = [loops EXCEPT ![<<p, Min(free)>>] =
                            [NoLoop EXCEPT !.at = "handshake", !.attached = TRUE]]
        /\ UNCHANGED <<proc, chain, sub, bs, ix, net, gossip, prod, heads, spent>>

OnPeerDisconnected ==
    /\ Alive /\ io.todo # <<>> /\ Head(io.todo) = "disconnected"
    /\ io' = IoNext
    /\ p2p' = [p2p EXCEPT !.peers = @ \ {io.peer}]
    /\ loops' = Detached(loops, io.peer)
    /\ UNCHANGED <<proc, chain, sub, bs, ix, net, gossip, prod, heads, spent, hist>>

\* The network loses a connection.
NetworkBreak(p) ==
    /\ Up /\ p \in net.link /\ Spend(2)
    /\ net' = [net EXCEPT !.link = @ \ {p}, !.queue = Append(@, <<"lost", p>>)]
    /\ UNCHANGED <<proc, chain, sub, bs, ix, io, p2p, loops, gossip, prod, heads, hist>>

---------------------------------------------------------------------------
(* Sync loops *)

\* handle_peer_rpc_request of a peer, on a block store that keeps its promises: the
\* ancestor of its head at a height, and the blocks of a batch above one.
GetAncestorBlockID(head, height) == Ancestor(head, height)

GetBlocks(head, height, num) == SubSeq(Path(head, height), 1, num)

\* The requests of a step are answered: a stream is opened, over a new connection
\* when there is none.
PeerAnswers(p) ==
    /\ Up /\ io.todo = <<>>
    /\ net' = IF p \in net.link THEN net
              ELSE [net EXCEPT !.link = @ \cup {p}, !.queue = Append(@, <<"new", p>>)]

\* Where a loop goes after a round: it ends when its peer has been given up.
Rest(l, at) ==
    IF p2p.scores[l[1]] >= DisconnectAt THEN NoLoop
    ELSE [NoLoop EXCEPT !.at = at, !.attached = loops[l].attached]

\* peer_handshake, with a peer of the same chain.
Handshake(l) ==
    LET p == l[1]
        h == Height[Checkpoint]
    IN  /\ loops[l].at = "handshake" /\ Running
        /\ \/ /\ Height[heads[p]] < h
              /\ PeerAnswers(p)
              /\ loops' = [loops EXCEPT ![l] = Rest(l, "handshake")]
              /\ UNCHANGED p2p
           \/ /\ Height[heads[p]] >= h /\ GetAncestorBlockID(heads[p], h) = Checkpoint
              /\ PeerAnswers(p)
              /\ loops' = [loops EXCEPT ![l] = [@ EXCEPT !.at = "sleep"]]
              /\ UNCHANGED p2p
           \/ /\ Height[heads[p]] >= h /\ GetAncestorBlockID(heads[p], h) # Checkpoint
              /\ Up /\ io.todo = <<>>
              /\ Report(l, "not_connected", "handshake")
        /\ UNCHANGED <<proc, chain, sub, bs, ix, io, gossip, prod, heads, spent, hist>>

\* A request fails: it times out, or its stream breaks.
RpcFails(l) ==
    /\ Up /\ loops[l].at \in {"handshake", "fetch"}
    /\ Spend(2)
    /\ \E error \in {"timeout", "transport"} :
          Report(l, error, IF loops[l].at = "fetch" THEN "sleep" ELSE "handshake")
    /\ UNCHANGED <<proc, chain, sub, bs, ix, io, gossip, prod, heads, hist>>

\* request_sync_blocks takes the sync mutex and looks at the local head.
BeginSync(l) ==
    /\ Up /\ loops[l].at = "sleep" /\ Running
    /\ \A k \in Loop : loops[k].at \notin {"fetch", "apply"}
    /\ loops' = [loops EXCEPT ![l] = [@ EXCEPT
            !.at = "fetch", !.lib = IrreversibleHeight(chain.head), !.head = chain.head]]
    /\ UNCHANGED <<proc, chain, sub, bs, ix, net, io, p2p, gossip, prod, heads, spent, hist>>

\* The rest of request_sync_blocks up to its loop: the head of the peer, whether it
\* is known or behind, where it meets the local chain, and a batch of its blocks.
\* The peer answers from its own block store.
Fetch(l) ==
    LET p      == l[1]
        head   == heads[p]
        lib    == loops[l].lib
        anchor == GetBlocksByHeight(bs, loops[l].head, lib, 1).items
        batch  == Min({BatchSize, Height[head] - lib})
    IN  /\ loops[l].at = "fetch" /\ Up /\ io.todo = <<>>
        /\ \/ /\ \/ Height[head] <= lib
                 \/ GetBlocksById(bs, {head}) # {}
                 \/ lib > 0 /\ anchor = <<>>
              /\ PeerAnswers(p)
              /\ loops' = [loops EXCEPT ![l] = Rest(l, "sleep")]
              /\ UNCHANGED p2p
           \/ /\ Height[head] > lib /\ GetBlocksById(bs, {head}) = {}
              /\ lib > 0 /\ anchor # <<>> /\ anchor[1] # GetAncestorBlockID(head, lib)
              /\ Report(l, "not_connected", "sleep")
           \/ /\ Height[head] > lib /\ GetBlocksById(bs, {head}) = {}
              /\ lib > 0 => anchor # <<>> /\ anchor[1] = GetAncestorBlockID(head, lib)
              /\ PeerAnswers(p)
              /\ loops' = [loops EXCEPT ![l] = [@ EXCEPT
                    !.at = "apply", !.todo = GetBlocks(head, lib, batch),
                    !.lib = 0, !.head = NoBlock]]
              /\ UNCHANGED p2p
        /\ UNCHANGED <<proc, chain, sub, bs, ix, io, gossip, prod, heads, spent, hist>>

\* The next block of the batch goes to the chain.
SyncSubmit(l) ==
    LET b == Head(loops[l].todo)
    IN  /\ Up /\ Running /\ loops[l].at = "apply" /\ sub["sync"] = Quiet
        /\ IF Policy!ForkBomb(p2p.counted, b)
           THEN Report(l, "fork_bomb", "sleep") /\ UNCHANGED <<sub, chain>>
           ELSE /\ p2p' = [p2p EXCEPT !.counted = @ \cup {b}]
                /\ Enter("sync", b)
                /\ UNCHANGED <<net, loops>>
        /\ UNCHANGED <<proc, bs, ix, io, gossip, prod, heads, spent, hist>>

\* The chain's answer: the loop goes on with the next block, also when this one is
\* already irreversible.
SyncAnswer(l) ==
    /\ loops[l].at = "apply" /\ sub["sync"].at \in Returned
    /\ Leave("sync")
    /\ \/ /\ sub["sync"].at \in {"applied", "known", "irreversible"}
          /\ p2p' = [p2p EXCEPT !.seen =
                IF sub["sync"].at = "irreversible" THEN @ ELSE @ \cup {sub["sync"].block}]
          /\ loops' = [loops EXCEPT ![l] =
                IF Len(loops[l].todo) = 1 THEN Rest(l, "sleep") ELSE [@ EXCEPT !.todo = Tail(@)]]
          /\ UNCHANGED net
       \/ /\ sub["sync"].at \in {"unknown", "failed"}
          /\ Report(l, "application", "sleep")
    /\ UNCHANGED <<proc, chain, bs, ix, io, gossip, prod, heads, spent, hist>>

\* _running is down: the loop returns where it looks at it next.
LoopEnds(l) ==
    /\ ~Running /\ loops[l].at \in {"handshake", "sleep", "fetch", "apply"}
    /\ loops[l].at = "apply" => sub["sync"] = Quiet
    /\ loops' = [loops EXCEPT ![l] = NoLoop]
    /\ UNCHANGED <<proc, chain, sub, bs, ix, net, io, p2p, gossip, prod, heads, spent, hist>>

---------------------------------------------------------------------------
(* Gossip *)

\* report_peer_error against the sender of a gossip message.  The error counts
\* against the sender's address, which is empty.
GossipReport(p, error) ==
    \E scores \in Policy!RecordError(p2p.scores, NoAddress, error) :
      /\ p2p' = [p2p EXCEPT !.scores = scores]
      /\ IF Policy!Drops(scores, NoAddress, error)
         THEN /\ net' = Disconnected(net, p)
              /\ io' = TellDisconnected(p)
         ELSE io' = IdleIo /\ UNCHANGED net

\* on_gossip_block, up to the chain: a peer announces a head that it got.
OnGossipBlock(p) ==
    LET b == heads[p]
    IN  /\ Up /\ io.todo = <<>> /\ p \in net.link
        /\ b # Genesis
        /\ Spend(1)
        /\ IF Policy!ForkBomb(p2p.counted, b)
           THEN GossipReport(p, "fork_bomb") /\ UNCHANGED <<sub, chain>>
           ELSE /\ p2p' = [p2p EXCEPT !.counted = @ \cup {b}]
                /\ IF \/ Height[b] <= p2p.lib
                      \/ b \in p2p.seen
                      \/ Height[b] > Height[chain.head] + 1
                   THEN UNCHANGED <<sub, chain, io>>
                   ELSE Enter("io", b) /\ io' = [peer |-> p, todo |-> <<"gossip">>]
                /\ UNCHANGED net
        /\ UNCHANGED <<proc, bs, ix, loops, gossip, prod, heads, hist>>

\* The chain's answer.  A block that is already irreversible is an error here.
GossipAnswer ==
    /\ io.todo = <<"gossip">> /\ sub["io"].at \in Returned
    /\ Leave("io")
    /\ \/ /\ sub["io"].at \in {"applied", "known"}
          /\ p2p' = [p2p EXCEPT !.seen = @ \cup {sub["io"].block}]
          /\ io' = IdleIo
          /\ UNCHANGED net
       \/ /\ sub["io"].at \in {"irreversible", "unknown", "failed"}
          /\ GossipReport(io.peer, "application")
    /\ UNCHANGED <<proc, chain, bs, ix, loops, gossip, prod, heads, spent, hist>>

\* A turn of the gossip toggle that changes it.  The producer's gate follows.
Toggle ==
    LET live == IF net.connected \cup net.link = {} THEN FALSE
                ELSE IF gossip.head = "none" THEN gossip.on
                ELSE gossip.head = "recent"
    IN  /\ Up /\ Running /\ live # gossip.on
        /\ gossip' = [gossip EXCEPT !.on = live]
        /\ UNCHANGED <<proc, chain, sub, bs, ix, net, io, p2p, loops, prod, heads, spent, hist>>

---------------------------------------------------------------------------
(* The block producer, with the pob algorithm and its gossip gate          *)

\* produce_pob_once begins a bundle, when it has none for the head: the contracts'
\* parameters are read again, and then the metadata of the head.
BeginBundle ==
    /\ Up /\ prod.at = "idle" /\ gossip.on
    /\ prod.parent # chain.head
    /\ \E b \in Own : Previous[b] = chain.head
    /\ prod' = [prod EXCEPT !.at = "filling", !.aux = "valid", !.metadata = chain.head]
    /\ UNCHANGED <<proc, chain, sub, bs, ix, net, io, p2p, loops, gossip, heads, spent, hist>>

\* refresh_pob_auxiliary_data throws after it has replaced what there was.
RefreshThrows ==
    /\ Up /\ prod.at = "idle" /\ gossip.on
    /\ prod.parent # chain.head
    /\ Spend(1)
    /\ prod' = [prod EXCEPT !.aux = "partial"]
    /\ UNCHANGED <<proc, chain, sub, bs, ix, net, io, p2p, loops, gossip, heads, hist>>

\* The rest of next_pob_bundle: next_block, on the head there is by now.
NextBlock ==
    /\ prod.at = "filling"
    /\ \E pending \in Pending :
          prod' = [prod EXCEPT !.at = "idle", !.parent = chain.head, !.trxs = FillBlock(pending)]
    /\ UNCHANGED <<proc, chain, sub, bs, ix, net, io, p2p, loops, gossip, heads, spent, hist>>

\* The difficulty is met and submit_block is called.  A transaction that fails is
\* cut out of the block, and submit_block is called again.  A block made with the
\* metadata of another head is refused, and stays in the bundle.
ProposeBlock ==
    /\ Up /\ prod.at = "idle" /\ gossip.on
    /\ prod.parent = chain.head /\ prod.metadata = prod.parent
    /\ LET trxs == Trim(prod.trxs, Failing)
       IN  /\ prod' = [prod EXCEPT !.at = "submitted", !.trxs = trxs]
           /\ \E b \in Own : /\ Previous[b] = prod.parent /\ Transactions[b] = trxs
                            /\ Enter("producer", b)
    /\ UNCHANGED <<proc, bs, ix, net, io, p2p, loops, gossip, heads, spent, hist>>

\* The answer: after an error the bundle stays.
ProposalAnswer ==
    /\ prod.at = "submitted" /\ sub["producer"].at \in Returned
    /\ Leave("producer")
    /\ prod' = IF sub["producer"].at \in {"applied", "known"}
               THEN [FreshProducer EXCEPT !.aux = prod.aux] ELSE [prod EXCEPT !.at = "idle"]
    /\ UNCHANGED <<proc, chain, bs, ix, net, io, p2p, loops, gossip, heads, spent, hist>>

---------------------------------------------------------------------------
(* The process *)

\* What is left on disk when the threads stop where they are.
Cut ==
    /\ LET busy == {t \in Submitter : sub[t].at \in {"execute", "finalize", "announce"}}
           storing == {t \in busy : sub[t].at = "execute"}
           telling == {t \in busy : sub[t].at = "announce"}
       IN  /\ hist' = [hist EXCEPT !.cut = @ \cup {sub[t].block : t \in busy}, !.late = {}]
           /\ IF storing = {} THEN bs' = bs
              ELSE \E t \in storing : bs' \in AddBlockCut(bs, sub[t].block)
           /\ IF telling = {} THEN ix' = ix
              ELSE \E t \in telling : ix' \in IndexCuts(ix, sub[t].block)
    /\ proc' = "down"
    /\ MemoryIsFresh
    /\ UNCHANGED <<chain, heads>>

Crash == Alive /\ Spend(1) /\ Cut

\* P2PNode::stop raises no flag but its own, and takes the loops that are attached.
Stop ==
    /\ Up /\ Spend(1)
    /\ proc' = "stopping"
    /\ p2p' = [p2p EXCEPT !.running = FALSE, !.peers = {},
                          !.joining = {l \in Loop : loops[l].attached}]
    /\ UNCHANGED <<chain, sub, bs, ix, net, io, loops, gossip, prod, heads, hist>>

\* stop returns, and the process goes.  A loop that was detached is not waited for.
StopReturns ==
    /\ proc = "stopping"
    /\ \A l \in p2p.joining : loops[l].at = "none"
    /\ io = IdleIo /\ prod.at \in {"idle", "filling"}
    /\ Cut
    /\ UNCHANGED spent

\* The highest stored block is on the durable root's branch, or not above it.
Replayable ==
    Height[bs.highest] > Height[chain.root]
        => Ancestor(bs.highest, Height[chain.root]) = chain.root

\* The supervisor starts the node: the indexer replays the stored blocks up to the
\* highest, and announces none.
Restart ==
    LET above == Path(bs.highest, Height[chain.root])
        whole == ChainAt(<<chain.root>> \o above)
    IN  /\ proc = "down"
        /\ Replayable
        /\ proc' = "up"
        /\ chain' = IF Height[bs.highest] <= Height[chain.root] THEN ChainAt(<<chain.root>>)
                    ELSE Finalized(whole, bs.highest)
        /\ UNCHANGED <<sub, bs, ix, net, io, p2p, loops, gossip, prod, heads, spent, hist>>

\* A peer's head moves, up its branch or to another one, which is paid for.
PeerGrows(p) ==
    /\ \E b \in NextHeads[heads[p]] :
          /\ heads' = [heads EXCEPT ![p] = b]
          /\ IF Ancestor(b, Height[heads[p]]) = heads[p] THEN UNCHANGED spent ELSE Spend(1)
    /\ UNCHANGED <<proc, chain, sub, bs, ix, net, io, p2p, loops, gossip, prod, hist>>

---------------------------------------------------------------------------

Submitting == \E t \in Submitter : Execute(t) \/ Finalize(t) \/ Announce(t)

Io == IoTask \/ Dialled \/ OnPeerConnected \/ OnPeerDisconnected \/ GossipAnswer

Syncing(l) ==
    DropCallback(l) \/ Handshake(l) \/ Fetch(l) \/ SyncSubmit(l) \/ SyncAnswer(l) \/ LoopEnds(l)

Producing == BeginBundle \/ NextBlock \/ ProposeBlock \/ ProposalAnswer

Faults ==
    \/ Crash \/ Stop \/ RefreshThrows
    \/ \E p \in Peer : NetworkBreak(p)
    \/ \E l \in Loop : RpcFails(l)

Next ==
    \/ Submitting
    \/ Io
    \/ \E l \in Loop : Syncing(l) \/ BeginSync(l)
    \/ \E p \in Peer : Dial(p) \/ OnGossipBlock(p) \/ PeerGrows(p)
    \/ Toggle
    \/ Producing
    \/ Faults
    \/ StopReturns \/ Restart

\* What is taken in turn, and runs out: each of these steps follows a block, a fault,
\* a gossip message or a connection.
Progress ==
    Submitting \/ Io \/ ProposalAnswer \/ StopReturns \/ Restart \/ \E p \in Peer : Dial(p)

\* Every thread runs on, and the supervisor restarts the node.  A sync loop that
\* waits for the sync mutex gets it, since the others give it up and sleep.  Nothing
\* is assumed of the peers' heads, of gossip, of faults or of when it is the
\* producer's turn.
Fairness ==
    /\ WF_vars(Progress)
    /\ \A l \in Loop : WF_vars(Syncing(l)) /\ SF_vars(BeginSync(l))

Spec == Init /\ [][Next]_vars /\ Fairness

---------------------------------------------------------------------------
(* Properties *)

TypeOK ==
    /\ proc \in {"up", "stopping", "down"}
    /\ chain.root \in chain.final /\ chain.head \in chain.final /\ chain.final \subseteq chain.nodes
    /\ chain.nodes \subseteq Block \cup {Genesis}
    /\ net.link \cup net.connected \cup net.connecting \cup p2p.peers \subseteq Peer
    /\ p2p.seen \cup p2p.counted \cup hist.cut \cup hist.pruned \subseteq Block
    /\ prod.at \in {"idle", "filling", "submitted"} /\ prod.aux \in {"none", "partial", "valid"}
    /\ spent <= Budget

\* The blocks that the node has accepted and keeps.
Accepted == (chain.final \cup Range(Path(chain.root, 0))) \ {Genesis}

\* The block store has every block of the chain with all of its ancestors and answers
\* about them as their headers say, and its highest block is one that the next start
\* can replay from the durable root, at whatever step the process dies.  The exception
\* is a block that was stored, and then pruned by another thread before it was final.
StoreFollowsChain ==
    /\ TypeOK
    /\ ServesAncestors(bs)
    /\ Accepted \subseteq Held(bs)
    /\ Replayable \/ bs.highest \in hist.pruned

\* Every accepted block is found by every query of the stores that follow accepted
\* blocks, unless the process died before its announcement: a restart does not
\* announce what it replays.  No transaction lists a block twice, and an address has
\* no more numbers without a record than the process had crashes.
IndexesFollowChain ==
    /\ \A b \in Accepted \ hist.cut :
          FindsBlock(ix, b) \/ \E t \in Submitter : sub[t] = [at |-> "announce", block |-> b]
    /\ \A t \in Trx : IsInjective(ix.trx[t])
    /\ \A a \in Range(Addresses) :
          /\ DOMAIN ix.history[a] \subseteq 0 .. ix.next[a] - 1
          /\ ix.next[a] - Cardinality(DOMAIN ix.history[a]) <= spent

\* What the producer submits was made with parameters that have been validated, stays
\* within the upper bound of every resource, and has no transaction without a limit.
ProposalsSound ==
    prod.at = "submitted" =>
        /\ prod.aux = "valid"
        /\ WithinUpperBound(prod.trxs)
        /\ \A i \in DOMAIN prod.trxs : RcLimit[prod.trxs[i]] > 0

\* The callback that takes a peer off the node's table is on its way.
Leaving(p) ==
    \/ io = [peer |-> p, todo |-> <<"disconnected">>]
    \/ \E i \in Slots : loops[<<p, i>>].at = "drop"

\* A peer that the node counts as connected, and will not dial, has exactly one
\* attached sync loop or is about to be taken off, unless the transport had dropped
\* the peer before it told the node of it.
PeersHaveLoops ==
    \A p \in Peer \ hist.late : Running /\ p \in p2p.peers =>
        \/ Cardinality({i \in Slots : loops[<<p, i>>].attached}) = 1
        \/ Leaving(p)

\* The node ends up running, whatever it was stopped or struck by, with the head of
\* each peer in its chain, unless the head is behind the checkpoint or was cut by a
\* crash or a commit, the peer is barred by its score, or the node was told of the
\* peer after the transport had dropped it.  Only a highest block that cannot be
\* replayed keeps the node down.
CatchesUp ==
    \A p \in Peer :
        <>[]IF Replayable
            THEN /\ proc = "up"
                 /\ \/ heads[p] \in Accepted \cup hist.cut \cup hist.pruned
                    \/ Height[heads[p]] < Height[Checkpoint]
                    \/ ~Policy!CanConnect(p2p.scores, p)
                    \/ p \in hist.late
            ELSE TRUE
=============================================================================
