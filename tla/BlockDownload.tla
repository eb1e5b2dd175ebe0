---------------------------- MODULE BlockDownload ----------------------------
(***************************************************************************)
(* How the node fetches headers and blocks from its peers                  *)
(* (net_processing.cpp): what each peer is known to have, which block is   *)
(* requested from which peer, when a peer is dropped, and what the inv,    *)
(* headers, block, cmpctblock and blocktxn handlers do about it.           *)
(*                                                                         *)
(* One action is one turn of the message handler thread (one received      *)
(* message, or one SendMessages) or one step of the socket thread          *)
(* (connect, hang up, FinalizeNode).  A handler gives up cs_main between   *)
(* its parts, but the only writer of this state outside the message        *)
(* handler thread is FinalizeNode of another peer, which only takes away   *)
(* that peer's entries.                                                    *)
(*                                                                         *)
(* A connection is in order, so the answer to a request is put on the wire *)
(* with the request, from the chain the peer serves then; it is received   *)
(* later, or never.  Work is height, and all headers are valid.            *)
(***************************************************************************)
EXTENDS Integers, Sequences, FiniteSets

CONSTANTS
  Block,      \* the blocks of the network
  Genesis,    \* known and stored from the start
  HashPrev,   \* the parent of each block but Genesis
  Height,
  Ancestors,  \* the set of ancestors of each block, the block included
  NodeId,     \* the peers
  NoNode,     \* -1 as a NodeId
  NoBlock,    \* a null CBlockIndex pointer or hash
  Chains,     \* the tips of the chains each peer may serve
  Preferred,  \* outbound peers, fPreferredDownload
  Prompt,     \* peers that answer within every timeout and never hang up
  MAX_BLOCKS_IN_TRANSIT_PER_PEER,
  BLOCK_DOWNLOAD_WINDOW,
  MAX_HEADERS_RESULTS,
  RecentHeight,  \* blocks from this height on have a time close to now
  MaxConnects,   \* bound on the connections each peer makes
  MaxAnnounces   \* bound on the announcements each peer makes

VARIABLES
  conn,       \* "none": no CNodeState; "up"; "closing": fDisconnect is set
  fSyncStarted, nSyncStarted,
  nPreferredDownload,
  pindexBestKnownBlock, hashLastUnknownBlock, pindexLastCommonBlock,
  mapBlocksInFlight,  \* the peer each block is requested from
  vBlocksInFlight,    \* per peer, the blocks requested from it
  nBlocksInFlight,    \* per peer; every caller passes a pindex, so this is
                      \* nBlocksInFlightValidHeaders as well
  nPeersWithValidatedDownloads,
  partialBlock,       \* blocks in flight with a PartiallyDownloadedBlock
  nStallingSince,     \* peers whose stalling clock runs
  known,              \* mapBlockIndex
  pindexBestHeader,
  data,               \* blocks with BLOCK_HAVE_DATA
  tip,
  serves,             \* per peer, the tip of the chain it serves
  wire,               \* per peer, the messages it will send, in order
  nConnects, nAnnounces

flight == <<mapBlocksInFlight, vBlocksInFlight, nBlocksInFlight,
            nPeersWithValidatedDownloads, partialBlock, nStallingSince>>
avail == <<pindexBestKnownBlock, hashLastUnknownBlock>>
index == <<known, pindexBestHeader>>
chain == <<data, tip>>
remote == <<serves, wire, nAnnounces>>
peers == <<conn, fSyncStarted, nSyncStarted, nPreferredDownload, nConnects>>
vars == <<peers, avail, pindexLastCommonBlock, flight, index, chain, remote>>

ASSUME DownloadAssumption ==
  /\ IsFiniteSet(NodeId) /\ IsFiniteSet(Block)
  /\ NoNode \notin NodeId /\ NoBlock \notin Block
  /\ Preferred \subseteq NodeId
  /\ Chains \in [NodeId -> SUBSET Block]
  /\ MAX_BLOCKS_IN_TRANSIT_PER_PEER \in Nat \ {0}
  /\ MAX_HEADERS_RESULTS \in Nat \ {0}

(* A chain has one block of every height, and all branches meet at the     *)
(* genesis block (LastCommonAncestor's assert).                            *)
ASSUME TreeAssumption ==
  /\ Genesis \in Block
  /\ HashPrev \in [Block \ {Genesis} -> Block]
  /\ Height \in [Block -> Nat]
  /\ Ancestors \in [Block -> SUBSET Block]
  /\ \A b \in Block : b \in Ancestors[b]
  /\ \A b \in Block : \A a \in Ancestors[b] : Ancestors[a] \subseteq Ancestors[b]
  /\ Ancestors[Genesis] = {Genesis}
  /\ \A b \in Block \ {Genesis} : HashPrev[b] \in Ancestors[b]
  /\ \A b \in Block : \A h \in 0..Height[b] :
       \E a \in Ancestors[b] : Height[a] = h
  /\ \A b \in Block : \A a, c \in Ancestors[b] : Height[a] = Height[c] => a = c
  /\ \A a, b \in Block : \E c \in Ancestors[a] \cap Ancestors[b] :
       \A d \in Ancestors[a] \cap Ancestors[b] : Height[d] <= Height[c]

Message ==
  [type : {"inv", "block", "cmpctblock", "blocktxn"}, hash : Block]
    \cup [type : {"headers"}, prev : Block, last : Block]

Init ==
  /\ conn = [p \in NodeId |-> "none"]
  /\ fSyncStarted = {} /\ nSyncStarted = 0 /\ nPreferredDownload = 0
  /\ pindexBestKnownBlock = [p \in NodeId |-> NoBlock]
  /\ hashLastUnknownBlock = [p \in NodeId |-> NoBlock]
  /\ pindexLastCommonBlock = [p \in NodeId |-> NoBlock]
  /\ mapBlocksInFlight = [b \in Block |-> NoNode]
  /\ vBlocksInFlight = [p \in NodeId |-> {}]
  /\ nBlocksInFlight = [p \in NodeId |-> 0]
  /\ nPeersWithValidatedDownloads = 0
  /\ partialBlock = {} /\ nStallingSince = {}
  /\ known = {Genesis} /\ pindexBestHeader = Genesis
  /\ data = {Genesis} /\ tip = Genesis
  /\ serves = [p \in NodeId |-> Genesis]
  /\ wire = [p \in NodeId |-> <<>>]
  /\ nConnects = [p \in NodeId |-> 0] /\ nAnnounces = [p \in NodeId |-> 0]

-----------------------------------------------------------------------------
(* The tree of blocks.                                                     *)

Lower(a, b) == IF a < b THEN a ELSE b
AncestorAt(b, h) == CHOOSE a \in Ancestors[b] : Height[a] = h
LastCommonAncestor(a, b) ==
  CHOOSE c \in Ancestors[a] \cap Ancestors[b] :
    \A d \in Ancestors[a] \cap Ancestors[b] : Height[d] <= Height[c]
Recent(b) == Height[b] >= RecentHeight
IsInitialBlockDownload == ~Recent(tip)
CanDirectFetch == Recent(tip)
(* The lowest n blocks of a set that lies on one chain.                    *)
Lowest(S, n) ==
  {b \in S : Cardinality({c \in S : Height[c] < Height[b]}) < n}
InFlight(b) == mapBlocksInFlight[b] # NoNode
(* nChainTx # 0: the block and all its ancestors are stored.               *)
Linked(b) == Ancestors[b] \subseteq data

-----------------------------------------------------------------------------
(* What the peer answers (external).                                       *)

BlockMsg(b) == [type |-> "block", hash |-> b]
(* GETHEADERS with the locator of block from: the headers after the last   *)
(* block the peer shares with it, as many as one message holds; nothing if *)
(* there are none.  hashStop, the block an inv announced, is left out.     *)
Headers(p, from) ==
  LET fork == LastCommonAncestor(from, serves[p])
      top == Lower(Height[fork] + MAX_HEADERS_RESULTS, Height[serves[p]])
  IN IF fork = serves[p]
     THEN <<>>
     ELSE <<[type |-> "headers", prev |-> fork,
             last |-> AncestorAt(serves[p], top)]>>
(* GETDATA for a set of blocks of one chain, asked for in height order.    *)
Blocks(S) ==
  {[i \in 1..Cardinality(S) |-> BlockMsg(f[i])] :
     f \in {g \in [1..Cardinality(S) -> S] :
              \A i, j \in 1..Cardinality(S) :
                i < j => Height[g[i]] < Height[g[j]]}}

-----------------------------------------------------------------------------
(* The download state.                                                     *)

(* Mutants: the count of peers never goes down; the stalling clock is not  *)
(* reset.                                                                  *)
ReceivedNeverCounts(b) ==
  LET p == mapBlocksInFlight[b]
  IN IF p = NoNode
     THEN UNCHANGED flight
     ELSE /\ mapBlocksInFlight' = [mapBlocksInFlight EXCEPT ![b] = NoNode]
          /\ vBlocksInFlight' = [vBlocksInFlight EXCEPT ![p] = @ \ {b}]
          /\ nBlocksInFlight' = [nBlocksInFlight EXCEPT ![p] = @ - 1]
          /\ nPeersWithValidatedDownloads' =
               nPeersWithValidatedDownloads
                 - (IF nBlocksInFlight[p] = 0 THEN 1 ELSE 0)
          /\ partialBlock' = partialBlock \ {b}
          /\ nStallingSince' = nStallingSince \ {p}
ReceivedKeepsClock(b) ==
  LET p == mapBlocksInFlight[b]
  IN IF p = NoNode
     THEN UNCHANGED flight
     ELSE /\ mapBlocksInFlight' = [mapBlocksInFlight EXCEPT ![b] = NoNode]
          /\ vBlocksInFlight' = [vBlocksInFlight EXCEPT ![p] = @ \ {b}]
          /\ nBlocksInFlight' = [nBlocksInFlight EXCEPT ![p] = @ - 1]
          /\ nPeersWithValidatedDownloads' =
               nPeersWithValidatedDownloads
                 - (IF nBlocksInFlight[p] = 1 THEN 1 ELSE 0)
          /\ partialBlock' = partialBlock \ {b}
          /\ nStallingSince' = nStallingSince

MarkBlockAsReceived(b) ==
  LET p == mapBlocksInFlight[b]
  IN IF p = NoNode
     THEN UNCHANGED flight
     ELSE /\ mapBlocksInFlight' = [mapBlocksInFlight EXCEPT ![b] = NoNode]
          /\ vBlocksInFlight' = [vBlocksInFlight EXCEPT ![p] = @ \ {b}]
          /\ nBlocksInFlight' = [nBlocksInFlight EXCEPT ![p] = @ - 1]
          /\ nPeersWithValidatedDownloads' =
               nPeersWithValidatedDownloads
                 - (IF nBlocksInFlight[p] = 1 THEN 1 ELSE 0)
          /\ partialBlock' = partialBlock \ {b}
          /\ nStallingSince' = nStallingSince \ {p}

(* MarkBlockAsInFlight for every block of S, none of which is in flight.   *)
(* partial is S when the entries get a PartiallyDownloadedBlock, else {}.  *)
MarkBlockAsInFlight(p, S, partial, stalling) ==
  /\ mapBlocksInFlight' =
       [b \in Block |-> IF b \in S THEN p ELSE mapBlocksInFlight[b]]
  /\ vBlocksInFlight' = [vBlocksInFlight EXCEPT ![p] = @ \cup S]
  /\ nBlocksInFlight' = [nBlocksInFlight EXCEPT ![p] = @ + Cardinality(S)]
  /\ nPeersWithValidatedDownloads' =
       nPeersWithValidatedDownloads
         + (IF nBlocksInFlight[p] = 0 /\ S # {} THEN 1 ELSE 0)
  /\ partialBlock' = partialBlock \cup partial
  /\ nStallingSince' = nStallingSince \cup stalling

(* ProcessBlockAvailability, then the new announcement b (NoBlock: none),  *)
(* against the set headers of known ones.                                 *)
UpdateBlockAvailability(p, b, headers) ==
  LET Better(old, new) ==
        IF new \in headers /\ (old = NoBlock \/ Height[new] >= Height[old])
        THEN new ELSE old
      old == hashLastUnknownBlock[p]
      best == Better(Better(pindexBestKnownBlock[p], old), b)
      rest == IF old \in headers THEN NoBlock ELSE old
  IN /\ pindexBestKnownBlock' = [pindexBestKnownBlock EXCEPT ![p] = best]
     /\ hashLastUnknownBlock' =
          [hashLastUnknownBlock EXCEPT
             ![p] = IF b \in headers \cup {NoBlock} THEN rest ELSE b]

(* ProcessNewBlockHeaders: the headers after prev up to last.              *)
ProcessNewBlockHeaders(prev, last) ==
  /\ known' = known \cup (Ancestors[last] \ Ancestors[prev])
  /\ pindexBestHeader' = IF Height[last] > Height[pindexBestHeader]
                         THEN last ELSE pindexBestHeader

(* ProcessNewBlock of a valid block: stored unless it is stored already or *)
(* was not asked for and has no more work than the tip; then the best      *)
(* linked chain becomes the active one.                                    *)
ProcessNewBlock(b, force) ==
  /\ data' = IF force \/ Height[b] > Height[tip] THEN data \cup {b} ELSE data
  /\ LET linked == {c \in data' : Ancestors[c] \subseteq data'}
         best == {c \in linked : \A d \in linked : Height[d] <= Height[c]}
     IN tip' \in IF tip \in best THEN {tip} ELSE best

-----------------------------------------------------------------------------
(* Connections.                                                            *)

(* InitializeNode, and the handshake up to UpdatePreferredDownload.        *)
InitializeNode(p) ==
  /\ conn[p] = "none" /\ nConnects[p] < MaxConnects[p]
  /\ conn' = [conn EXCEPT ![p] = "up"]
  /\ nConnects' = [nConnects EXCEPT ![p] = @ + 1]
  /\ nPreferredDownload' =
       nPreferredDownload + (IF p \in Preferred THEN 1 ELSE 0)
  /\ serves' \in {[serves EXCEPT ![p] = b] : b \in Chains[p]}
  /\ UNCHANGED <<fSyncStarted, nSyncStarted, avail, pindexLastCommonBlock,
                 flight, index, chain, wire, nAnnounces>>

(* The peer closes the connection.                                         *)
HangUp(p) ==
  /\ conn[p] = "up" /\ p \notin Prompt
  /\ conn' = [conn EXCEPT ![p] = "closing"]
  /\ UNCHANGED <<fSyncStarted, nSyncStarted, nPreferredDownload, nConnects,
                 avail, pindexLastCommonBlock, flight, index, chain, remote>>

(* Mutant: what the peer had in flight stays in the map.                   *)
FinalizeKeepsInFlight(p) ==
  /\ conn[p] = "closing"
  /\ conn' = [conn EXCEPT ![p] = "none"]
  /\ fSyncStarted' = fSyncStarted \ {p}
  /\ nSyncStarted' = nSyncStarted - (IF p \in fSyncStarted THEN 1 ELSE 0)
  /\ nPreferredDownload' =
       nPreferredDownload - (IF p \in Preferred THEN 1 ELSE 0)
  /\ nPeersWithValidatedDownloads' =
       nPeersWithValidatedDownloads
         - (IF nBlocksInFlight[p] # 0 THEN 1 ELSE 0)
  /\ partialBlock' = partialBlock \ vBlocksInFlight[p]
  /\ vBlocksInFlight' = [vBlocksInFlight EXCEPT ![p] = {}]
  /\ nBlocksInFlight' = [nBlocksInFlight EXCEPT ![p] = 0]
  /\ nStallingSince' = nStallingSince \ {p}
  /\ pindexBestKnownBlock' = [pindexBestKnownBlock EXCEPT ![p] = NoBlock]
  /\ hashLastUnknownBlock' = [hashLastUnknownBlock EXCEPT ![p] = NoBlock]
  /\ pindexLastCommonBlock' = [pindexLastCommonBlock EXCEPT ![p] = NoBlock]
  /\ wire' = [wire EXCEPT ![p] = <<>>]
  /\ UNCHANGED <<mapBlocksInFlight, nConnects, index, chain, serves, nAnnounces>>

(* The socket thread deletes a node that is to be disconnected.            *)
FinalizeNode(p) ==
  /\ conn[p] = "closing"
  /\ conn' = [conn EXCEPT ![p] = "none"]
  /\ fSyncStarted' = fSyncStarted \ {p}
  /\ nSyncStarted' = nSyncStarted - (IF p \in fSyncStarted THEN 1 ELSE 0)
  /\ nPreferredDownload' =
       nPreferredDownload - (IF p \in Preferred THEN 1 ELSE 0)
  /\ mapBlocksInFlight' =
       [b \in Block |-> IF b \in vBlocksInFlight[p]
                        THEN NoNode ELSE mapBlocksInFlight[b]]
  /\ nPeersWithValidatedDownloads' =
       nPeersWithValidatedDownloads
         - (IF nBlocksInFlight[p] # 0 THEN 1 ELSE 0)
  /\ partialBlock' = partialBlock \ vBlocksInFlight[p]
  /\ vBlocksInFlight' = [vBlocksInFlight EXCEPT ![p] = {}]
  /\ nBlocksInFlight' = [nBlocksInFlight EXCEPT ![p] = 0]
  /\ nStallingSince' = nStallingSince \ {p}
  /\ pindexBestKnownBlock' = [pindexBestKnownBlock EXCEPT ![p] = NoBlock]
  /\ hashLastUnknownBlock' = [hashLastUnknownBlock EXCEPT ![p] = NoBlock]
  /\ pindexLastCommonBlock' = [pindexLastCommonBlock EXCEPT ![p] = NoBlock]
  /\ wire' = [wire EXCEPT ![p] = <<>>]
  /\ UNCHANGED <<nConnects, index, chain, serves, nAnnounces>>

(* The peer announces its tip, the old one or a new one of no less work,   *)
(* in one of the three ways (external).  The node asks for compact block   *)
(* announcements only after the initial download (BlockChecked), and a     *)
(* prompt peer sends none unasked.                                         *)
Announce(p) ==
  \E b \in Chains[p] \ {Genesis} :
    /\ conn[p] = "up" /\ nAnnounces[p] < MaxAnnounces[p]
    /\ Height[b] >= Height[serves[p]]
    /\ serves' = [serves EXCEPT ![p] = b]
    /\ nAnnounces' = [nAnnounces EXCEPT ![p] = @ + 1]
    /\ \E m \in {[type |-> "inv", hash |-> b],
                 [type |-> "cmpctblock", hash |-> b],
                 [type |-> "headers", prev |-> HashPrev[b], last |-> b]} :
         /\ m.type = "cmpctblock" /\ p \in Prompt => ~IsInitialBlockDownload
         /\ wire' = [wire EXCEPT ![p] = Append(@, m)]
    /\ UNCHANGED <<peers, avail, pindexLastCommonBlock, flight, index, chain>>

-----------------------------------------------------------------------------
(* Received messages.                                                      *)

Next1(p) == Head(wire[p])
Receives(p, type) ==
  conn[p] = "up" /\ wire[p] # <<>> /\ Next1(p).type = type
(* The message is consumed, and answers to new requests are on their way.  *)
Sends(p, answers) == wire' = [wire EXCEPT ![p] = Tail(@) \o answers]
Misbehaving(p) == conn' = [conn EXCEPT ![p] = "closing"]

ReceiveInv(p) ==
  LET b == Next1(p).hash
  IN /\ Receives(p, "inv")
     /\ UpdateBlockAvailability(p, b, known)
     /\ Sends(p, IF b \notin known /\ ~InFlight(b)
                 THEN Headers(p, pindexBestHeader) ELSE <<>>)
     /\ UNCHANGED <<peers, pindexLastCommonBlock, flight, index, chain,
                    serves, nAnnounces>>

(* The blocks direct fetch asks p for towards last: what is missing        *)
(* between the active chain and last, unless that is more than the limit.  *)
DirectFetch(p, last) ==
  LET missing == {b \in Ancestors[last] \ Ancestors[tip] :
                    b \notin data /\ ~InFlight(b)}
      tooMany ==
        Cardinality(missing) > MAX_BLOCKS_IN_TRANSIT_PER_PEER
          /\ ~ /\ Cardinality(missing) = MAX_BLOCKS_IN_TRANSIT_PER_PEER + 1
               /\ \E b \in missing : HashPrev[b] \in Ancestors[tip]
  IN IF CanDirectFetch /\ Height[tip] <= Height[last] /\ ~tooMany
     THEN Lowest(missing, MAX_BLOCKS_IN_TRANSIT_PER_PEER - nBlocksInFlight[p])
     ELSE {}

(* The HEADERS handler, for a message with the headers after prev up to    *)
(* last.  A single block may be asked for as a compact block.              *)
ProcessHeaders(p, prev, last) ==
  IF prev \notin known
  THEN /\ UpdateBlockAvailability(p, last, known)
       /\ Sends(p, Headers(p, pindexBestHeader))
       /\ UNCHANGED <<flight, index>>
  ELSE LET fetch == DirectFetch(p, last)
           more == IF Height[last] - Height[prev] = MAX_HEADERS_RESULTS
                   THEN Headers(p, last) ELSE <<>>
           single == Cardinality(fetch) = 1
                       /\ \A b \in Block : ~InFlight(b)
           compact == <<[type |-> "cmpctblock", hash |-> last]>>
       IN /\ ProcessNewBlockHeaders(prev, last)
          /\ UpdateBlockAvailability(p, last, known')
          /\ MarkBlockAsInFlight(p, fetch, {}, {})
          /\ \/ \E blocks \in Blocks(fetch) : Sends(p, more \o blocks)
             \/ single /\ last \in fetch /\ Sends(p, more \o compact)

ReceiveHeaders(p) ==
  /\ Receives(p, "headers")
  /\ ProcessHeaders(p, Next1(p).prev, Next1(p).last)
  /\ UNCHANGED <<peers, pindexLastCommonBlock, chain, serves, nAnnounces>>

(* The BLOCK handler.  A block of a peer that is not prompt may be corrupt *)
(* (CheckBlock fails, the block is not marked as failed).                  *)
ReceiveBlock(p) ==
  LET b == Next1(p).hash
  IN /\ Receives(p, "block")
     /\ MarkBlockAsReceived(b)
     /\ Sends(p, <<>>)
     /\ \/ /\ ProcessNewBlock(b, InFlight(b))
           /\ UNCHANGED conn
        \/ /\ p \notin Prompt
           /\ Misbehaving(p)
           /\ UNCHANGED chain
     /\ UNCHANGED <<fSyncStarted, nSyncStarted, nPreferredDownload, nConnects,
                    avail, pindexLastCommonBlock, index, serves, nAnnounces>>

(* Mutant: a block that cannot be completed is not asked for again.        *)
FillBlockNoFallback(p, b) ==
  \/ /\ MarkBlockAsReceived(b)
     /\ ProcessNewBlock(b, TRUE)
     /\ Sends(p, <<>>)
     /\ UNCHANGED conn
  \/ /\ Sends(p, <<>>)
     /\ UNCHANGED <<flight, chain, conn>>
  \/ /\ p \notin Prompt
     /\ MarkBlockAsReceived(b)
     /\ Misbehaving(p)
     /\ Sends(p, <<>>)
     /\ UNCHANGED chain

(* The BLOCKTXN handler, for a block p has in flight with a partial block: *)
(* it is completed, or cannot be and is asked for in full, or the answer   *)
(* does not fit the request.                                               *)
FillBlock(p, b) ==
  \/ /\ MarkBlockAsReceived(b)
     /\ ProcessNewBlock(b, TRUE)
     /\ Sends(p, <<>>)
     /\ UNCHANGED conn
  \/ /\ Sends(p, <<BlockMsg(b)>>)
     /\ UNCHANGED <<flight, chain, conn>>
  \/ /\ p \notin Prompt
     /\ MarkBlockAsReceived(b)
     /\ Misbehaving(p)
     /\ Sends(p, <<>>)
     /\ UNCHANGED chain

ReceiveBlockTxn(p) ==
  LET b == Next1(p).hash
  IN /\ Receives(p, "blocktxn")
     /\ IF mapBlocksInFlight[b] = p /\ b \in partialBlock
        THEN FillBlock(p, b)
        ELSE Sends(p, <<>>) /\ UNCHANGED <<flight, chain, conn>>
     /\ UNCHANGED <<fSyncStarted, nSyncStarted, nPreferredDownload, nConnects,
                    avail, pindexLastCommonBlock, index, serves, nAnnounces>>

(* The compact block b becomes the in-flight entry of p, with a partial    *)
(* block, or had become it.                                                *)
StartPartial(p, b) ==
  MarkBlockAsInFlight(p, {b} \ vBlocksInFlight[p], {b}, {})
(* The same, and MarkBlockAsReceived in the same handler.                  *)
StartAndFinish(p, b) ==
  IF InFlight(b)
  THEN MarkBlockAsReceived(b)
  ELSE /\ nStallingSince' = nStallingSince \ {p}
       /\ UNCHANGED <<mapBlocksInFlight, vBlocksInFlight, nBlocksInFlight,
                      nPeersWithValidatedDownloads, partialBlock>>

(* PartiallyDownloadedBlock::InitData and what follows: the block cannot   *)
(* be rebuilt and is asked for in full, or transactions are missing and    *)
(* are asked for, or it is complete, or it is invalid.                     *)
InitData(p, b) ==
  \/ /\ StartPartial(p, b)
     /\ \/ Sends(p, <<BlockMsg(b)>>)
        \/ Sends(p, <<[type |-> "blocktxn", hash |-> b]>>)
     /\ UNCHANGED <<chain, conn>>
  \/ /\ StartAndFinish(p, b)
     /\ ProcessNewBlock(b, TRUE)
     /\ Sends(p, <<>>)
     /\ UNCHANGED conn
  \/ /\ p \notin Prompt
     /\ StartAndFinish(p, b)
     /\ Misbehaving(p)
     /\ Sends(p, <<>>)
     /\ UNCHANGED chain

(* The CMPCTBLOCK handler once the header is accepted and the block is not *)
(* stored.                                                                 *)
CompactBlock(p, b) ==
  LET better == Height[b] > Height[tip]
      near == Height[b] <= Height[tip] + 2
      ours == mapBlocksInFlight[b] = p
      room == nBlocksInFlight[p] < MAX_BLOCKS_IN_TRANSIT_PER_PEER
      accept == /\ ProcessNewBlockHeaders(HashPrev[b], b)
                /\ UpdateBlockAvailability(p, b, known')
  IN \/ /\ ~better \/ (~near /\ InFlight(b))
        /\ accept
        /\ Sends(p, IF InFlight(b) THEN <<BlockMsg(b)>> ELSE <<>>)
        /\ UNCHANGED <<flight, chain, conn>>
     \/ /\ better /\ ~InFlight(b) /\ ~CanDirectFetch
        /\ accept
        /\ Sends(p, <<>>)
        /\ UNCHANGED <<flight, chain, conn>>
     \/ /\ better /\ near /\ (InFlight(b) \/ CanDirectFetch)
        /\ accept
        /\ IF ours \/ (~InFlight(b) /\ room)
           THEN IF ours /\ b \in partialBlock
                THEN Sends(p, <<>>) /\ UNCHANGED <<flight, chain, conn>>
                ELSE InitData(p, b)
           ELSE /\ Sends(p, <<>>)
                /\ UNCHANGED conn
                /\ \/ ProcessNewBlock(b, TRUE) /\ MarkBlockAsReceived(b)
                   \/ UNCHANGED <<flight, chain>>
     \/ /\ ~near /\ ~InFlight(b) /\ CanDirectFetch
        /\ ProcessHeaders(p, HashPrev[b], b)
        /\ UNCHANGED <<chain, conn>>

ReceiveCmpctBlock(p) ==
  LET b == Next1(p).hash
  IN /\ Receives(p, "cmpctblock")
     /\ \/ /\ HashPrev[b] \notin known
           /\ Sends(p, IF IsInitialBlockDownload
                       THEN <<>> ELSE Headers(p, pindexBestHeader))
           /\ UNCHANGED <<index, avail, flight, chain, conn>>
        \/ /\ HashPrev[b] \in known /\ b \in data
           /\ UpdateBlockAvailability(p, b, known)
           /\ Sends(p, <<>>)
           /\ UNCHANGED <<index, flight, chain, conn>>
        \/ /\ HashPrev[b] \in known /\ b \notin data
           /\ CompactBlock(p, b)
     /\ UNCHANGED <<fSyncStarted, nSyncStarted, nPreferredDownload, nConnects,
                    pindexLastCommonBlock, serves, nAnnounces>>

-----------------------------------------------------------------------------
(* SendMessages.                                                           *)

(* FindNextBlocksToDownload, for a peer whose best known block is best:    *)
(* the last common block it moves to, the blocks to ask for, and the peer  *)
(* that keeps the download window from moving.                             *)
FindNextBlocksToDownload(p, best, count) ==
  LET guess == IF pindexLastCommonBlock[p] = NoBlock
               THEN AncestorAt(tip, Lower(Height[best], Height[tip]))
               ELSE pindexLastCommonBlock[p]
      common == LastCommonAncestor(guess, best)
      nWindowEnd == Height[common] + BLOCK_DOWNLOAD_WINDOW
      walk == {b \in Ancestors[best] \ Ancestors[common] :
                 Height[b] <= nWindowEnd + 1}
      linked == {b \in walk : Linked(b)} \cup {common}
      wanted == {b \in walk \ data : ~InFlight(b) /\ Height[b] <= nWindowEnd}
      beyond == {b \in walk \ data : ~InFlight(b) /\ Height[b] > nWindowEnd}
      waitingfor == {mapBlocksInFlight[b] :
                       b \in Lowest({c \in walk \ data : InFlight(c)}, 1)}
      empty == [common |-> pindexLastCommonBlock[p], blocks |-> {},
                staller |-> {}]
  IN IF best = NoBlock THEN empty
     ELSE IF Height[best] < Height[tip] THEN empty
     ELSE [common |-> CHOOSE b \in linked :
                        \A c \in linked : Height[c] <= Height[b],
           blocks |-> Lowest(wanted, count),
           staller |-> IF wanted = {} /\ beyond # {}
                       THEN waitingfor \ {p} ELSE {}]

fFetch(p) == p \in Preferred \/ nPreferredDownload = 0
(* Start block sync: one peer at a time, unless the headers are recent.    *)
StartsSync(p) ==
  /\ p \notin fSyncStarted
  /\ (nSyncStarted = 0 /\ fFetch(p)) \/ Recent(pindexBestHeader)
StartBlockSync(p) ==
  IF StartsSync(p)
  THEN fSyncStarted' = fSyncStarted \cup {p} /\ nSyncStarted' = nSyncStarted + 1
  ELSE UNCHANGED <<fSyncStarted, nSyncStarted>>
InitialHeaders(p) ==
  LET best == pindexBestHeader
  IN IF StartsSync(p)
     THEN Headers(p, IF best = Genesis THEN best ELSE HashPrev[best])
     ELSE <<>>

(* The turn of SendMessages in which neither clock has run out.            *)
SendMessages(p) ==
  /\ conn[p] = "up"
  /\ StartBlockSync(p)
  /\ IF /\ fFetch(p) \/ ~IsInitialBlockDownload
        /\ nBlocksInFlight[p] < MAX_BLOCKS_IN_TRANSIT_PER_PEER
     THEN /\ UpdateBlockAvailability(p, NoBlock, known)
          /\ LET found ==
                   FindNextBlocksToDownload(p, pindexBestKnownBlock'[p],
                     MAX_BLOCKS_IN_TRANSIT_PER_PEER - nBlocksInFlight[p])
                 idle == nBlocksInFlight[p] = 0 /\ found.blocks = {}
             IN \E blocks \in Blocks(found.blocks) :
                /\ pindexLastCommonBlock' =
                     [pindexLastCommonBlock EXCEPT ![p] = found.common]
                /\ MarkBlockAsInFlight(p, found.blocks, {},
                                       IF idle THEN found.staller ELSE {})
                /\ wire' = [wire EXCEPT
                     ![p] = @ \o InitialHeaders(p) \o blocks]
     ELSE /\ wire' = [wire EXCEPT ![p] = @ \o InitialHeaders(p)]
          /\ UNCHANGED <<avail, pindexLastCommonBlock, flight>>
  /\ UNCHANGED <<conn, nPreferredDownload, nConnects, index, chain, serves,
                 nAnnounces>>

(* The turn of SendMessages in which the stalling clock, or the clock of   *)
(* the first block in flight, has run out.  A prompt peer is not caught by *)
(* either clock while something it was asked for is under way.             *)
Timeout(p) ==
  /\ conn[p] = "up"
  /\ p \in nStallingSince \/ vBlocksInFlight[p] # {}
  /\ p \notin Prompt \/ wire[p] = <<>>
  /\ StartBlockSync(p)
  /\ wire' = [wire EXCEPT ![p] = @ \o InitialHeaders(p)]
  /\ conn' = [conn EXCEPT ![p] = "closing"]
  /\ UNCHANGED <<nPreferredDownload, nConnects, avail, pindexLastCommonBlock,
                 flight, index, chain, serves, nAnnounces>>

-----------------------------------------------------------------------------
Receive(p) ==
  \/ ReceiveInv(p) \/ ReceiveHeaders(p) \/ ReceiveBlock(p)
  \/ ReceiveBlockTxn(p) \/ ReceiveCmpctBlock(p)

Next ==
  \E p \in NodeId :
    \/ InitializeNode(p) \/ HangUp(p) \/ FinalizeNode(p) \/ Announce(p)
    \/ Receive(p) \/ SendMessages(p) \/ Timeout(p)

(* The message handler thread gives every peer its turn, and the socket    *)
(* thread deletes what is to be disconnected.  Clocks run out on a peer    *)
(* that is not prompt.  A prompt peer connects, announces its tip (blocks  *)
(* keep being found) and delivers what it sends.                           *)
Fairness ==
  /\ \A p \in Prompt :
       /\ WF_vars(InitializeNode(p) \/ Announce(p))
       /\ WF_vars(Receive(p))
       /\ WF_vars(SendMessages(p))
  /\ \A p \in NodeId \ Prompt : WF_vars(Timeout(p) \/ FinalizeNode(p))

Spec == Init /\ [][Next]_vars
FairSpec == Spec /\ Fairness

-----------------------------------------------------------------------------
TypeOK ==
  /\ conn \in [NodeId -> {"none", "up", "closing"}]
  /\ fSyncStarted \subseteq NodeId /\ nSyncStarted \in Nat
  /\ nPreferredDownload \in Nat
  /\ pindexBestKnownBlock \in [NodeId -> Block \cup {NoBlock}]
  /\ hashLastUnknownBlock \in [NodeId -> Block \cup {NoBlock}]
  /\ pindexLastCommonBlock \in [NodeId -> Block \cup {NoBlock}]
  /\ mapBlocksInFlight \in [Block -> NodeId \cup {NoNode}]
  /\ vBlocksInFlight \in [NodeId -> SUBSET Block]
  /\ nBlocksInFlight \in [NodeId -> Nat]
  /\ nPeersWithValidatedDownloads \in Nat
  /\ partialBlock \subseteq Block /\ nStallingSince \subseteq NodeId
  /\ known \subseteq Block /\ pindexBestHeader \in known
  /\ data \subseteq known /\ tip \in data
  /\ serves \in [NodeId -> Block] /\ wire \in [NodeId -> Seq(Message)]

(* The two records of what is in flight agree, the counters count them,    *)
(* and a peer without a CNodeState has nothing left in any of them: what   *)
(* FinalizeNode asserts after the last peer is removed, and what the       *)
(* lookups State(...) of a holder or a staller rely on.                    *)
DownloadStateExact ==
  /\ \A b \in Block, p \in NodeId :
       b \in vBlocksInFlight[p] <=> mapBlocksInFlight[b] = p
  /\ \A p \in NodeId : nBlocksInFlight[p] = Cardinality(vBlocksInFlight[p])
  /\ nPeersWithValidatedDownloads =
       Cardinality({p \in NodeId : vBlocksInFlight[p] # {}})
  /\ nPreferredDownload =
       Cardinality({p \in Preferred : conn[p] # "none"})
  /\ nSyncStarted = Cardinality(fSyncStarted)
  /\ \A p \in NodeId :
       conn[p] = "none" => vBlocksInFlight[p] = {} /\ p \notin fSyncStarted

(* A stalling clock runs only against a peer that holds a block, so no     *)
(* peer is dropped as a staller once it has delivered.                     *)
StallersHoldBlocks == \A p \in nStallingSince : vBlocksInFlight[p] # {}

(* Every block in flight from a peer is one the node still needs and the   *)
(* peer still owes: the block, the compact block or the missing            *)
(* transactions are under way.  Otherwise the entry would stay until the   *)
(* peer is dropped for it.  And no peer has more blocks to deliver than    *)
(* the limit.                                                              *)
InFlightIsOwed ==
  \A p \in NodeId :
    /\ \A b \in vBlocksInFlight[p] :
         /\ b \notin data
         /\ \E i \in 1..Len(wire[p]) :
              /\ wire[p][i].type \in {"block", "cmpctblock", "blocktxn"}
              /\ wire[p][i].hash = b
    /\ Cardinality(vBlocksInFlight[p]) <= MAX_BLOCKS_IN_TRANSIT_PER_PEER

(* Whatever the other peers do (stay silent with blocks in flight, send    *)
(* corrupt blocks, hang up, come back), the node gets to the tip of a      *)
(* prompt preferred peer, and keeps the peer.                              *)
SyncCompletes ==
  \A p \in Prompt :
    <>[](conn[p] = "up" /\ Height[tip] >= Height[serves[p]])
=============================================================================
