------------------------ MODULE BlockDownloadProofs ------------------------
(***************************************************************************)
(* For every set of peers and every tree of blocks: the record of what is  *)
(* in flight from whom is exact, a stalling clock runs only against a peer *)
(* that holds a block, and every block in flight is still needed and still *)
(* owed by its peer.                                                       *)
(***************************************************************************)
EXTENDS BlockDownload, FiniteSetTheorems, TLAPS

(* The record of downloads, with the types its counters need.              *)
FlightOK ==
  /\ mapBlocksInFlight \in [Block -> NodeId \cup {NoNode}]
  /\ vBlocksInFlight \in [NodeId -> SUBSET Block]
  /\ nBlocksInFlight \in [NodeId -> Int]
  /\ nStallingSince \subseteq NodeId
  /\ \A b \in Block, p \in NodeId :
       b \in vBlocksInFlight[p] <=> mapBlocksInFlight[b] = p
  /\ \A p \in NodeId : nBlocksInFlight[p] = Cardinality(vBlocksInFlight[p])
  /\ nPeersWithValidatedDownloads =
       Cardinality({p \in NodeId : vBlocksInFlight[p] # {}})
  /\ \A p \in nStallingSince : vBlocksInFlight[p] # {}

(* The counters over the connections.                                      *)
ConnOK ==
  /\ conn \in [NodeId -> {"none", "up", "closing"}]
  /\ fSyncStarted \subseteq NodeId
  /\ nPreferredDownload =
       Cardinality({p \in Preferred : conn[p] # "none"})
  /\ nSyncStarted = Cardinality(fSyncStarted)
  /\ \A p \in NodeId :
       conn[p] = "none" => vBlocksInFlight[p] = {} /\ p \notin fSyncStarted

(* What the messages and the block index hold are blocks.                  *)
WireOK ==
  /\ known \subseteq Block /\ pindexBestHeader \in Block
  /\ pindexBestKnownBlock \in [NodeId -> Block \cup {NoBlock}]
  /\ hashLastUnknownBlock \in [NodeId -> Block \cup {NoBlock}]
  /\ serves \in [NodeId -> Block]
  /\ wire \in [NodeId -> Seq(Message)]

IInv == FlightOK /\ ConnOK /\ WireOK

-----------------------------------------------------------------------------
(* Cardinality.                                                            *)

(* Sets of peers and of blocks are finite and can be counted.              *)
LEMMA Finite ==
  /\ \A S \in SUBSET Block : IsFiniteSet(S) /\ Cardinality(S) \in Nat
  /\ \A S \in SUBSET NodeId : IsFiniteSet(S) /\ Cardinality(S) \in Nat
BY Zenon, DownloadAssumption, FS_Subset, FS_CardinalityType

(* One element more.                                                       *)
LEMMA AddOne ==
  ASSUME NEW S, IsFiniteSet(S), NEW x, x \notin S
  PROVE  Cardinality(S \cup {x}) = Cardinality(S) + 1
BY Zenon, FS_AddElement

(* One element less.                                                       *)
LEMMA RemoveOne ==
  ASSUME NEW S, IsFiniteSet(S), NEW x \in S
  PROVE  Cardinality(S \ {x}) = Cardinality(S) - 1
BY Zenon, FS_RemoveElement

(* Only the empty set has no element.                                      *)
LEMMA Empty ==
  ASSUME NEW S, IsFiniteSet(S)
  PROVE  Cardinality(S) = 0 <=> S = {}
BY Zenon, FS_EmptySet

(* Disjoint sets are counted one after the other.                          *)
LEMMA AddSet ==
  ASSUME NEW S, IsFiniteSet(S), NEW U, IsFiniteSet(U), S \cap U = {}
  PROVE  Cardinality(S \cup U) = Cardinality(S) + Cardinality(U)
<1>1. Cardinality(S \cup U)
        = Cardinality(S) + Cardinality(U) - Cardinality(S \cap U)
  BY Zenon, FS_Union
<1>2. Cardinality(S \cap U) = 0
  BY Zenon, FS_EmptySet
<1>3. Cardinality(S) \in Nat /\ Cardinality(U) \in Nat
  BY Zenon, FS_CardinalityType
<1> QED  BY <1>1, <1>2, <1>3

(* The number of peers whose list is not empty.                            *)
PeersWith(v) == Cardinality({q \in NodeId : v[q] # {}})

(* What becomes of the count of peers with downloads when the list of one  *)
(* peer changes.                                                           *)
LEMMA PeersCount ==
  ASSUME NEW v \in [NodeId -> SUBSET Block], NEW w \in [NodeId -> SUBSET Block],
         NEW p \in NodeId, \A q \in NodeId \ {p} : w[q] = v[q]
  PROVE  /\ PeersWith(v) \in Nat
         /\ PeersWith(w) = PeersWith(v)
                             + (IF v[p] = {} /\ w[p] # {} THEN 1 ELSE 0)
                             - (IF v[p] # {} /\ w[p] = {} THEN 1 ELSE 0)
<1> DEFINE V == {q \in NodeId : v[q] # {}}
           W == {q \in NodeId : w[q] # {}}
<1>0. PeersWith(v) = Cardinality(V) /\ PeersWith(w) = Cardinality(W)
  BY Zenon DEF PeersWith
<1>1. IsFiniteSet(V) /\ IsFiniteSet(W)
      /\ Cardinality(V) \in Nat /\ Cardinality(W) \in Nat
  <2>1. V \in SUBSET NodeId /\ W \in SUBSET NodeId
    BY Zenon
  <2> QED  BY Zenon, <2>1, Finite
<1>2. CASE v[p] = {} /\ w[p] # {}
  <2>1. W = V \cup {p} /\ p \notin V
    BY Zenon, <1>2
  <2>2. Cardinality(W) = Cardinality(V) + 1
    BY Zenon, <1>1, <2>1, AddOne
  <2> QED  BY <1>0, <1>1, <1>2, <2>2
<1>3. CASE v[p] # {} /\ w[p] = {}
  <2>1. W = V \ {p} /\ p \in V
    BY Zenon, <1>3
  <2>2. Cardinality(W) = Cardinality(V) - 1
    BY Zenon, <1>1, <2>1, RemoveOne
  <2> QED  BY <1>0, <1>1, <1>3, <2>2
<1>4. CASE (v[p] = {}) <=> (w[p] = {})
  <2>1. W = V
    BY Zenon, <1>4
  <2>2. /\ ~(v[p] = {} /\ w[p] # {})
        /\ ~(v[p] # {} /\ w[p] = {})
    BY Zenon, <1>4
  <2> HIDE DEF V, W
  <2>3. Cardinality(W) = Cardinality(V) + 0 - 0
    BY <1>1, <2>1
  <2> QED  BY Zenon, <1>0, <1>1, <2>2, <2>3
<1> QED  BY Zenon, <1>2, <1>3, <1>4

-----------------------------------------------------------------------------
(* The download record.                                                    *)

(* MarkBlockAsReceived keeps the record exact, and adds to no list.        *)
LEMMA ReceivedFlight ==
  ASSUME FlightOK, NEW b \in Block, MarkBlockAsReceived(b)
  PROVE  /\ FlightOK'
         /\ \A q \in NodeId : vBlocksInFlight'[q] \subseteq vBlocksInFlight[q]
<1> DEFINE p == mapBlocksInFlight[b]
<1>1. CASE p = NoNode
  BY <1>1 DEF MarkBlockAsReceived, flight, FlightOK
<1>2. CASE p # NoNode
  <2>1. p \in NodeId /\ b \in vBlocksInFlight[p]
    BY <1>2 DEF FlightOK
  <2>2. /\ mapBlocksInFlight' = [mapBlocksInFlight EXCEPT ![b] = NoNode]
        /\ vBlocksInFlight' = [vBlocksInFlight EXCEPT ![p] = @ \ {b}]
        /\ nBlocksInFlight' = [nBlocksInFlight EXCEPT ![p] = @ - 1]
        /\ nPeersWithValidatedDownloads' =
             nPeersWithValidatedDownloads
               - (IF nBlocksInFlight[p] = 1 THEN 1 ELSE 0)
        /\ nStallingSince' = nStallingSince \ {p}
    BY Zenon, <1>2 DEF MarkBlockAsReceived
  <2>3. /\ mapBlocksInFlight' \in [Block -> NodeId \cup {NoNode}]
        /\ vBlocksInFlight' \in [NodeId -> SUBSET Block]
        /\ nBlocksInFlight' \in [NodeId -> Int]
        /\ nStallingSince' \subseteq NodeId
    BY <2>1, <2>2 DEF FlightOK
  <2>4. /\ vBlocksInFlight'[p] = vBlocksInFlight[p] \ {b}
        /\ \A q \in NodeId \ {p} : vBlocksInFlight'[q] = vBlocksInFlight[q]
    BY <2>1, <2>2 DEF FlightOK
  <2>5. \A c \in Block, q \in NodeId :
          c \in vBlocksInFlight'[q] <=> mapBlocksInFlight'[c] = q
    BY <2>1, <2>2, <2>4, DownloadAssumption DEF FlightOK
  <2>6. IsFiniteSet(vBlocksInFlight[p]) /\ Cardinality(vBlocksInFlight[p]) \in Nat
    BY Zenon, <2>1, Finite DEF FlightOK
  <2>7. Cardinality(vBlocksInFlight'[p]) = Cardinality(vBlocksInFlight[p]) - 1
    BY Zenon, <2>1, <2>4, <2>6, RemoveOne
  <2>8. nBlocksInFlight'[p] = nBlocksInFlight[p] - 1
        /\ \A q \in NodeId \ {p} : nBlocksInFlight'[q] = nBlocksInFlight[q]
    BY <2>1, <2>2 DEF FlightOK
  <2>9. \A q \in NodeId : nBlocksInFlight'[q] = Cardinality(vBlocksInFlight'[q])
    BY Zenon, <2>1, <2>4, <2>7, <2>8 DEF FlightOK
  <2>10. nBlocksInFlight[p] = 1 <=> vBlocksInFlight'[p] = {}
    <3>1. IsFiniteSet(vBlocksInFlight'[p])
      BY Zenon, <2>1, <2>3, Finite
    <3>2. nBlocksInFlight[p] = Cardinality(vBlocksInFlight[p])
      BY Zenon, <2>1 DEF FlightOK
    <3> QED  BY <3>1, <3>2, <2>6, <2>7, Empty
  <2>11. nPeersWithValidatedDownloads' =
           Cardinality({q \in NodeId : vBlocksInFlight'[q] # {}})
    <3>1. vBlocksInFlight[p] # {}
      BY Zenon, <2>1
    <3>2. vBlocksInFlight \in [NodeId -> SUBSET Block]
          /\ nPeersWithValidatedDownloads = PeersWith(vBlocksInFlight)
      BY Zenon DEF FlightOK, PeersWith
    <3>3. /\ PeersWith(vBlocksInFlight) \in Nat
          /\ PeersWith(vBlocksInFlight') = PeersWith(vBlocksInFlight)
               + (IF vBlocksInFlight[p] = {} /\ vBlocksInFlight'[p] # {}
                  THEN 1 ELSE 0)
               - (IF vBlocksInFlight[p] # {} /\ vBlocksInFlight'[p] = {}
                  THEN 1 ELSE 0)
      BY Zenon, <2>1, <2>3, <2>4, <3>2, PeersCount
    <3>4. nPeersWithValidatedDownloads' = PeersWith(vBlocksInFlight')
      BY <2>2, <2>10, <3>1, <3>2, <3>3
    <3> QED  BY Zenon, <3>4 DEF PeersWith
  <2>12. \A q \in nStallingSince' : vBlocksInFlight'[q] # {}
    BY Zenon, <2>2, <2>4 DEF FlightOK
  <2> QED  BY Zenon, <2>3, <2>4, <2>5, <2>9, <2>11, <2>12 DEF FlightOK
<1> QED  BY Zenon, <1>1, <1>2

(* MarkBlockAsInFlight of blocks that are not in flight keeps the record   *)
(* exact, if the clocks it starts run against holders of blocks.           *)
LEMMA InFlightFlight ==
  ASSUME FlightOK, NEW p \in NodeId, NEW S \in SUBSET Block,
         \A b \in S : mapBlocksInFlight[b] = NoNode,
         NEW partial, NEW stalling \in SUBSET NodeId,
         \A q \in stalling : vBlocksInFlight[q] # {},
         MarkBlockAsInFlight(p, S, partial, stalling)
  PROVE  /\ FlightOK'
         /\ \A q \in NodeId \ {p} : vBlocksInFlight'[q] = vBlocksInFlight[q]
<1>1. /\ mapBlocksInFlight' =
           [b \in Block |-> IF b \in S THEN p ELSE mapBlocksInFlight[b]]
      /\ vBlocksInFlight' = [vBlocksInFlight EXCEPT ![p] = @ \cup S]
      /\ nBlocksInFlight' = [nBlocksInFlight EXCEPT ![p] = @ + Cardinality(S)]
      /\ nPeersWithValidatedDownloads' =
           nPeersWithValidatedDownloads
             + (IF nBlocksInFlight[p] = 0 /\ S # {} THEN 1 ELSE 0)
      /\ nStallingSince' = nStallingSince \cup stalling
  BY Zenon DEF MarkBlockAsInFlight
<1>2. IsFiniteSet(S) /\ Cardinality(S) \in Nat
  BY Zenon, Finite
<1>3. /\ mapBlocksInFlight' \in [Block -> NodeId \cup {NoNode}]
      /\ vBlocksInFlight' \in [NodeId -> SUBSET Block]
      /\ nBlocksInFlight' \in [NodeId -> Int]
      /\ nStallingSince' \subseteq NodeId
  BY <1>1, <1>2 DEF FlightOK
<1>4. /\ vBlocksInFlight'[p] = vBlocksInFlight[p] \cup S
      /\ \A q \in NodeId \ {p} : vBlocksInFlight'[q] = vBlocksInFlight[q]
  BY <1>1 DEF FlightOK
<1>5. \A c \in Block, q \in NodeId :
        c \in vBlocksInFlight'[q] <=> mapBlocksInFlight'[c] = q
  <2> SUFFICES ASSUME NEW c \in Block, NEW q \in NodeId
               PROVE  c \in vBlocksInFlight'[q] <=> mapBlocksInFlight'[c] = q
    BY Zenon
  <2>1. mapBlocksInFlight'[c] = IF c \in S THEN p ELSE mapBlocksInFlight[c]
    BY Zenon, <1>1
  <2>2. c \in vBlocksInFlight[q] <=> mapBlocksInFlight[c] = q
    BY Zenon DEF FlightOK
  <2>3. NoNode # q
    BY Zenon, DownloadAssumption
  <2> QED  BY Zenon, <1>4, <2>1, <2>2, <2>3
<1>6. IsFiniteSet(vBlocksInFlight[p]) /\ Cardinality(vBlocksInFlight[p]) \in Nat
  BY Zenon, Finite DEF FlightOK
<1>7. Cardinality(vBlocksInFlight'[p])
        = Cardinality(vBlocksInFlight[p]) + Cardinality(S)
  <2>1. vBlocksInFlight[p] \cap S = {}
    BY DownloadAssumption DEF FlightOK
  <2> QED  BY Zenon, <1>2, <1>4, <1>6, <2>1, AddSet
<1>8. /\ nBlocksInFlight'[p] = nBlocksInFlight[p] + Cardinality(S)
      /\ \A q \in NodeId \ {p} : nBlocksInFlight'[q] = nBlocksInFlight[q]
  BY <1>1 DEF FlightOK
<1>9. \A q \in NodeId : nBlocksInFlight'[q] = Cardinality(vBlocksInFlight'[q])
  BY Zenon, <1>4, <1>7, <1>8 DEF FlightOK
<1>10. nBlocksInFlight[p] = 0 <=> vBlocksInFlight[p] = {}
  BY Zenon, <1>6, Empty DEF FlightOK
<1>11. nPeersWithValidatedDownloads' =
         Cardinality({q \in NodeId : vBlocksInFlight'[q] # {}})
  <2>1. vBlocksInFlight \in [NodeId -> SUBSET Block]
        /\ nPeersWithValidatedDownloads = PeersWith(vBlocksInFlight)
    BY Zenon DEF FlightOK, PeersWith
  <2>2. /\ PeersWith(vBlocksInFlight) \in Nat
        /\ PeersWith(vBlocksInFlight') = PeersWith(vBlocksInFlight)
             + (IF vBlocksInFlight[p] = {} /\ vBlocksInFlight'[p] # {}
                THEN 1 ELSE 0)
             - (IF vBlocksInFlight[p] # {} /\ vBlocksInFlight'[p] = {}
                THEN 1 ELSE 0)
    BY Zenon, <1>3, <1>4, <2>1, PeersCount
  <2>3. /\ ~(vBlocksInFlight[p] # {} /\ vBlocksInFlight'[p] = {})
        /\ vBlocksInFlight[p] = {} => (vBlocksInFlight'[p] # {} <=> S # {})
    BY Zenon, <1>4
  <2>4. nPeersWithValidatedDownloads' = PeersWith(vBlocksInFlight')
    BY <1>1, <1>10, <2>1, <2>2, <2>3
  <2> QED  BY Zenon, <2>4 DEF PeersWith
<1>12. \A q \in nStallingSince' : vBlocksInFlight'[q] # {}
  BY <1>1, <1>4 DEF FlightOK
<1> QED  BY Zenon, <1>3, <1>4, <1>5, <1>9, <1>11, <1>12 DEF FlightOK

(* FinalizeNode takes a peer out of the record.                            *)
LEMMA FinalizeFlight ==
  ASSUME FlightOK, NEW p \in NodeId, FinalizeNode(p)
  PROVE  /\ FlightOK'
         /\ vBlocksInFlight'[p] = {}
         /\ \A q \in NodeId \ {p} : vBlocksInFlight'[q] = vBlocksInFlight[q]
<1>1. /\ mapBlocksInFlight' =
           [b \in Block |-> IF b \in vBlocksInFlight[p]
                            THEN NoNode ELSE mapBlocksInFlight[b]]
      /\ vBlocksInFlight' = [vBlocksInFlight EXCEPT ![p] = {}]
      /\ nBlocksInFlight' = [nBlocksInFlight EXCEPT ![p] = 0]
      /\ nPeersWithValidatedDownloads' =
           nPeersWithValidatedDownloads
             - (IF nBlocksInFlight[p] # 0 THEN 1 ELSE 0)
      /\ nStallingSince' = nStallingSince \ {p}
  BY Zenon DEF FinalizeNode
<1>2. /\ mapBlocksInFlight' \in [Block -> NodeId \cup {NoNode}]
      /\ vBlocksInFlight' \in [NodeId -> SUBSET Block]
      /\ nBlocksInFlight' \in [NodeId -> Int]
      /\ nStallingSince' \subseteq NodeId
  BY <1>1 DEF FlightOK
<1>3. /\ vBlocksInFlight'[p] = {}
      /\ \A q \in NodeId \ {p} : vBlocksInFlight'[q] = vBlocksInFlight[q]
  BY Zenon, <1>1 DEF FlightOK
<1>4. \A c \in Block, q \in NodeId :
        c \in vBlocksInFlight'[q] <=> mapBlocksInFlight'[c] = q
  <2> SUFFICES ASSUME NEW c \in Block, NEW q \in NodeId
               PROVE  c \in vBlocksInFlight'[q] <=> mapBlocksInFlight'[c] = q
    BY Zenon
  <2>1. mapBlocksInFlight'[c] = IF c \in vBlocksInFlight[p]
                                THEN NoNode ELSE mapBlocksInFlight[c]
    BY Zenon, <1>1
  <2>2. /\ c \in vBlocksInFlight[q] <=> mapBlocksInFlight[c] = q
        /\ c \in vBlocksInFlight[p] <=> mapBlocksInFlight[c] = p
    BY Zenon DEF FlightOK
  <2>3. NoNode # q
    BY Zenon, DownloadAssumption
  <2> QED  BY Zenon, <1>3, <2>1, <2>2, <2>3
<1>5. nBlocksInFlight'[p] = 0
      /\ \A q \in NodeId \ {p} : nBlocksInFlight'[q] = nBlocksInFlight[q]
  BY <1>1 DEF FlightOK
<1>6. \A q \in NodeId : nBlocksInFlight'[q] = Cardinality(vBlocksInFlight'[q])
  BY Zenon, <1>3, <1>5, FS_EmptySet DEF FlightOK
<1>7. nBlocksInFlight[p] = 0 <=> vBlocksInFlight[p] = {}
  BY Zenon, Finite, Empty DEF FlightOK
<1>8. nPeersWithValidatedDownloads' =
        Cardinality({q \in NodeId : vBlocksInFlight'[q] # {}})
  <2>1. vBlocksInFlight \in [NodeId -> SUBSET Block]
        /\ nPeersWithValidatedDownloads = PeersWith(vBlocksInFlight)
    BY Zenon DEF FlightOK, PeersWith
  <2>2. /\ PeersWith(vBlocksInFlight) \in Nat
        /\ PeersWith(vBlocksInFlight') = PeersWith(vBlocksInFlight)
             + (IF vBlocksInFlight[p] = {} /\ vBlocksInFlight'[p] # {}
                THEN 1 ELSE 0)
             - (IF vBlocksInFlight[p] # {} /\ vBlocksInFlight'[p] = {}
                THEN 1 ELSE 0)
    BY Zenon, <1>2, <1>3, <2>1, PeersCount
  <2>3. vBlocksInFlight'[p] = {}
    BY Zenon, <1>3
  <2>4. nPeersWithValidatedDownloads' = PeersWith(vBlocksInFlight')
    BY <1>1, <1>7, <2>1, <2>2, <2>3
  <2> QED  BY Zenon, <2>4 DEF PeersWith
<1>9. \A q \in nStallingSince' : vBlocksInFlight'[q] # {}
  BY Zenon, <1>1, <1>3 DEF FlightOK
<1> QED  BY Zenon, <1>2, <1>3, <1>4, <1>6, <1>8, <1>9 DEF FlightOK

(* A step that leaves the record alone.                                    *)
LEMMA SameFlight ==
  ASSUME FlightOK, UNCHANGED flight
  PROVE  FlightOK' /\ vBlocksInFlight' = vBlocksInFlight
BY Zenon DEF FlightOK, flight

-----------------------------------------------------------------------------
(* The counters over the connections.                                      *)

(* A step after which the same peers have a node state, and no peer        *)
(* without one has downloads.                                              *)
LEMMA SameConn ==
  ASSUME ConnOK, conn' \in [NodeId -> {"none", "up", "closing"}],
         \A q \in NodeId : conn'[q] = "none" <=> conn[q] = "none",
         \A q \in NodeId : conn[q] = "none" => vBlocksInFlight'[q] = {},
         UNCHANGED <<fSyncStarted, nSyncStarted, nPreferredDownload>>
  PROVE  ConnOK'
<1>1. {q \in Preferred : conn'[q] # "none"} = {q \in Preferred : conn[q] # "none"}
  BY Zenon, DownloadAssumption
<1>2. nPreferredDownload' = Cardinality({q \in Preferred : conn'[q] # "none"})
  BY Zenon, <1>1 DEF ConnOK
<1> QED  BY Zenon, <1>2 DEF ConnOK

(* A peer connects.                                                        *)
LEMMA InitializeConn ==
  ASSUME FlightOK, ConnOK, NEW p \in NodeId, InitializeNode(p)
  PROVE  ConnOK'
<1> DEFINE V == {q \in Preferred : conn[q] # "none"}
           W == {q \in Preferred : conn'[q] # "none"}
<1>1. /\ conn[p] = "none" /\ conn' = [conn EXCEPT ![p] = "up"]
      /\ nPreferredDownload' =
           nPreferredDownload + (IF p \in Preferred THEN 1 ELSE 0)
      /\ UNCHANGED <<fSyncStarted, nSyncStarted, vBlocksInFlight>>
  BY Zenon DEF InitializeNode, flight
<1>2. /\ conn' \in [NodeId -> {"none", "up", "closing"}]
      /\ conn'[p] = "up" /\ \A q \in NodeId \ {p} : conn'[q] = conn[q]
  BY Zenon, <1>1 DEF ConnOK
<1>3. IsFiniteSet(V) /\ Cardinality(V) \in Nat
  <2>1. V \in SUBSET NodeId
    BY Zenon, DownloadAssumption
  <2> QED  BY Zenon, <2>1, Finite
<1>4. Cardinality(W) = Cardinality(V) + (IF p \in Preferred THEN 1 ELSE 0)
  <2>1. CASE p \in Preferred
    <3>1. W = V \cup {p} /\ p \notin V
      BY Zenon, <1>1, <1>2, <2>1, DownloadAssumption
    <3> QED  BY Zenon, <1>3, <2>1, <3>1, AddOne
  <2>2. CASE p \notin Preferred
    <3>1. W = V
      BY Zenon, <1>2, <2>2, DownloadAssumption
    <3> QED  BY <1>3, <2>2, <3>1
  <2> QED  BY Zenon, <2>1, <2>2
<1>5. nPreferredDownload' = Cardinality(W)
  BY Zenon, <1>1, <1>4 DEF ConnOK
<1> QED  BY Zenon, <1>1, <1>2, <1>5 DEF ConnOK

(* A peer is deleted.                                                      *)
LEMMA FinalizeConn ==
  ASSUME FlightOK, ConnOK, NEW p \in NodeId, FinalizeNode(p)
  PROVE  ConnOK'
<1> DEFINE V == {q \in Preferred : conn[q] # "none"}
           W == {q \in Preferred : conn'[q] # "none"}
<1>1. /\ conn[p] = "closing" /\ conn' = [conn EXCEPT ![p] = "none"]
      /\ nPreferredDownload' =
           nPreferredDownload - (IF p \in Preferred THEN 1 ELSE 0)
      /\ fSyncStarted' = fSyncStarted \ {p}
      /\ nSyncStarted' = nSyncStarted - (IF p \in fSyncStarted THEN 1 ELSE 0)
  BY Zenon DEF FinalizeNode
<1>2. /\ conn' \in [NodeId -> {"none", "up", "closing"}]
      /\ conn'[p] = "none" /\ \A q \in NodeId \ {p} : conn'[q] = conn[q]
  BY Zenon, <1>1 DEF ConnOK
<1>3. IsFiniteSet(V) /\ Cardinality(V) \in Nat
  <2>1. V \in SUBSET NodeId
    BY Zenon, DownloadAssumption
  <2> QED  BY Zenon, <2>1, Finite
<1>4. Cardinality(W) = Cardinality(V) - (IF p \in Preferred THEN 1 ELSE 0)
  <2>1. CASE p \in Preferred
    <3>1. W = V \ {p} /\ p \in V
      BY Zenon, <1>1, <1>2, <2>1, DownloadAssumption
    <3> QED  BY Zenon, <1>3, <2>1, <3>1, RemoveOne
  <2>2. CASE p \notin Preferred
    <3>1. W = V
      BY Zenon, <1>2, <2>2, DownloadAssumption
    <3> HIDE DEF V, W
    <3>2. Cardinality(W) = Cardinality(V) - 0
      BY <1>3, <3>1
    <3> QED  BY Zenon, <2>2, <3>2
  <2> QED  BY Zenon, <2>1, <2>2
<1>5. nPreferredDownload' = Cardinality(W)
  BY Zenon, <1>1, <1>4 DEF ConnOK
<1>6. nSyncStarted' = Cardinality(fSyncStarted')
  <2>1. IsFiniteSet(fSyncStarted) /\ Cardinality(fSyncStarted) \in Nat
    BY Zenon, Finite DEF ConnOK
  <2>2. CASE p \in fSyncStarted
    BY Zenon, <1>1, <2>1, <2>2, RemoveOne DEF ConnOK
  <2>3. CASE p \notin fSyncStarted
    <3>1. fSyncStarted' = fSyncStarted
      BY Zenon, <1>1, <2>3
    <3>2. nSyncStarted' = nSyncStarted - 0 /\ nSyncStarted \in Nat
      BY Zenon, <1>1, <2>1, <2>3 DEF ConnOK
    <3> QED  BY <3>1, <3>2 DEF ConnOK
  <2> QED  BY Zenon, <2>2, <2>3
<1>7. \A q \in NodeId :
        conn'[q] = "none" => vBlocksInFlight'[q] = {} /\ q \notin fSyncStarted'
  BY Zenon, <1>1, <1>2, FinalizeFlight DEF ConnOK
<1> QED  BY Zenon, <1>1, <1>2, <1>5, <1>6, <1>7 DEF ConnOK

(* Block sync starts with a connected peer, which may be dropped then.     *)
LEMMA SyncConn ==
  ASSUME ConnOK, NEW p \in NodeId, conn[p] = "up", StartBlockSync(p),
         UNCHANGED nPreferredDownload,
         conn' \in [NodeId -> {"none", "up", "closing"}],
         \A q \in NodeId : conn'[q] = "none" <=> conn[q] = "none",
         \A q \in NodeId : conn[q] = "none" => vBlocksInFlight'[q] = {}
  PROVE  ConnOK'
<1>1. {q \in Preferred : conn'[q] # "none"} = {q \in Preferred : conn[q] # "none"}
  BY Zenon, DownloadAssumption
<1>2. nPreferredDownload' = Cardinality({q \in Preferred : conn'[q] # "none"})
  BY Zenon, <1>1 DEF ConnOK
<1>3. /\ fSyncStarted' \subseteq fSyncStarted \cup {p}
      /\ nSyncStarted' = Cardinality(fSyncStarted')
  <2>1. IsFiniteSet(fSyncStarted)
    BY Zenon, Finite DEF ConnOK
  <2>2. CASE StartsSync(p)
    <3>1. /\ p \notin fSyncStarted /\ fSyncStarted' = fSyncStarted \cup {p}
          /\ nSyncStarted' = nSyncStarted + 1
      BY Zenon, <2>2 DEF StartBlockSync, StartsSync
    <3> QED  BY Zenon, <2>1, <3>1, AddOne DEF ConnOK
  <2>3. CASE ~StartsSync(p)
    BY Zenon, <2>3 DEF StartBlockSync, ConnOK
  <2> QED  BY Zenon, <2>2, <2>3
<1>4. \A q \in NodeId :
        conn'[q] = "none" => vBlocksInFlight'[q] = {} /\ q \notin fSyncStarted'
  BY Zenon, <1>3 DEF ConnOK
<1> QED  BY Zenon, <1>2, <1>3, <1>4 DEF ConnOK

-----------------------------------------------------------------------------
(* Messages.                                                               *)

(* The next message is one, and so are those behind it.                    *)
LEMMA HeadMsg ==
  ASSUME WireOK, NEW p \in NodeId, NEW t, Receives(p, t)
  PROVE  /\ Next1(p) \in Message /\ Next1(p).type = t
         /\ Tail(wire[p]) \in Seq(Message)
<1>1. wire[p] \in Seq(Message) /\ wire[p] # <<>> /\ Next1(p).type = t
  BY Zenon DEF WireOK, Receives
<1>2. Head(wire[p]) \in Message /\ Tail(wire[p]) \in Seq(Message)
  BY <1>1
<1> QED  BY Zenon, <1>1, <1>2 DEF Next1

(* A message that is no headers message names a block.                     *)
LEMMA HashMsg ==
  ASSUME WireOK, NEW p \in NodeId, NEW t, Receives(p, t), t # "headers"
  PROVE  Next1(p).hash \in Block
BY Zenon, HeadMsg DEF Message

(* A headers message names two blocks.                                     *)
LEMMA HeadersMsg ==
  ASSUME WireOK, NEW p \in NodeId, Receives(p, "headers")
  PROVE  Next1(p).prev \in Block /\ Next1(p).last \in Block
BY Zenon, HeadMsg DEF Message

(* The answer to a GETHEADERS.                                             *)
LEMMA HeadersSeq ==
  ASSUME WireOK, NEW p \in NodeId, NEW from \in Block
  PROVE  Headers(p, from) \in Seq(Message)
<1> DEFINE fork == LastCommonAncestor(from, serves[p])
           top == Lower(Height[fork] + MAX_HEADERS_RESULTS, Height[serves[p]])
           last == AncestorAt(serves[p], top)
<1>1. serves[p] \in Block
  BY Zenon DEF WireOK
<1>2. fork \in Block
  BY Zenon, <1>1, TreeAssumption DEF LastCommonAncestor
<1>3. Height[fork] \in Nat /\ Height[serves[p]] \in Nat
  BY Zenon, <1>1, <1>2, TreeAssumption
<1> HIDE DEF fork
<1>4. top \in 0..Height[serves[p]]
  BY <1>3, DownloadAssumption DEF Lower
<1> HIDE DEF top
<1>5. last \in Block
  BY Zenon, <1>1, <1>4, TreeAssumption DEF AncestorAt
<1> HIDE DEF last
<1>6. [type |-> "headers", prev |-> fork, last |-> last] \in Message
  BY Zenon, <1>2, <1>5 DEF Message
<1>7. <<[type |-> "headers", prev |-> fork, last |-> last]>> \in Seq(Message)
      /\ <<>> \in Seq(Message)
  BY <1>6
<1> QED  BY Zenon, <1>7 DEF Headers, fork, top, last

(* A block message, a compact block and missing transactions.              *)
LEMMA OneMsg ==
  ASSUME NEW b \in Block
  PROVE  /\ <<BlockMsg(b)>> \in Seq(Message)
         /\ <<[type |-> "cmpctblock", hash |-> b]>> \in Seq(Message)
         /\ <<[type |-> "blocktxn", hash |-> b]>> \in Seq(Message)
         /\ <<>> \in Seq(Message)
<1>1. /\ BlockMsg(b) \in Message
      /\ [type |-> "cmpctblock", hash |-> b] \in Message
      /\ [type |-> "blocktxn", hash |-> b] \in Message
  BY Zenon DEF BlockMsg, Message
<1> QED  BY <1>1

(* The answer to a GETDATA.                                                *)
LEMMA BlocksSeq ==
  ASSUME NEW S \in SUBSET Block, NEW m \in Blocks(S)
  PROVE  m \in Seq(Message)
<1>1. Cardinality(S) \in Nat
  BY Zenon, Finite
<1>2. PICK f \in [1..Cardinality(S) -> S] :
        m = [i \in 1..Cardinality(S) |-> BlockMsg(f[i])]
  BY Zenon DEF Blocks
<1>3. \A i \in 1..Cardinality(S) : BlockMsg(f[i]) \in Message
  BY Zenon DEF BlockMsg, Message
<1>4. m \in [1..Cardinality(S) -> Message]
  BY Zenon, <1>2, <1>3
<1> QED  BY <1>1, <1>4

(* A received message is replaced by the answers on their way.             *)
LEMMA SendsSeq ==
  ASSUME WireOK, NEW p \in NodeId, NEW t, Receives(p, t),
         NEW answers \in Seq(Message), Sends(p, answers)
  PROVE  wire' \in [NodeId -> Seq(Message)]
<1>1. Tail(wire[p]) \o answers \in Seq(Message)
  BY HeadMsg
<1> QED  BY Zenon, <1>1 DEF WireOK, Sends

(* What a peer is known to have are blocks.                                *)
LEMMA AvailabilityType ==
  ASSUME WireOK, NEW p \in NodeId, NEW b \in Block \cup {NoBlock},
         NEW headers \in SUBSET Block, UpdateBlockAvailability(p, b, headers)
  PROVE  /\ pindexBestKnownBlock' \in [NodeId -> Block \cup {NoBlock}]
         /\ hashLastUnknownBlock' \in [NodeId -> Block \cup {NoBlock}]
BY Zenon DEF WireOK, UpdateBlockAvailability

-----------------------------------------------------------------------------
(* Steps.                                                                  *)

(* A handler of p leaves the connections alone, or drops p, and adds to no *)
(* list but that of p.                                                     *)
LEMMA HandlerConn ==
  ASSUME ConnOK, NEW p \in NodeId, conn[p] = "up",
         conn' = conn \/ Misbehaving(p),
         \A q \in NodeId \ {p} : vBlocksInFlight'[q] \subseteq vBlocksInFlight[q],
         UNCHANGED <<fSyncStarted, nSyncStarted, nPreferredDownload>>
  PROVE  ConnOK'
<1>1. /\ conn' \in [NodeId -> {"none", "up", "closing"}]
      /\ \A q \in NodeId : conn'[q] = "none" <=> conn[q] = "none"
  <2>1. CASE conn' = conn
    BY Zenon, <2>1 DEF ConnOK
  <2>2. CASE Misbehaving(p)
    BY Zenon, <2>2 DEF ConnOK, Misbehaving
  <2> QED  BY Zenon, <2>1, <2>2
<1>2. \A q \in NodeId : conn[q] = "none" => vBlocksInFlight'[q] = {}
  BY Zenon DEF ConnOK
<1> QED  BY Zenon, <1>1, <1>2, SameConn

(* The blocks of a direct fetch are not in flight.                         *)
LEMMA DirectFetchSet ==
  ASSUME NEW p, NEW last \in Block
  PROVE  /\ DirectFetch(p, last) \in SUBSET Block
         /\ \A b \in DirectFetch(p, last) : mapBlocksInFlight[b] = NoNode
BY Zenon, TreeAssumption DEF DirectFetch, Lowest, InFlight

(* New headers are blocks.                                                 *)
LEMMA IndexType ==
  ASSUME WireOK, NEW prev \in Block, NEW last \in Block,
         ProcessNewBlockHeaders(prev, last)
  PROVE  known' \in SUBSET Block /\ pindexBestHeader' \in Block
<1>1. Ancestors[last] \subseteq Block
  BY Zenon, TreeAssumption
<1> QED  BY Zenon, <1>1 DEF WireOK, ProcessNewBlockHeaders

(* The HEADERS handler.                                                    *)
LEMMA ProcessHeadersInv ==
  ASSUME IInv, NEW p \in NodeId, NEW t, Receives(p, t),
         NEW prev \in Block, NEW last \in Block, ProcessHeaders(p, prev, last),
         UNCHANGED <<conn, fSyncStarted, nSyncStarted, nPreferredDownload, serves>>
  PROVE  IInv'
<1> USE DEF IInv
<1>1. conn[p] = "up" /\ pindexBestHeader \in Block /\ known \in SUBSET Block
  BY Zenon DEF Receives, WireOK
<1>2. CASE prev \notin known
  <2>1. /\ UpdateBlockAvailability(p, last, known)
        /\ Sends(p, Headers(p, pindexBestHeader))
        /\ UNCHANGED <<flight, index>>
    BY Zenon, <1>2 DEF ProcessHeaders
  <2>2. FlightOK' /\ vBlocksInFlight' = vBlocksInFlight
    BY Zenon, <2>1, SameFlight
  <2>3. ConnOK'
    BY Zenon, <1>1, <2>2, HandlerConn
  <2>4. wire' \in [NodeId -> Seq(Message)]
    BY Zenon, <1>1, <2>1, HeadersSeq, SendsSeq
  <2>5. /\ pindexBestKnownBlock' \in [NodeId -> Block \cup {NoBlock}]
        /\ hashLastUnknownBlock' \in [NodeId -> Block \cup {NoBlock}]
    BY Zenon, <1>1, <2>1, AvailabilityType
  <2> QED  BY Zenon, <2>1, <2>2, <2>3, <2>4, <2>5 DEF WireOK, index
<1>3. CASE prev \in known
  <2> DEFINE fetch == DirectFetch(p, last)
             more == IF Height[last] - Height[prev] = MAX_HEADERS_RESULTS
                     THEN Headers(p, last) ELSE <<>>
             compact == <<[type |-> "cmpctblock", hash |-> last]>>
  <2>1. /\ ProcessNewBlockHeaders(prev, last)
        /\ UpdateBlockAvailability(p, last, known')
        /\ MarkBlockAsInFlight(p, fetch, {}, {})
        /\ \/ \E blocks \in Blocks(fetch) : Sends(p, more \o blocks)
           \/ Sends(p, more \o compact)
    BY Zenon, <1>3 DEF ProcessHeaders
  <2>2. /\ fetch \in SUBSET Block
        /\ \A b \in fetch : mapBlocksInFlight[b] = NoNode
    BY Zenon, DirectFetchSet
  <2>3. more \in Seq(Message) /\ compact \in Seq(Message)
    BY Zenon, HeadersSeq, OneMsg
  <2> HIDE DEF fetch, more, compact
  <2>4. /\ FlightOK'
        /\ \A q \in NodeId \ {p} : vBlocksInFlight'[q] = vBlocksInFlight[q]
    BY Zenon, <2>1, <2>2, InFlightFlight
  <2>5. ConnOK'
    BY Zenon, <1>1, <2>4, HandlerConn
  <2>6. wire' \in [NodeId -> Seq(Message)]
    <3>1. PICK blocks \in Seq(Message) : Sends(p, more \o blocks)
      BY Zenon, <2>1, <2>2, <2>3, BlocksSeq
    <3>2. more \o blocks \in Seq(Message)
      BY <2>3
    <3> QED  BY Zenon, <3>1, <3>2, SendsSeq
  <2>7. known' \in SUBSET Block /\ pindexBestHeader' \in Block
    BY Zenon, <2>1, IndexType
  <2>8. /\ pindexBestKnownBlock' \in [NodeId -> Block \cup {NoBlock}]
        /\ hashLastUnknownBlock' \in [NodeId -> Block \cup {NoBlock}]
    BY Zenon, <2>1, <2>7, AvailabilityType
  <2> QED  BY Zenon, <2>4, <2>5, <2>6, <2>7, <2>8 DEF WireOK
<1> QED  BY Zenon, <1>2, <1>3

(* A received inv.                                                         *)
LEMMA InvInv ==
  ASSUME IInv, NEW p \in NodeId, ReceiveInv(p)
  PROVE  IInv'
<1> USE DEF IInv
<1> DEFINE b == Next1(p).hash
           answers == IF b \notin known /\ ~InFlight(b)
                      THEN Headers(p, pindexBestHeader) ELSE <<>>
<1>1. /\ Receives(p, "inv") /\ Sends(p, answers)
      /\ UpdateBlockAvailability(p, b, known)
      /\ UNCHANGED <<peers, flight, index, serves>>
  BY Zenon DEF ReceiveInv
<1>2. b \in Block
  BY Zenon, <1>1, HashMsg
<1>3. answers \in Seq(Message)
  BY HeadersSeq DEF WireOK
<1> HIDE DEF b, answers
<1>4. FlightOK' /\ vBlocksInFlight' = vBlocksInFlight
  BY Zenon, <1>1, SameFlight
<1>5. ConnOK'
  BY Zenon, <1>1, <1>4 DEF ConnOK, peers
<1>6. wire' \in [NodeId -> Seq(Message)]
  BY Zenon, <1>1, <1>3, SendsSeq
<1>7. /\ pindexBestKnownBlock' \in [NodeId -> Block \cup {NoBlock}]
      /\ hashLastUnknownBlock' \in [NodeId -> Block \cup {NoBlock}]
  BY Zenon, <1>1, <1>2, AvailabilityType DEF WireOK
<1> QED  BY Zenon, <1>1, <1>4, <1>5, <1>6, <1>7 DEF WireOK, index

(* What the BLOCK and BLOCKTXN handlers leave alone.                       *)
LEMMA AnswerInv ==
  ASSUME IInv, NEW p \in NodeId, NEW t, Receives(p, t),
         NEW answers \in Seq(Message), Sends(p, answers),
         FlightOK',
         \A q \in NodeId : vBlocksInFlight'[q] \subseteq vBlocksInFlight[q],
         conn' = conn \/ Misbehaving(p),
         UNCHANGED <<fSyncStarted, nSyncStarted, nPreferredDownload, avail,
                     index, serves>>
  PROVE  IInv'
<1> USE DEF IInv
<1>1. ConnOK'
  BY Zenon, HandlerConn DEF Receives
<1>2. wire' \in [NodeId -> Seq(Message)]
  BY Zenon, SendsSeq
<1> QED  BY Zenon, <1>1, <1>2 DEF WireOK, avail, index

(* A received block.                                                       *)
LEMMA BlockInv ==
  ASSUME IInv, NEW p \in NodeId, ReceiveBlock(p)
  PROVE  IInv'
<1> DEFINE b == Next1(p).hash
<1>1. /\ Receives(p, "block") /\ MarkBlockAsReceived(b) /\ Sends(p, <<>>)
      /\ conn' = conn \/ Misbehaving(p)
      /\ UNCHANGED <<fSyncStarted, nSyncStarted, nPreferredDownload, avail,
                     index, serves>>
  BY Zenon DEF ReceiveBlock
<1>2. b \in Block
  BY Zenon, <1>1, HashMsg DEF IInv
<1> HIDE DEF b
<1>3. /\ FlightOK'
      /\ \A q \in NodeId : vBlocksInFlight'[q] \subseteq vBlocksInFlight[q]
  BY Zenon, <1>1, <1>2, ReceivedFlight DEF IInv
<1>4. <<>> \in Seq(Message)
  OBVIOUS
<1> QED  BY Zenon, <1>1, <1>3, <1>4, AnswerInv

(* Received block transactions.                                            *)
LEMMA BlockTxnInv ==
  ASSUME IInv, NEW p \in NodeId, ReceiveBlockTxn(p)
  PROVE  IInv'
<1> DEFINE b == Next1(p).hash
<1>1. /\ Receives(p, "blocktxn")
      /\ FillBlock(p, b) \/ (Sends(p, <<>>) /\ UNCHANGED <<flight, conn>>)
      /\ UNCHANGED <<fSyncStarted, nSyncStarted, nPreferredDownload, avail,
                     index, serves>>
  BY Zenon DEF ReceiveBlockTxn
<1>2. b \in Block
  BY Zenon, <1>1, HashMsg DEF IInv
<1> HIDE DEF b
<1>3. PICK answers \in {<<>>, <<BlockMsg(b)>>} :
        /\ Sends(p, answers)
        /\ MarkBlockAsReceived(b) \/ UNCHANGED flight
        /\ conn' = conn \/ Misbehaving(p)
  BY Zenon, <1>1 DEF FillBlock
<1>4. /\ FlightOK'
      /\ \A q \in NodeId : vBlocksInFlight'[q] \subseteq vBlocksInFlight[q]
  BY Zenon, <1>2, <1>3, ReceivedFlight, SameFlight DEF IInv
<1>5. answers \in Seq(Message)
  BY Zenon, <1>2, OneMsg
<1> QED  BY Zenon, <1>1, <1>3, <1>4, <1>5, AnswerInv

(* A received headers message.                                             *)
LEMMA HeadersInv ==
  ASSUME IInv, NEW p \in NodeId, ReceiveHeaders(p)
  PROVE  IInv'
<1>1. /\ Receives(p, "headers")
      /\ ProcessHeaders(p, Next1(p).prev, Next1(p).last)
      /\ UNCHANGED <<conn, fSyncStarted, nSyncStarted, nPreferredDownload, serves>>
  BY Zenon DEF ReceiveHeaders, peers
<1>2. Next1(p).prev \in Block /\ Next1(p).last \in Block
  BY Zenon, <1>1, HeadersMsg DEF IInv
<1> QED  BY Zenon, <1>1, <1>2, ProcessHeadersInv

(* A compact block becomes the entry of p.                                 *)
LEMMA StartPartialFlight ==
  ASSUME FlightOK, NEW p \in NodeId, NEW b \in Block,
         mapBlocksInFlight[b] \in {p, NoNode}, StartPartial(p, b)
  PROVE  /\ FlightOK'
         /\ \A q \in NodeId \ {p} : vBlocksInFlight'[q] = vBlocksInFlight[q]
<1> DEFINE S == {b} \ vBlocksInFlight[p]
<1>1. S \in SUBSET Block /\ \A c \in S : mapBlocksInFlight[c] = NoNode
  BY DEF FlightOK
<1>2. MarkBlockAsInFlight(p, S, {b}, {})
  BY Zenon DEF StartPartial
<1> HIDE DEF S
<1> QED  BY Zenon, <1>1, <1>2, InFlightFlight

(* The same and received in one handler.                                   *)
LEMMA StartAndFinishFlight ==
  ASSUME FlightOK, NEW p \in NodeId, NEW b \in Block, StartAndFinish(p, b)
  PROVE  /\ FlightOK'
         /\ \A q \in NodeId : vBlocksInFlight'[q] \subseteq vBlocksInFlight[q]
<1>1. CASE InFlight(b)
  BY Zenon, <1>1, ReceivedFlight DEF StartAndFinish
<1>2. CASE ~InFlight(b)
  BY <1>2 DEF StartAndFinish, FlightOK
<1> QED  BY Zenon, <1>1, <1>2

(* What the CMPCTBLOCK handler leaves alone.                               *)
LEMMA CompactAnswerInv ==
  ASSUME IInv, NEW p \in NodeId, NEW t, Receives(p, t),
         NEW b \in Block, HashPrev[b] \in Block,
         NEW answers \in Seq(Message), Sends(p, answers),
         FlightOK',
         \A q \in NodeId \ {p} : vBlocksInFlight'[q] \subseteq vBlocksInFlight[q],
         conn' = conn \/ Misbehaving(p),
         ProcessNewBlockHeaders(HashPrev[b], b),
         UpdateBlockAvailability(p, b, known'),
         UNCHANGED <<fSyncStarted, nSyncStarted, nPreferredDownload, serves>>
  PROVE  IInv'
<1> USE DEF IInv
<1>1. ConnOK'
  BY Zenon, HandlerConn DEF Receives
<1>2. wire' \in [NodeId -> Seq(Message)]
  BY Zenon, SendsSeq
<1>3. known' \in SUBSET Block /\ pindexBestHeader' \in Block
  BY Zenon, IndexType
<1>4. /\ pindexBestKnownBlock' \in [NodeId -> Block \cup {NoBlock}]
      /\ hashLastUnknownBlock' \in [NodeId -> Block \cup {NoBlock}]
  BY Zenon, <1>3, AvailabilityType
<1> QED  BY Zenon, <1>1, <1>2, <1>3, <1>4 DEF WireOK

(* A compact block whose header is accepted.                               *)
LEMMA CompactBlockInv ==
  ASSUME IInv, NEW p \in NodeId, NEW t, Receives(p, t),
         NEW b \in Block, HashPrev[b] \in Block, CompactBlock(p, b),
         UNCHANGED <<fSyncStarted, nSyncStarted, nPreferredDownload, serves>>
  PROVE  IInv'
<1> DEFINE accept == /\ ProcessNewBlockHeaders(HashPrev[b], b)
                     /\ UpdateBlockAvailability(p, b, known')
           quiet == /\ \/ Sends(p, <<>>) \/ Sends(p, <<BlockMsg(b)>>)
                    /\ \/ UNCHANGED flight \/ MarkBlockAsReceived(b)
                    /\ UNCHANGED conn
<1>1. \/ accept /\ quiet
      \/ accept /\ mapBlocksInFlight[b] \in {p, NoNode} /\ InitData(p, b)
      \/ ProcessHeaders(p, HashPrev[b], b) /\ UNCHANGED conn
  BY Zenon DEF CompactBlock, InFlight
<1>2. CASE accept /\ quiet
  <2>1. /\ FlightOK'
        /\ \A q \in NodeId : vBlocksInFlight'[q] \subseteq vBlocksInFlight[q]
    BY Zenon, <1>2, SameFlight, ReceivedFlight DEF IInv
  <2>2. PICK answers \in Seq(Message) : Sends(p, answers)
    BY Zenon, <1>2, OneMsg
  <2> QED  BY Zenon, <1>2, <2>1, <2>2, CompactAnswerInv
<1>3. CASE accept /\ mapBlocksInFlight[b] \in {p, NoNode} /\ InitData(p, b)
  <2>1. /\ StartPartial(p, b) \/ StartAndFinish(p, b)
        /\ \/ Sends(p, <<>>) \/ Sends(p, <<BlockMsg(b)>>)
           \/ Sends(p, <<[type |-> "blocktxn", hash |-> b]>>)
        /\ conn' = conn \/ Misbehaving(p)
    BY Zenon, <1>3 DEF InitData
  <2>2. /\ FlightOK'
        /\ \A q \in NodeId \ {p} : vBlocksInFlight'[q] \subseteq vBlocksInFlight[q]
    <3>1. CASE StartPartial(p, b)
      BY Zenon, <1>3, <3>1, StartPartialFlight DEF IInv
    <3>2. CASE StartAndFinish(p, b)
      BY Zenon, <3>2, StartAndFinishFlight DEF IInv
    <3> QED  BY Zenon, <2>1, <3>1, <3>2
  <2>3. PICK answers \in Seq(Message) : Sends(p, answers)
    BY Zenon, <2>1, OneMsg
  <2> QED  BY Zenon, <1>3, <2>1, <2>2, <2>3, CompactAnswerInv
<1>4. CASE ProcessHeaders(p, HashPrev[b], b) /\ UNCHANGED conn
  BY Zenon, <1>4, ProcessHeadersInv
<1> QED  BY Zenon, <1>1, <1>2, <1>3, <1>4

(* A received compact block.                                               *)
LEMMA CmpctBlockInv ==
  ASSUME IInv, NEW p \in NodeId, ReceiveCmpctBlock(p)
  PROVE  IInv'
<1> DEFINE b == Next1(p).hash
           answers == IF IsInitialBlockDownload
                      THEN <<>> ELSE Headers(p, pindexBestHeader)
<1>1. /\ Receives(p, "cmpctblock")
      /\ UNCHANGED <<fSyncStarted, nSyncStarted, nPreferredDownload, serves>>
      /\ \/ Sends(p, answers) /\ UNCHANGED <<index, avail, flight, conn>>
         \/ /\ UpdateBlockAvailability(p, b, known) /\ Sends(p, <<>>)
            /\ UNCHANGED <<index, flight, conn>>
         \/ HashPrev[b] \in known /\ CompactBlock(p, b)
  BY Zenon DEF ReceiveCmpctBlock
<1>2. b \in Block
  BY Zenon, <1>1, HashMsg DEF IInv
<1>3. answers \in Seq(Message) /\ <<>> \in Seq(Message)
  BY HeadersSeq DEF WireOK, IInv
<1> HIDE DEF b, answers
<1>4. CASE Sends(p, answers) /\ UNCHANGED <<index, avail, flight, conn>>
  <2>1. FlightOK' /\ vBlocksInFlight' = vBlocksInFlight
    BY Zenon, <1>4, SameFlight DEF IInv
  <2> QED  BY Zenon, <1>1, <1>3, <1>4, <2>1, AnswerInv
<1>5. CASE /\ UpdateBlockAvailability(p, b, known) /\ Sends(p, <<>>)
           /\ UNCHANGED <<index, flight, conn>>
  <2>1. FlightOK' /\ vBlocksInFlight' = vBlocksInFlight
    BY Zenon, <1>5, SameFlight DEF IInv
  <2>2. ConnOK'
    BY Zenon, <1>1, <1>5, <2>1 DEF IInv, ConnOK
  <2>3. wire' \in [NodeId -> Seq(Message)]
    BY Zenon, <1>1, <1>3, <1>5, SendsSeq DEF IInv
  <2>4. /\ pindexBestKnownBlock' \in [NodeId -> Block \cup {NoBlock}]
        /\ hashLastUnknownBlock' \in [NodeId -> Block \cup {NoBlock}]
    BY Zenon, <1>2, <1>5, AvailabilityType DEF IInv, WireOK
  <2> QED  BY Zenon, <1>1, <1>5, <2>1, <2>2, <2>3, <2>4 DEF IInv, WireOK, index
<1>6. CASE HashPrev[b] \in known /\ CompactBlock(p, b)
  <2>1. HashPrev[b] \in Block
    BY Zenon, <1>6 DEF IInv, WireOK
  <2> QED  BY Zenon, <1>1, <1>2, <1>6, <2>1, CompactBlockInv
<1> QED  BY Zenon, <1>1, <1>4, <1>5, <1>6

(* The blocks FindNextBlocksToDownload finds are not in flight, and the    *)
(* staller it finds holds a block.                                         *)
LEMMA FindNextSet ==
  ASSUME FlightOK, NEW p \in NodeId, NEW best \in Block \cup {NoBlock}, NEW count
  PROVE  LET found == FindNextBlocksToDownload(p, best, count)
         IN /\ found.blocks \in SUBSET Block
            /\ \A b \in found.blocks : mapBlocksInFlight[b] = NoNode
            /\ found.staller \in SUBSET NodeId
            /\ \A q \in found.staller : vBlocksInFlight[q] # {}
<1> DEFINE common == LastCommonAncestor(
                       IF pindexLastCommonBlock[p] = NoBlock
                       THEN AncestorAt(tip, Lower(Height[best], Height[tip]))
                       ELSE pindexLastCommonBlock[p], best)
           nWindowEnd == Height[common] + BLOCK_DOWNLOAD_WINDOW
           walk == {b \in Ancestors[best] \ Ancestors[common] :
                      Height[b] <= nWindowEnd + 1}
           wanted == {b \in walk \ data :
                        ~InFlight(b) /\ Height[b] <= nWindowEnd}
           waitingfor == {mapBlocksInFlight[b] :
                            b \in Lowest({c \in walk \ data : InFlight(c)}, 1)}
           found == FindNextBlocksToDownload(p, best, count)
<1>1. \/ found.blocks = {} /\ found.staller = {}
      \/ /\ best # NoBlock /\ found.blocks = Lowest(wanted, count)
         /\ found.staller = {} \/ found.staller = waitingfor \ {p}
  BY Zenon DEF FindNextBlocksToDownload
<1>2. ASSUME best # NoBlock
      PROVE  walk \in SUBSET Block
  BY Zenon, <1>2, TreeAssumption
<1> HIDE DEF found, walk
<1>3. ASSUME best # NoBlock
      PROVE  /\ Lowest(wanted, count) \in SUBSET Block
             /\ \A b \in Lowest(wanted, count) : mapBlocksInFlight[b] = NoNode
  BY Zenon, <1>2, <1>3 DEF Lowest, InFlight
<1>4. ASSUME best # NoBlock
      PROVE  /\ waitingfor \in SUBSET NodeId
             /\ \A q \in waitingfor : vBlocksInFlight[q] # {}
  <2> SUFFICES ASSUME NEW q \in waitingfor
               PROVE  q \in NodeId /\ vBlocksInFlight[q] # {}
    BY Zenon
  <2>1. PICK b \in walk : InFlight(b) /\ q = mapBlocksInFlight[b]
    BY Zenon DEF Lowest
  <2>2. b \in Block
    BY Zenon, <1>2, <1>4, <2>1
  <2> QED  BY <2>1, <2>2 DEF FlightOK, InFlight
<1> HIDE DEF wanted, waitingfor
<1>5. /\ found.blocks \in SUBSET Block
      /\ \A b \in found.blocks : mapBlocksInFlight[b] = NoNode
      /\ found.staller \in SUBSET NodeId
      /\ \A q \in found.staller : vBlocksInFlight[q] # {}
  BY Zenon, <1>1, <1>3, <1>4
<1> QED  BY Zenon, <1>5 DEF found

(* The first GETHEADERS to a peer.                                         *)
LEMMA InitialHeadersSeq ==
  ASSUME WireOK, NEW p \in NodeId
  PROVE  InitialHeaders(p) \in Seq(Message)
<1>1. pindexBestHeader \in Block
  BY Zenon DEF WireOK
<1>2. pindexBestHeader # Genesis => HashPrev[pindexBestHeader] \in Block
  BY Zenon, <1>1, TreeAssumption
<1>3. \A from \in Block : Headers(p, from) \in Seq(Message)
  BY Zenon, HeadersSeq
<1> QED  BY <1>1, <1>2, <1>3 DEF InitialHeaders

(* A turn of SendMessages.                                                 *)
LEMMA SendMessagesInv ==
  ASSUME IInv, NEW p \in NodeId, SendMessages(p)
  PROVE  IInv'
<1> USE DEF IInv
<1>1. /\ conn[p] = "up" /\ StartBlockSync(p)
      /\ UNCHANGED <<conn, nPreferredDownload, index, serves>>
  BY Zenon DEF SendMessages
<1>2. InitialHeaders(p) \in Seq(Message)
  BY Zenon, InitialHeadersSeq
<1> DEFINE found ==
             FindNextBlocksToDownload(p, pindexBestKnownBlock'[p],
               MAX_BLOCKS_IN_TRANSIT_PER_PEER - nBlocksInFlight[p])
           stalling == IF nBlocksInFlight[p] = 0 /\ found.blocks = {}
                       THEN found.staller ELSE {}
<1>3. \/ /\ UpdateBlockAvailability(p, NoBlock, known)
         /\ \E blocks \in Blocks(found.blocks) :
              /\ MarkBlockAsInFlight(p, found.blocks, {}, stalling)
              /\ wire' = [wire EXCEPT ![p] = @ \o InitialHeaders(p) \o blocks]
      \/ /\ wire' = [wire EXCEPT ![p] = @ \o InitialHeaders(p)]
         /\ UNCHANGED <<avail, flight>>
  BY Zenon DEF SendMessages
<1>4. CASE /\ wire' = [wire EXCEPT ![p] = @ \o InitialHeaders(p)]
           /\ UNCHANGED <<avail, flight>>
  <2>1. FlightOK' /\ vBlocksInFlight' = vBlocksInFlight
    BY Zenon, <1>4, SameFlight
  <2>2. ConnOK'
    BY Zenon, <1>1, <2>1, SyncConn DEF ConnOK
  <2>3. wire' \in [NodeId -> Seq(Message)]
    BY <1>2, <1>4 DEF WireOK
  <2> QED  BY Zenon, <1>1, <1>4, <2>1, <2>2, <2>3 DEF WireOK, avail, index
<1>5. CASE /\ UpdateBlockAvailability(p, NoBlock, known)
           /\ \E blocks \in Blocks(found.blocks) :
                /\ MarkBlockAsInFlight(p, found.blocks, {}, stalling)
                /\ wire' = [wire EXCEPT ![p] = @ \o InitialHeaders(p) \o blocks]
  <2>1. /\ pindexBestKnownBlock' \in [NodeId -> Block \cup {NoBlock}]
        /\ hashLastUnknownBlock' \in [NodeId -> Block \cup {NoBlock}]
    BY Zenon, <1>5, AvailabilityType DEF WireOK
  <2>2. /\ found.blocks \in SUBSET Block
        /\ \A b \in found.blocks : mapBlocksInFlight[b] = NoNode
        /\ found.staller \in SUBSET NodeId
        /\ \A q \in found.staller : vBlocksInFlight[q] # {}
    <3>1. pindexBestKnownBlock'[p] \in Block \cup {NoBlock}
      BY Zenon, <2>1
    <3> QED  BY Zenon, <3>1, FindNextSet
  <2> HIDE DEF found
  <2>3. /\ stalling \in SUBSET NodeId
        /\ \A q \in stalling : vBlocksInFlight[q] # {}
    BY Zenon, <2>2
  <2> HIDE DEF stalling
  <2>4. PICK blocks \in Blocks(found.blocks) :
          /\ MarkBlockAsInFlight(p, found.blocks, {}, stalling)
          /\ wire' = [wire EXCEPT ![p] = @ \o InitialHeaders(p) \o blocks]
    BY Zenon, <1>5
  <2>5. /\ FlightOK'
        /\ \A q \in NodeId \ {p} : vBlocksInFlight'[q] = vBlocksInFlight[q]
    BY Zenon, <2>2, <2>3, <2>4, InFlightFlight
  <2>6. ConnOK'
    BY Zenon, <1>1, <2>5, SyncConn DEF ConnOK
  <2>7. blocks \in Seq(Message)
    BY Zenon, <2>2, BlocksSeq
  <2>8. wire' \in [NodeId -> Seq(Message)]
    BY <1>2, <2>4, <2>7 DEF WireOK
  <2> QED  BY Zenon, <1>1, <2>1, <2>5, <2>6, <2>8 DEF WireOK, index
<1> QED  BY Zenon, <1>3, <1>4, <1>5

(* A clock has run out.                                                    *)
LEMMA TimeoutInv ==
  ASSUME IInv, NEW p \in NodeId, Timeout(p)
  PROVE  IInv'
<1> USE DEF IInv
<1>1. /\ conn[p] = "up" /\ StartBlockSync(p)
      /\ wire' = [wire EXCEPT ![p] = @ \o InitialHeaders(p)]
      /\ conn' = [conn EXCEPT ![p] = "closing"]
      /\ UNCHANGED <<nPreferredDownload, avail, flight, index, serves>>
  BY Zenon DEF Timeout
<1>2. InitialHeaders(p) \in Seq(Message)
  BY Zenon, InitialHeadersSeq
<1>3. FlightOK' /\ vBlocksInFlight' = vBlocksInFlight
  BY Zenon, <1>1, SameFlight
<1>4. /\ conn' \in [NodeId -> {"none", "up", "closing"}]
      /\ \A q \in NodeId : conn'[q] = "none" <=> conn[q] = "none"
  BY Zenon, <1>1 DEF ConnOK
<1>5. ConnOK'
  BY Zenon, <1>1, <1>3, <1>4, SyncConn DEF ConnOK
<1>6. wire' \in [NodeId -> Seq(Message)]
  BY <1>1, <1>2 DEF WireOK
<1> QED  BY Zenon, <1>1, <1>3, <1>5, <1>6 DEF WireOK, avail, index

(* A peer connects.                                                        *)
LEMMA InitializeInv ==
  ASSUME IInv, NEW p \in NodeId, InitializeNode(p)
  PROVE  IInv'
<1>1. FlightOK'
  BY Zenon, SameFlight DEF IInv, InitializeNode
<1>2. ConnOK'
  BY Zenon, InitializeConn DEF IInv
<1>3. serves' \in [NodeId -> Block]
  BY ZenonT(30), DownloadAssumption DEF IInv, WireOK, InitializeNode
<1> QED  BY Zenon, <1>1, <1>2, <1>3 DEF IInv, WireOK, InitializeNode, avail, index

(* A peer hangs up.                                                        *)
LEMMA HangUpInv ==
  ASSUME IInv, NEW p \in NodeId, HangUp(p)
  PROVE  IInv'
<1>1. FlightOK' /\ vBlocksInFlight' = vBlocksInFlight
  BY Zenon, SameFlight DEF IInv, HangUp
<1>2. ConnOK'
  BY Zenon, <1>1, HandlerConn DEF IInv, HangUp, Misbehaving
<1> QED  BY Zenon, <1>1, <1>2 DEF IInv, WireOK, HangUp, avail, index, remote

(* A peer is deleted.                                                      *)
LEMMA FinalizeInv ==
  ASSUME IInv, NEW p \in NodeId, FinalizeNode(p)
  PROVE  IInv'
<1>1. FlightOK' /\ ConnOK'
  BY Zenon, FinalizeFlight, FinalizeConn DEF IInv
<1>2. wire' \in [NodeId -> Seq(Message)]
  BY SMTT(15) DEF IInv, WireOK, FinalizeNode
<1> QED  BY Zenon, <1>1, <1>2 DEF IInv, WireOK, FinalizeNode, index

(* A peer announces its tip.                                               *)
LEMMA AnnounceInv ==
  ASSUME IInv, NEW p \in NodeId, Announce(p)
  PROVE  IInv'
<1>1. PICK b \in Chains[p] \ {Genesis} :
        /\ serves' = [serves EXCEPT ![p] = b]
        /\ \E m \in {[type |-> "inv", hash |-> b],
                     [type |-> "cmpctblock", hash |-> b],
                     [type |-> "headers", prev |-> HashPrev[b], last |-> b]} :
             wire' = [wire EXCEPT ![p] = Append(@, m)]
        /\ UNCHANGED <<peers, avail, flight, index>>
  BY Zenon DEF Announce
<1>2. b \in Block /\ HashPrev[b] \in Block
  BY Zenon, DownloadAssumption, TreeAssumption
<1>3. PICK m \in Message : wire' = [wire EXCEPT ![p] = Append(@, m)]
  BY Zenon, <1>1, <1>2 DEF Message
<1>4. wire' \in [NodeId -> Seq(Message)] /\ serves' \in [NodeId -> Block]
  BY SMTT(15), <1>1, <1>2, <1>3 DEF IInv, WireOK
<1>5. FlightOK' /\ vBlocksInFlight' = vBlocksInFlight
  BY Zenon, <1>1, SameFlight DEF IInv
<1>6. ConnOK'
  BY Zenon, <1>1, <1>5 DEF IInv, ConnOK, peers
<1> QED  BY Zenon, <1>1, <1>4, <1>5, <1>6 DEF IInv, WireOK, avail, index

-----------------------------------------------------------------------------
(* Initially nothing is connected or in flight.                            *)
LEMMA InitInv == Init => IInv
<1> SUFFICES ASSUME Init PROVE IInv
  BY Zenon
<1>1. {p \in NodeId : vBlocksInFlight[p] # {}} = {}
      /\ {p \in Preferred : conn[p] # "none"} = {}
  BY Zenon, DownloadAssumption DEF Init
<1>2. Cardinality({}) = 0
  BY Zenon, FS_EmptySet
<1>3. FlightOK
  <2>1. \A b \in Block, p \in NodeId :
          b \in vBlocksInFlight[p] <=> mapBlocksInFlight[b] = p
    BY Zenon, DownloadAssumption DEF Init
  <2>2. \A p \in NodeId : nBlocksInFlight[p] = Cardinality(vBlocksInFlight[p])
    BY Zenon, <1>2 DEF Init
  <2>3. nPeersWithValidatedDownloads =
          Cardinality({p \in NodeId : vBlocksInFlight[p] # {}})
    BY Zenon, <1>1, <1>2 DEF Init
  <2>4. /\ mapBlocksInFlight \in [Block -> NodeId \cup {NoNode}]
        /\ vBlocksInFlight \in [NodeId -> SUBSET Block]
        /\ nBlocksInFlight \in [NodeId -> Int]
        /\ nStallingSince = {}
    BY DEF Init
  <2> QED  BY Zenon, <2>1, <2>2, <2>3, <2>4 DEF FlightOK
<1>4. ConnOK
  BY Zenon, <1>1, <1>2 DEF Init, ConnOK
<1>5. WireOK
  BY SMTT(15), TreeAssumption DEF Init, WireOK
<1> QED  BY Zenon, <1>3, <1>4, <1>5 DEF IInv

(* Every step keeps the invariant.                                         *)
LEMMA NextInv == IInv /\ [Next]_vars => IInv'
<1> SUFFICES ASSUME IInv, [Next]_vars PROVE IInv'
  BY Zenon
<1>1. CASE UNCHANGED vars
  BY SMTT(15), <1>1 DEF IInv, FlightOK, ConnOK, WireOK, vars, peers, avail, flight, index,
              remote
<1>2. ASSUME NEW p \in NodeId,
             \/ InitializeNode(p) \/ HangUp(p) \/ FinalizeNode(p) \/ Announce(p)
             \/ Receive(p) \/ SendMessages(p) \/ Timeout(p)
      PROVE  IInv'
  BY Zenon, <1>2, InitializeInv, HangUpInv, FinalizeInv, AnnounceInv, InvInv, HeadersInv,
     BlockInv, BlockTxnInv, CmpctBlockInv, SendMessagesInv, TimeoutInv
     DEF Receive
<1> QED  BY Zenon, <1>1, <1>2 DEF Next

(* The inductive invariant holds of every behaviour.                       *)
THEOREM DownloadInvariant == Spec => []IInv
BY InitInv, NextInv, PTL DEF Spec

(* mapBlocksInFlight and the lists of the peers agree, the counters count  *)
(* them, and a deleted peer is in none of them: the assertions of          *)
(* FinalizeNode never fail, for any number of peers and blocks.            *)
THEOREM DownloadStateAlwaysExact == Spec => []DownloadStateExact
<1>1. IInv => DownloadStateExact
  BY Zenon DEF IInv, FlightOK, ConnOK, DownloadStateExact
<1> QED  BY <1>1, DownloadInvariant, PTL

(* A stalling clock never runs against a peer that holds no block, so no   *)
(* peer is dropped as a staller after it has delivered.                    *)
THEOREM StallersAlwaysHoldBlocks == Spec => []StallersHoldBlocks
<1>1. IInv => StallersHoldBlocks
  BY Zenon DEF IInv, FlightOK, StallersHoldBlocks
<1> QED  BY <1>1, DownloadInvariant, PTL

-----------------------------------------------------------------------------
(* What is in flight is owed.                                              *)

(* A message of one of these types about b is among s.                     *)
Carries(s, b, types) ==
  \E i \in 1..Len(s) : s[i].type \in types /\ s[i].hash = b

(* The messages that settle a request: once the compact block has come,    *)
(* it is the missing transactions or the whole block.                      *)
Answers(b) ==
  IF b \in partialBlock THEN {"block", "blocktxn"} ELSE {"block", "cmpctblock"}

(* The known headers are closed under ancestors, the genesis block is      *)
(* stored, and peers are known to have known blocks only.                  *)
IndexOK ==
  /\ \A b \in known : Ancestors[b] \subseteq known
  /\ Genesis \in data
  /\ \A p \in NodeId : pindexBestKnownBlock[p] \in known \cup {NoBlock}

(* A block in flight is known, not stored and its answer is under way; no  *)
(* peer has more of them than the limit; only they have partial blocks.    *)
RequestsOK ==
  /\ partialBlock \subseteq Block /\ \A b \in partialBlock : InFlight(b)
  /\ \A p \in NodeId : nBlocksInFlight[p] <= MAX_BLOCKS_IN_TRANSIT_PER_PEER
  /\ \A p \in NodeId : \A b \in vBlocksInFlight[p] :
       b \in known \ data /\ Carries(wire[p], b, Answers(b))

OweInv == IInv /\ IndexOK /\ RequestsOK

-----------------------------------------------------------------------------
(* Messages under way stay under way when more are sent.                   *)
LEMMA CarriesMore ==
  ASSUME NEW s \in Seq(Message), NEW t \in Seq(Message), NEW b, NEW types,
         Carries(s, b, types) \/ Carries(t, b, types)
  PROVE  Carries(s \o t, b, types)
<1>1. CASE Carries(s, b, types)
  <2>1. PICK i \in 1..Len(s) : s[i].type \in types /\ s[i].hash = b
    BY Zenon, <1>1 DEF Carries
  <2>2. i \in 1..Len(s \o t) /\ (s \o t)[i] = s[i]
    OBVIOUS
  <2> QED  BY Zenon, <2>1, <2>2 DEF Carries
<1>2. CASE Carries(t, b, types)
  <2>1. PICK i \in 1..Len(t) : t[i].type \in types /\ t[i].hash = b
    BY Zenon, <1>2 DEF Carries
  <2>2. Len(s) + i \in 1..Len(s \o t) /\ (s \o t)[Len(s) + i] = t[i]
    OBVIOUS
  <2> QED  BY Zenon, <2>1, <2>2 DEF Carries
<1> QED  BY Zenon, <1>1, <1>2

(* A message about something else is taken off the front.                  *)
LEMMA CarriesTail ==
  ASSUME NEW s \in Seq(Message), s # <<>>, NEW b, NEW types, Carries(s, b, types),
         ~(Head(s).type \in types /\ Head(s).hash = b)
  PROVE  Carries(Tail(s), b, types)
<1>1. PICK i \in 1..Len(s) : s[i].type \in types /\ s[i].hash = b
  BY Zenon DEF Carries
<1>2. Head(s) = s[1]
  OBVIOUS
<1>3. i # 1
  BY Zenon, <1>1, <1>2
<1>4. i - 1 \in 1..Len(Tail(s)) /\ Tail(s)[i - 1] = s[i]
  BY <1>3
<1> QED  BY Zenon, <1>1, <1>4 DEF Carries

(* A single message.                                                       *)
LEMMA CarriesOne ==
  ASSUME NEW m, NEW types, m.type \in types
  PROVE  Carries(<<m>>, m.hash, types)
<1>1. 1 \in 1..Len(<<m>>) /\ <<m>>[1] = m
  OBVIOUS
<1> QED  BY Zenon, <1>1 DEF Carries

(* The answer to a GETDATA has all blocks that were asked for.             *)
LEMMA CarriesBlocks ==
  ASSUME NEW S \in SUBSET Block, NEW m \in Blocks(S), NEW b \in S,
         NEW types, "block" \in types
  PROVE  Carries(m, b, types)
<1> DEFINE n == Cardinality(S)
<1>1. n \in Nat /\ IsFiniteSet(S)
  BY Zenon, Finite
<1>2. PICK f \in [1..n -> S] :
        /\ \A i, j \in 1..n : i < j => Height[f[i]] < Height[f[j]]
        /\ m = [i \in 1..n |-> BlockMsg(f[i])]
  BY Zenon DEF Blocks
<1>3. Cardinality(S \ {b}) = n - 1 /\ IsFiniteSet(S \ {b})
  BY Zenon, <1>1, FS_RemoveElement
<1>4. IsFiniteSet(1..n) /\ Cardinality(1..n) = n
  BY <1>1, FS_Interval
<1> HIDE DEF n
<1>5. \A i, j \in 1..n : i # j => f[i] # f[j]
  <2> SUFFICES ASSUME NEW i \in 1..n, NEW j \in 1..n, i # j, f[i] = f[j] PROVE FALSE
    BY Zenon
  <2>1. Height[f[i]] \in Nat
    BY Zenon, TreeAssumption
  <2>2. ~(Height[f[i]] < Height[f[j]]) /\ ~(Height[f[j]] < Height[f[i]])
    BY <2>1
  <2>3. i < j \/ j < i
    BY <1>1
  <2> QED  BY Zenon, <1>2, <2>2, <2>3
<1>6. \E i \in 1..n : f[i] = b
  <2> SUFFICES ASSUME \A i \in 1..n : f[i] # b PROVE FALSE
    BY Zenon
  <2>1. f \in [1..n -> S \ {b}]
    BY Zenon
  <2>2. Cardinality(S \ {b}) < Cardinality(1..n)
    BY <1>1, <1>3, <1>4
  <2>3. \E x, y \in 1..n : x # y /\ f[x] = f[y]
    BY Zenon, <1>3, <1>4, <2>1, <2>2, FS_PigeonHole
  <2> QED  BY Zenon, <1>5, <2>3
<1>7. PICK i \in 1..n : f[i] = b
  BY Zenon, <1>6
<1>8. Len(m) = n
  BY <1>1, <1>2
<1>9. m[i].type = "block" /\ m[i].hash = b
  BY Zenon, <1>2, <1>7 DEF BlockMsg
<1> QED  BY Zenon, <1>8, <1>9 DEF Carries

(* The whole block answers any request for it.                             *)
LEMMA BlockCarries ==
  ASSUME NEW b PROVE Carries(<<BlockMsg(b)>>, b, Answers(b))
<1>1. BlockMsg(b).type \in Answers(b) /\ BlockMsg(b).hash = b
  BY DEF BlockMsg, Answers
<1>2. Carries(<<BlockMsg(b)>>, BlockMsg(b).hash, Answers(b))
  BY Zenon, <1>1, CarriesOne
<1> QED  BY Zenon, <1>1, <1>2

(* The lowest n blocks of a chain are at most n.                           *)
LEMMA LowestCount ==
  ASSUME NEW top \in Block, NEW S \in SUBSET Ancestors[top], NEW n \in Nat
  PROVE  Lowest(S, n) \subseteq S /\ Cardinality(Lowest(S, n)) <= n
<1> DEFINE L == Lowest(S, n)
           below(b) == {c \in S : Height[c] < Height[b]}
           rank == [b \in L |-> Cardinality(below(b))]
<1>1. L \subseteq S /\ \A b \in L : Cardinality(below(b)) < n
  BY Zenon DEF Lowest
<1>2. S \in SUBSET Block /\ \A b \in S : Height[b] \in Nat
  BY Zenon, TreeAssumption
<1>3. \A b : IsFiniteSet(below(b)) /\ Cardinality(below(b)) \in Nat
  <2> SUFFICES ASSUME NEW b PROVE IsFiniteSet(below(b)) /\ Cardinality(below(b)) \in Nat
    BY Zenon
  <2>1. below(b) \in SUBSET Block
    BY Zenon, <1>2
  <2> QED  BY Zenon, <2>1, Finite
<1>4. IsFiniteSet(L) /\ Cardinality(L) \in Nat
  BY Zenon, <1>1, <1>2, Finite
<1>5. \A x, y \in S : Height[x] < Height[y] => Cardinality(below(x)) < Cardinality(below(y))
  <2> SUFFICES ASSUME NEW x \in S, NEW y \in S, Height[x] < Height[y]
               PROVE  Cardinality(below(x)) < Cardinality(below(y))
    BY Zenon
  <2>1. x \notin below(x) /\ below(x) \cup {x} \in SUBSET below(y)
    BY <1>2
  <2> HIDE DEF below
  <2>2. Cardinality(below(x) \cup {x}) = Cardinality(below(x)) + 1
    BY Zenon, <1>3, <2>1, AddOne
  <2>3. Cardinality(below(x) \cup {x}) <= Cardinality(below(y))
    BY Zenon, <1>3, <2>1, FS_Subset
  <2>4. Cardinality(below(x)) \in Nat /\ Cardinality(below(y)) \in Nat
    BY Zenon, <1>3
  <2> QED  BY <2>2, <2>3, <2>4
<1>6. \A x, y \in S : x # y => Cardinality(below(x)) # Cardinality(below(y))
  <2> SUFFICES ASSUME NEW x \in S, NEW y \in S, x # y,
                      Cardinality(below(x)) = Cardinality(below(y))
               PROVE  FALSE
    BY Zenon
  <2> HIDE DEF below
  <2>1. Height[x] # Height[y]
    BY Zenon, TreeAssumption
  <2>2. Height[x] < Height[y] \/ Height[y] < Height[x]
    BY <1>2, <2>1
  <2>3. Cardinality(below(x)) < Cardinality(below(y))
          \/ Cardinality(below(y)) < Cardinality(below(x))
    BY Zenon, <1>5, <2>2
  <2>4. Cardinality(below(x)) \in Nat
    BY Zenon, <1>3
  <2> QED  BY <2>3, <2>4
<1>7. IsFiniteSet(0..(n - 1)) /\ Cardinality(0..(n - 1)) = n
  BY FS_Interval
<1> HIDE DEF L, below
<1>8. rank \in [L -> 0..(n - 1)]
  <2> SUFFICES ASSUME NEW b \in L PROVE Cardinality(below(b)) \in 0..(n - 1)
    BY Zenon
  <2>1. Cardinality(below(b)) \in Nat /\ Cardinality(below(b)) < n
    BY Zenon, <1>1, <1>3
  <2> QED  BY <2>1
<1>9. ~(n < Cardinality(L))
  <2> SUFFICES ASSUME n < Cardinality(L) PROVE FALSE
    BY Zenon
  <2>1. PICK x \in L, y \in L : x # y /\ rank[x] = rank[y]
    <3> HIDE DEF rank
    <3> QED  BY Zenon, <1>4, <1>7, <1>8, FS_PigeonHole
  <2> QED  BY Zenon, <1>1, <1>6, <2>1
<1>10. Cardinality(L) <= n
  BY <1>4, <1>9
<1> QED  BY Zenon, <1>1, <1>10 DEF L

-----------------------------------------------------------------------------
(* The block index.                                                        *)

(* Accepted headers keep the index closed, up to the last of them.         *)
LEMMA HeadersIndex ==
  ASSUME WireOK, IndexOK, NEW prev \in known, NEW last \in Block,
         ProcessNewBlockHeaders(prev, last)
  PROVE  /\ known \subseteq known' /\ Ancestors[last] \subseteq known'
         /\ \A b \in known' : Ancestors[b] \subseteq known'
<1>1. known' = known \cup (Ancestors[last] \ Ancestors[prev])
  BY Zenon DEF ProcessNewBlockHeaders
<1>2. Ancestors[prev] \subseteq known
  BY Zenon DEF IndexOK
<1>3. known \subseteq known' /\ Ancestors[last] \subseteq known'
  BY Zenon, <1>1, <1>2
<1>4. \A b \in Ancestors[last] : Ancestors[b] \subseteq Ancestors[last]
  BY Zenon, TreeAssumption
<1> QED  BY Zenon, <1>1, <1>3, <1>4 DEF IndexOK

(* What a peer is known to have is known.                                  *)
LEMMA AvailabilityKnown ==
  ASSUME WireOK, IndexOK, NEW p \in NodeId, NEW b, NEW headers, known \subseteq headers,
         NoBlock \notin headers, UpdateBlockAvailability(p, b, headers)
  PROVE  \A q \in NodeId : pindexBestKnownBlock'[q] \in headers \cup {NoBlock}
<1>1. \A q \in NodeId : pindexBestKnownBlock[q] \in headers \cup {NoBlock}
  BY Zenon DEF IndexOK
<1> QED  BY Zenon, <1>1 DEF WireOK, UpdateBlockAvailability

(* A received block adds at most itself to what is stored.                 *)
LEMMA StoredBlock ==
  ASSUME NEW b, NEW force, ProcessNewBlock(b, force)
  PROVE  data \subseteq data' /\ data' \subseteq data \cup {b}
BY Zenon DEF ProcessNewBlock

-----------------------------------------------------------------------------
(* The requests.                                                           *)

(* Nothing is added to what is in flight.                                  *)
Shrinks ==
  /\ \A q \in NodeId : vBlocksInFlight'[q] \subseteq vBlocksInFlight[q]
  /\ \A q \in NodeId : \A c \in vBlocksInFlight'[q] :
       c \in partialBlock' <=> c \in partialBlock
  /\ partialBlock' \subseteq Block /\ \A c \in partialBlock' : InFlight(c)'
  /\ \A q \in NodeId : nBlocksInFlight'[q] <= MAX_BLOCKS_IN_TRANSIT_PER_PEER

(* A step that leaves the record alone.                                    *)
LEMMA SameShrinks ==
  ASSUME RequestsOK, UNCHANGED flight PROVE Shrinks
BY Zenon DEF RequestsOK, Shrinks, flight, InFlight

(* MarkBlockAsReceived takes the block from every list.                    *)
LEMMA ReceivedShrinks ==
  ASSUME FlightOK, RequestsOK, NEW b \in Block, MarkBlockAsReceived(b)
  PROVE  Shrinks /\ \A q \in NodeId : b \notin vBlocksInFlight'[q]
<1> DEFINE p == mapBlocksInFlight[b]
<1>1. CASE p = NoNode
  <2>1. UNCHANGED flight
    BY Zenon, <1>1 DEF MarkBlockAsReceived
  <2>2. \A q \in NodeId : b \notin vBlocksInFlight[q]
    BY <1>1, DownloadAssumption DEF FlightOK
  <2>3. vBlocksInFlight' = vBlocksInFlight
    BY Zenon, <2>1 DEF flight
  <2> QED  BY Zenon, <2>1, <2>2, <2>3, SameShrinks
<1>2. CASE p # NoNode
  <2>1. p \in NodeId
    BY <1>2 DEF FlightOK
  <2>2. /\ mapBlocksInFlight' = [mapBlocksInFlight EXCEPT ![b] = NoNode]
        /\ vBlocksInFlight' = [vBlocksInFlight EXCEPT ![p] = @ \ {b}]
        /\ nBlocksInFlight' = [nBlocksInFlight EXCEPT ![p] = @ - 1]
        /\ partialBlock' = partialBlock \ {b}
    BY Zenon, <1>2 DEF MarkBlockAsReceived
  <2>3. \A q \in NodeId : vBlocksInFlight'[q] = vBlocksInFlight[q] \ {b}
    <3> SUFFICES ASSUME NEW q \in NodeId
                 PROVE  vBlocksInFlight'[q] = vBlocksInFlight[q] \ {b}
      BY Zenon
    <3>1. CASE q = p
      BY Zenon, <2>1, <2>2, <3>1 DEF FlightOK
    <3>2. CASE q # p
      <4>1. vBlocksInFlight'[q] = vBlocksInFlight[q]
        BY Zenon, <2>2, <3>2 DEF FlightOK
      <4>2. b \notin vBlocksInFlight[q]
        BY Zenon, <3>2 DEF FlightOK
      <4> QED  BY Zenon, <4>1, <4>2
    <3> QED  BY Zenon, <3>1, <3>2
  <2>4. \A c \in Block \ {b} : mapBlocksInFlight'[c] = mapBlocksInFlight[c]
    BY <2>2 DEF FlightOK
  <2>5. partialBlock' \subseteq Block /\ \A c \in partialBlock' : InFlight(c)'
    BY Zenon, <2>2, <2>4 DEF RequestsOK, InFlight
  <2>6. \A q \in NodeId : nBlocksInFlight'[q] <= MAX_BLOCKS_IN_TRANSIT_PER_PEER
    <3> SUFFICES ASSUME NEW q \in NodeId
                 PROVE  nBlocksInFlight'[q] <= MAX_BLOCKS_IN_TRANSIT_PER_PEER
      BY Zenon
    <3>1. nBlocksInFlight'[q] \in {nBlocksInFlight[q], nBlocksInFlight[q] - 1}
      BY <2>1, <2>2 DEF FlightOK
    <3>2. nBlocksInFlight[q] \in Int
          /\ nBlocksInFlight[q] <= MAX_BLOCKS_IN_TRANSIT_PER_PEER
          /\ MAX_BLOCKS_IN_TRANSIT_PER_PEER \in Nat
      BY Zenon, DownloadAssumption DEF FlightOK, RequestsOK
    <3> QED  BY <3>1, <3>2
  <2>7. \A q \in NodeId : \A c \in vBlocksInFlight'[q] :
          c \in partialBlock' <=> c \in partialBlock
    BY Zenon, <2>2, <2>3
  <2> QED  BY Zenon, <2>3, <2>5, <2>6, <2>7 DEF Shrinks
<1> QED  BY Zenon, <1>1, <1>2

(* So does a compact block that is completed in its handler.               *)
LEMMA FinishShrinks ==
  ASSUME FlightOK, RequestsOK, NEW p \in NodeId, NEW b \in Block, StartAndFinish(p, b)
  PROVE  Shrinks /\ \A q \in NodeId : b \notin vBlocksInFlight'[q]
<1>1. CASE InFlight(b)
  BY Zenon, <1>1, ReceivedShrinks DEF StartAndFinish
<1>2. CASE ~InFlight(b)
  <2>1. UNCHANGED <<mapBlocksInFlight, vBlocksInFlight, nBlocksInFlight, partialBlock>>
    BY Zenon, <1>2 DEF StartAndFinish
  <2>2. \A q \in NodeId : b \notin vBlocksInFlight[q]
    BY <1>2, DownloadAssumption DEF FlightOK, InFlight
  <2> QED  BY Zenon, <2>1, <2>2 DEF Shrinks, RequestsOK, InFlight
<1> QED  BY Zenon, <1>1, <1>2

(* A received message that settles nothing, or whose block is settled or   *)
(* asked for again, leaves all requests owed.                              *)
LEMMA AnswerRequests ==
  ASSUME IInv, RequestsOK, NEW p \in NodeId, NEW t, Receives(p, t), Shrinks,
         NEW answers \in Seq(Message), Sends(p, answers), known \subseteq known',
         \A q \in NodeId : \A c \in vBlocksInFlight'[q] : c \notin data' \ data,
         \A c \in vBlocksInFlight'[p] :
           \/ ~(t \in Answers(c) /\ Next1(p).hash = c)
           \/ Carries(answers, c, Answers(c))
  PROVE  RequestsOK'
<1>1. wire[p] \in Seq(Message) /\ wire[p] # <<>> /\ Tail(wire[p]) \in Seq(Message)
      /\ Head(wire[p]).type = t /\ Head(wire[p]) = Next1(p)
  BY Zenon, HeadMsg DEF IInv, WireOK, Receives, Next1
<1>2. /\ wire'[p] = Tail(wire[p]) \o answers
      /\ \A q \in NodeId \ {p} : wire'[q] = wire[q]
  BY Zenon DEF Sends, IInv, WireOK
<1>3. ASSUME NEW q \in NodeId, NEW c \in vBlocksInFlight'[q]
      PROVE  c \in known' \ data' /\ Carries(wire'[q], c, Answers(c)')
  <2>1. c \in vBlocksInFlight[q] /\ (c \in partialBlock' <=> c \in partialBlock)
    BY Zenon, <1>3 DEF Shrinks
  <2>2. c \in known \ data /\ Carries(wire[q], c, Answers(c))
    BY Zenon, <2>1 DEF RequestsOK
  <2>3. Answers(c)' = Answers(c)
    BY Zenon, <2>1 DEF Answers
  <2>4. Carries(wire'[q], c, Answers(c))
    <3>1. CASE q # p
      BY Zenon, <1>2, <2>2, <3>1
    <3>2. CASE q = p
      <4>1. Carries(Tail(wire[p]), c, Answers(c)) \/ Carries(answers, c, Answers(c))
        BY Zenon, <1>1, <1>3, <2>2, <3>2, CarriesTail
      <4> QED  BY Zenon, <1>1, <1>2, <3>2, <4>1, CarriesMore
    <3> QED  BY Zenon, <3>1, <3>2
  <2> QED  BY Zenon, <1>3, <2>2, <2>3, <2>4
<1>4. \A q \in NodeId : \A c \in vBlocksInFlight'[q] :
        c \in known' \ data' /\ Carries(wire'[q], c, Answers(c)')
  BY Zenon, <1>3
<1> QED  BY Zenon, <1>4 DEF RequestsOK, Shrinks

(* More messages under way leave all requests owed.                        *)
LEMMA MoreRequests ==
  ASSUME IInv, RequestsOK, NEW p \in NodeId, NEW more \in Seq(Message),
         wire' = [wire EXCEPT ![p] = @ \o more], UNCHANGED <<flight, known, data>>
  PROVE  RequestsOK'
<1>1. wire \in [NodeId -> Seq(Message)]
  BY Zenon DEF IInv, WireOK
<1>2. /\ wire'[p] = wire[p] \o more
      /\ \A q \in NodeId \ {p} : wire'[q] = wire[q]
  BY Zenon, <1>1
<1>3. \A q \in NodeId : \A c, types :
        Carries(wire[q], c, types) => Carries(wire'[q], c, types)
  <2> SUFFICES ASSUME NEW q \in NodeId, NEW c, NEW types, Carries(wire[q], c, types)
               PROVE  Carries(wire'[q], c, types)
    BY Zenon
  <2>1. CASE q # p
    BY Zenon, <1>2, <2>1
  <2>2. CASE q = p
    BY Zenon, <1>1, <1>2, <2>2, CarriesMore
  <2> QED  BY Zenon, <2>1, <2>2
<1> QED  BY Zenon, <1>3 DEF RequestsOK, flight, InFlight, Answers

(* New requests are owed if their answers are under way.                   *)
LEMMA NewRequests ==
  ASSUME IInv, RequestsOK, NEW p \in NodeId, NEW S \in SUBSET Block,
         \A b \in S : mapBlocksInFlight[b] = NoNode,
         NEW partial \in SUBSET (vBlocksInFlight[p] \cup S), NEW stalling,
         MarkBlockAsInFlight(p, S, partial, stalling),
         nBlocksInFlight[p] + Cardinality(S) <= MAX_BLOCKS_IN_TRANSIT_PER_PEER,
         known \subseteq known', data' = data, S \subseteq known' \ data,
         \A q \in NodeId \ {p} : wire'[q] = wire[q],
         \A c \in vBlocksInFlight[p] \cup S : Carries(wire'[p], c, Answers(c)')
  PROVE  RequestsOK'
<1>1. /\ mapBlocksInFlight' =
           [b \in Block |-> IF b \in S THEN p ELSE mapBlocksInFlight[b]]
      /\ vBlocksInFlight' = [vBlocksInFlight EXCEPT ![p] = @ \cup S]
      /\ nBlocksInFlight' = [nBlocksInFlight EXCEPT ![p] = @ + Cardinality(S)]
      /\ partialBlock' = partialBlock \cup partial
  BY Zenon DEF MarkBlockAsInFlight
<1>2. /\ vBlocksInFlight'[p] = vBlocksInFlight[p] \cup S
      /\ \A q \in NodeId \ {p} : vBlocksInFlight'[q] = vBlocksInFlight[q]
  BY <1>1 DEF IInv, FlightOK
<1>3. \A q \in NodeId : nBlocksInFlight'[q] <= MAX_BLOCKS_IN_TRANSIT_PER_PEER
  <2>1. /\ nBlocksInFlight'[p] = nBlocksInFlight[p] + Cardinality(S)
        /\ \A q \in NodeId \ {p} : nBlocksInFlight'[q] = nBlocksInFlight[q]
    BY <1>1 DEF IInv, FlightOK
  <2> QED  BY Zenon, <2>1 DEF RequestsOK
<1>4. vBlocksInFlight[p] \in SUBSET Block
      /\ \A c \in vBlocksInFlight[p] : mapBlocksInFlight[c] = p
  BY Zenon DEF IInv, FlightOK
<1>5. partialBlock' \subseteq Block /\ \A c \in partialBlock' : InFlight(c)'
  <2> SUFFICES ASSUME NEW c \in partialBlock'
               PROVE  c \in Block /\ mapBlocksInFlight'[c] # NoNode
    BY Zenon DEF InFlight
  <2>1. c \in Block /\ (c \in S \/ mapBlocksInFlight[c] # NoNode)
    <3>1. CASE c \in partialBlock
      BY Zenon, <3>1 DEF RequestsOK, InFlight
    <3>2. CASE c \in partial
      BY Zenon, <1>4, <3>2, DownloadAssumption
    <3> QED  BY Zenon, <1>1, <3>1, <3>2
  <2>2. mapBlocksInFlight'[c] = IF c \in S THEN p ELSE mapBlocksInFlight[c]
    BY Zenon, <1>1, <2>1
  <2> QED  BY Zenon, <2>1, <2>2, DownloadAssumption
<1>6. ASSUME NEW q \in NodeId, NEW c \in vBlocksInFlight'[q]
      PROVE  c \in known' \ data' /\ Carries(wire'[q], c, Answers(c)')
  <2>1. CASE q = p
    <3>1. c \in vBlocksInFlight[p] \cup S
      BY Zenon, <1>2, <1>6, <2>1
    <3>2. c \in known' \ data'
      BY Zenon, <3>1 DEF RequestsOK
    <3> QED  BY Zenon, <2>1, <3>1, <3>2
  <2>2. CASE q # p
    <3>1. c \in vBlocksInFlight[q] /\ c \in Block
      BY Zenon, <1>2, <1>6, <2>2 DEF IInv, FlightOK
    <3>2. c \in known \ data /\ Carries(wire[q], c, Answers(c))
      BY Zenon, <3>1 DEF RequestsOK
    <3>3. mapBlocksInFlight[c] = q
      BY Zenon, <3>1 DEF IInv, FlightOK
    <3>4. c \notin partial
      BY Zenon, <1>4, <2>2, <3>3, DownloadAssumption
    <3>5. Answers(c)' = Answers(c)
      BY Zenon, <1>1, <3>4 DEF Answers
    <3> QED  BY Zenon, <2>2, <3>2, <3>5
  <2> QED  BY Zenon, <2>1, <2>2
<1>7. \A q \in NodeId : \A c \in vBlocksInFlight'[q] :
        c \in known' \ data' /\ Carries(wire'[q], c, Answers(c)')
  BY Zenon, <1>6
<1> QED  BY Zenon, <1>3, <1>5, <1>7 DEF RequestsOK

-----------------------------------------------------------------------------
(* Steps.                                                                  *)

(* A direct fetch asks for missing blocks of the chain of last, as many as *)
(* the limit leaves room for.                                              *)
LEMMA DirectFetchCount ==
  ASSUME IInv, RequestsOK, NEW p \in NodeId, NEW last \in Block
  PROVE  /\ DirectFetch(p, last) \subseteq Ancestors[last] \ data
         /\ nBlocksInFlight[p] + Cardinality(DirectFetch(p, last))
              <= MAX_BLOCKS_IN_TRANSIT_PER_PEER
<1> DEFINE missing == {b \in Ancestors[last] \ Ancestors[tip] :
                         b \notin data /\ ~InFlight(b)}
           n == MAX_BLOCKS_IN_TRANSIT_PER_PEER - nBlocksInFlight[p]
<1>1. DirectFetch(p, last) \in {{}, Lowest(missing, n)}
  BY Zenon DEF DirectFetch
<1>2. missing \in SUBSET Ancestors[last] /\ missing \cap data = {}
  BY Zenon
<1>3. n \in Nat /\ nBlocksInFlight[p] \in Int
  <2>1. nBlocksInFlight[p] \in Int
        /\ nBlocksInFlight[p] <= MAX_BLOCKS_IN_TRANSIT_PER_PEER
        /\ MAX_BLOCKS_IN_TRANSIT_PER_PEER \in Nat
    BY Zenon, DownloadAssumption DEF IInv, FlightOK, RequestsOK
  <2> QED  BY <2>1
<1> HIDE DEF missing
<1>4. Lowest(missing, n) \subseteq missing /\ Cardinality(Lowest(missing, n)) <= n
  <2> HIDE DEF n
  <2> QED  BY Zenon, <1>2, <1>3, LowestCount
<1>5. Cardinality({}) = 0 /\ Cardinality(DirectFetch(p, last)) \in Nat
  BY Zenon, FS_EmptySet, DirectFetchSet, Finite
<1>6. Cardinality(DirectFetch(p, last)) <= n
  BY <1>1, <1>3, <1>4, <1>5
<1>7. nBlocksInFlight[p] + Cardinality(DirectFetch(p, last))
        <= MAX_BLOCKS_IN_TRANSIT_PER_PEER
  BY <1>3, <1>5, <1>6, DownloadAssumption
<1> QED  BY Zenon, <1>1, <1>2, <1>4, <1>7

(* The HEADERS handler, unless the message answers a request.              *)
LEMMA ProcessHeadersOwes ==
  ASSUME OweInv, NEW p \in NodeId, NEW t, Receives(p, t),
         NEW prev \in Block, NEW last \in Block, ProcessHeaders(p, prev, last),
         \A c \in vBlocksInFlight[p] : ~(t \in Answers(c) /\ Next1(p).hash = c),
         data' = data
  PROVE  IndexOK' /\ RequestsOK'
<1> USE DEF OweInv
<1>1. /\ WireOK /\ pindexBestHeader \in Block /\ known \in SUBSET Block
      /\ NoBlock \notin Block
      /\ wire[p] \in Seq(Message) /\ wire[p] # <<>> /\ Tail(wire[p]) \in Seq(Message)
      /\ Head(wire[p]).type = t /\ Head(wire[p]) = Next1(p)
  BY Zenon, HeadMsg, DownloadAssumption DEF IInv, WireOK, Receives, Next1
<1>2. CASE prev \notin known
  <2>1. /\ UpdateBlockAvailability(p, last, known)
        /\ Sends(p, Headers(p, pindexBestHeader))
        /\ UNCHANGED <<flight, index>>
    BY Zenon, <1>2 DEF ProcessHeaders
  <2>2. Shrinks /\ vBlocksInFlight' = vBlocksInFlight /\ known' = known
    BY Zenon, <2>1, SameShrinks DEF flight, index
  <2>3. Headers(p, pindexBestHeader) \in Seq(Message)
    BY Zenon, <1>1, HeadersSeq
  <2>4. RequestsOK'
    BY Zenon, <2>1, <2>2, <2>3, AnswerRequests
  <2>5. \A q \in NodeId : pindexBestKnownBlock'[q] \in known \cup {NoBlock}
    BY Zenon, <1>1, <2>1, AvailabilityKnown
  <2> QED  BY Zenon, <2>2, <2>4, <2>5 DEF IndexOK
<1>3. CASE prev \in known
  <2> DEFINE fetch == DirectFetch(p, last)
             more == IF Height[last] - Height[prev] = MAX_HEADERS_RESULTS
                     THEN Headers(p, last) ELSE <<>>
             compact == <<[type |-> "cmpctblock", hash |-> last]>>
  <2>1. /\ ProcessNewBlockHeaders(prev, last)
        /\ UpdateBlockAvailability(p, last, known')
        /\ MarkBlockAsInFlight(p, fetch, {}, {})
        /\ \/ \E blocks \in Blocks(fetch) : Sends(p, more \o blocks)
           \/ Cardinality(fetch) = 1 /\ last \in fetch /\ Sends(p, more \o compact)
    BY Zenon, <1>3 DEF ProcessHeaders
  <2>2. /\ fetch \in SUBSET Block
        /\ \A b \in fetch : mapBlocksInFlight[b] = NoNode
    BY Zenon, DirectFetchSet
  <2>3. /\ fetch \subseteq Ancestors[last] \ data
        /\ nBlocksInFlight[p] + Cardinality(fetch) <= MAX_BLOCKS_IN_TRANSIT_PER_PEER
    BY Zenon, DirectFetchCount
  <2>4. more \in Seq(Message) /\ compact \in Seq(Message)
    BY Zenon, <1>1, HeadersSeq, OneMsg
  <2>5. /\ known \subseteq known' /\ Ancestors[last] \subseteq known'
        /\ \A b \in known' : Ancestors[b] \subseteq known'
    BY Zenon, <1>1, <1>3, <2>1, HeadersIndex
  <2>6. known' \in SUBSET Block
    BY Zenon, <1>1, <2>1, IndexType
  <2>7. \A q \in NodeId : pindexBestKnownBlock'[q] \in known' \cup {NoBlock}
    BY Zenon, <1>1, <2>1, <2>5, <2>6, AvailabilityKnown
  <2>8. partialBlock' = partialBlock
    BY Zenon, <2>1 DEF MarkBlockAsInFlight
  <2>9. \A c \in fetch : "block" \in Answers(c) /\ "cmpctblock" \in Answers(c)
    BY Zenon, <2>2 DEF Answers, RequestsOK, InFlight
  <2> HIDE DEF fetch, more
  <2>10. PICK asked \in Seq(Message) :
           /\ Sends(p, more \o asked)
           /\ \A c \in fetch : Carries(asked, c, Answers(c))
    <3>1. CASE \E blocks \in Blocks(fetch) : Sends(p, more \o blocks)
      BY Zenon, <2>2, <2>9, <3>1, BlocksSeq, CarriesBlocks
    <3>2. CASE Cardinality(fetch) = 1 /\ last \in fetch /\ Sends(p, more \o compact)
      <4>1. fetch = {last}
        <5>1. IsFiniteSet(fetch)
          BY Zenon, <2>2, Finite
        <5>2. PICK x : fetch = {x}
          BY Zenon, <3>2, <5>1, FS_Singleton
        <5> QED  BY Zenon, <3>2, <5>2
      <4>2. Carries(compact, last, Answers(last))
        <5> DEFINE m == [type |-> "cmpctblock", hash |-> last]
        <5>1. m.type \in Answers(last) /\ m.hash = last
          BY Zenon, <2>9, <3>2
        <5> HIDE DEF m
        <5>2. Carries(<<m>>, m.hash, Answers(last))
          BY Zenon, <5>1, CarriesOne
        <5> QED  BY Zenon, <5>1, <5>2 DEF m
      <4> QED  BY Zenon, <2>4, <3>2, <4>1, <4>2
    <3> QED  BY Zenon, <2>1, <3>1, <3>2
  <2> DEFINE sent == more \o asked
  <2>11. sent \in Seq(Message)
    BY <2>4
  <2>12. /\ wire'[p] = Tail(wire[p]) \o sent
         /\ \A q \in NodeId \ {p} : wire'[q] = wire[q]
    BY Zenon, <1>1, <2>10 DEF Sends, WireOK
  <2>13. \A c \in vBlocksInFlight[p] \cup fetch : Carries(wire'[p], c, Answers(c)')
    <3> SUFFICES ASSUME NEW c \in vBlocksInFlight[p] \cup fetch
                 PROVE  Carries(wire'[p], c, Answers(c))
      BY Zenon, <2>8 DEF Answers
    <3>1. CASE c \in vBlocksInFlight[p]
      <4>1. Carries(wire[p], c, Answers(c))
        BY Zenon, <3>1 DEF RequestsOK
      <4>2. Carries(Tail(wire[p]), c, Answers(c))
        BY Zenon, <1>1, <3>1, <4>1, CarriesTail
      <4> HIDE DEF sent
      <4>3. Tail(wire[p]) \in Seq(Message)
        BY Zenon, <1>1
      <4>4. Carries(Tail(wire[p]) \o sent, c, Answers(c))
        BY Zenon, <2>11, <4>2, <4>3, CarriesMore
      <4> QED  BY Zenon, <2>12, <4>4
    <3>2. CASE c \in fetch
      <4>1. Carries(sent, c, Answers(c))
        BY Zenon, <2>4, <2>10, <3>2, CarriesMore
      <4> HIDE DEF sent
      <4>3. Tail(wire[p]) \in Seq(Message)
        BY Zenon, <1>1
      <4>4. Carries(Tail(wire[p]) \o sent, c, Answers(c))
        BY Zenon, <2>11, <4>1, <4>3, CarriesMore
      <4> QED  BY Zenon, <2>12, <4>4
    <3> QED  BY Zenon, <3>1, <3>2
  <2>14. {} \in SUBSET (vBlocksInFlight[p] \cup fetch) /\ fetch \subseteq known' \ data
    BY Zenon, <2>3, <2>5
  <2>15. RequestsOK'
    BY Zenon, <2>1, <2>2, <2>3, <2>5, <2>12, <2>13, <2>14, NewRequests
  <2> QED  BY Zenon, <2>5, <2>7, <2>15 DEF IndexOK
<1> QED  BY Zenon, <1>2, <1>3

(* A received inv.                                                         *)
LEMMA InvOwes ==
  ASSUME OweInv, NEW p \in NodeId, ReceiveInv(p) PROVE IndexOK' /\ RequestsOK'
<1> DEFINE b == Next1(p).hash
           answers == IF b \notin known /\ ~InFlight(b)
                      THEN Headers(p, pindexBestHeader) ELSE <<>>
<1>0. IInv /\ WireOK /\ IndexOK /\ RequestsOK /\ known \in SUBSET Block
      /\ NoBlock \notin Block
  BY Zenon, DownloadAssumption DEF OweInv, IInv, WireOK
<1>1. /\ Receives(p, "inv") /\ Sends(p, answers)
      /\ UpdateBlockAvailability(p, b, known)
      /\ UNCHANGED <<flight, index, chain>>
  BY Zenon DEF ReceiveInv
<1>2. answers \in Seq(Message)
  BY <1>0, HeadersSeq DEF WireOK
<1> HIDE DEF answers
<1>3. Shrinks /\ known' = known /\ data' = data
  BY Zenon, <1>0, <1>1, SameShrinks DEF index, chain
<1>4. \A c : "inv" \notin Answers(c)
  BY DEF Answers
<1>5. RequestsOK'
  BY Zenon, <1>0, <1>1, <1>2, <1>3, <1>4, AnswerRequests
<1>6. \A q \in NodeId : pindexBestKnownBlock'[q] \in known \cup {NoBlock}
  BY Zenon, <1>0, <1>1, AvailabilityKnown
<1> QED  BY Zenon, <1>0, <1>3, <1>5, <1>6 DEF IndexOK

(* A received headers message.                                             *)
LEMMA HeadersOwes ==
  ASSUME OweInv, NEW p \in NodeId, ReceiveHeaders(p) PROVE IndexOK' /\ RequestsOK'
<1>1. /\ Receives(p, "headers") /\ data' = data
      /\ ProcessHeaders(p, Next1(p).prev, Next1(p).last)
  BY Zenon DEF ReceiveHeaders, chain
<1>2. Next1(p).prev \in Block /\ Next1(p).last \in Block
  BY Zenon, <1>1, HeadersMsg DEF OweInv, IInv
<1>3. \A c : "headers" \notin Answers(c)
  BY DEF Answers
<1> QED  BY Zenon, <1>1, <1>2, <1>3, ProcessHeadersOwes

(* A received block settles its request.                                   *)
LEMMA BlockOwes ==
  ASSUME OweInv, NEW p \in NodeId, ReceiveBlock(p) PROVE IndexOK' /\ RequestsOK'
<1> DEFINE b == Next1(p).hash
<1>0. IInv /\ FlightOK /\ WireOK /\ IndexOK /\ RequestsOK
  BY Zenon DEF OweInv, IInv
<1>1. /\ Receives(p, "block") /\ MarkBlockAsReceived(b) /\ Sends(p, <<>>)
      /\ ProcessNewBlock(b, InFlight(b)) \/ data' = data
      /\ UNCHANGED <<avail, index>>
  BY Zenon DEF ReceiveBlock, chain
<1>2. b \in Block /\ <<>> \in Seq(Message)
  BY Zenon, <1>0, <1>1, HashMsg, OneMsg
<1> HIDE DEF b
<1>3. Shrinks /\ \A q \in NodeId : b \notin vBlocksInFlight'[q]
  BY Zenon, <1>0, <1>1, <1>2, ReceivedShrinks
<1>4. data \subseteq data' /\ data' \subseteq data \cup {b}
  BY Zenon, <1>1, StoredBlock
<1>5. known' = known /\ pindexBestKnownBlock' = pindexBestKnownBlock
  BY Zenon, <1>1 DEF avail, index
<1>6. RequestsOK'
  BY Zenon, <1>0, <1>1, <1>2, <1>3, <1>4, <1>5, AnswerRequests DEF b
<1> QED  BY Zenon, <1>0, <1>4, <1>5, <1>6 DEF IndexOK

(* Received transactions settle the request of a partial block, or the     *)
(* whole block is asked for.                                               *)
LEMMA BlockTxnOwes ==
  ASSUME OweInv, NEW p \in NodeId, ReceiveBlockTxn(p) PROVE IndexOK' /\ RequestsOK'
<1> DEFINE b == Next1(p).hash
<1>0. IInv /\ FlightOK /\ WireOK /\ IndexOK /\ RequestsOK
  BY Zenon DEF OweInv, IInv
<1>1. /\ Receives(p, "blocktxn") /\ UNCHANGED <<avail, index>>
      /\ \/ /\ MarkBlockAsReceived(b) /\ Sends(p, <<>>)
            /\ ProcessNewBlock(b, TRUE) \/ data' = data
         \/ Sends(p, <<BlockMsg(b)>>) /\ UNCHANGED <<flight, data>>
         \/ /\ ~(mapBlocksInFlight[b] = p /\ b \in partialBlock)
            /\ Sends(p, <<>>) /\ UNCHANGED <<flight, data>>
  BY Zenon DEF ReceiveBlockTxn, FillBlock, chain
<1>2. b \in Block /\ <<>> \in Seq(Message) /\ <<BlockMsg(b)>> \in Seq(Message)
  BY Zenon, <1>0, <1>1, HashMsg, OneMsg
<1>3. known' = known /\ pindexBestKnownBlock' = pindexBestKnownBlock
  BY Zenon, <1>1 DEF avail, index
<1> HIDE DEF b
<1>4. CASE /\ MarkBlockAsReceived(b) /\ Sends(p, <<>>)
           /\ ProcessNewBlock(b, TRUE) \/ data' = data
  <2>1. Shrinks /\ \A q \in NodeId : b \notin vBlocksInFlight'[q]
    BY Zenon, <1>0, <1>2, <1>4, ReceivedShrinks
  <2>2. data \subseteq data' /\ data' \subseteq data \cup {b}
    BY Zenon, <1>4, StoredBlock
  <2>3. RequestsOK'
    BY Zenon, <1>0, <1>1, <1>2, <1>3, <1>4, <2>1, <2>2, AnswerRequests DEF b
  <2> QED  BY Zenon, <1>0, <1>3, <2>2, <2>3 DEF IndexOK
<1>5. CASE Sends(p, <<BlockMsg(b)>>) /\ UNCHANGED <<flight, data>>
  <2>1. Shrinks
    BY Zenon, <1>0, <1>5, SameShrinks
  <2>2. Carries(<<BlockMsg(b)>>, b, Answers(b))
    BY Zenon, BlockCarries
  <2>3. RequestsOK'
    BY Zenon, <1>0, <1>1, <1>2, <1>3, <1>5, <2>1, <2>2, AnswerRequests DEF b
  <2> QED  BY Zenon, <1>0, <1>3, <1>5, <2>3 DEF IndexOK
<1>6. CASE /\ ~(mapBlocksInFlight[b] = p /\ b \in partialBlock)
           /\ Sends(p, <<>>) /\ UNCHANGED <<flight, data>>
  <2>1. Shrinks /\ vBlocksInFlight' = vBlocksInFlight
    BY Zenon, <1>0, <1>6, SameShrinks DEF flight
  <2>2. b \in vBlocksInFlight[p] => "blocktxn" \notin Answers(b)
    BY <1>0, <1>2, <1>6 DEF Answers, FlightOK
  <2>3. RequestsOK'
    BY Zenon, <1>0, <1>1, <1>2, <1>3, <1>6, <2>1, <2>2, AnswerRequests DEF b
  <2> QED  BY Zenon, <1>0, <1>3, <1>6, <2>3 DEF IndexOK
<1> QED  BY Zenon, <1>1, <1>4, <1>5, <1>6

(* A compact block that becomes the entry of p is owed as the block or its *)
(* missing transactions.                                                   *)
LEMMA StartPartialOwes ==
  ASSUME OweInv, NEW p \in NodeId, NEW t, Receives(p, t), NEW b \in Block,
         b = Next1(p).hash, StartPartial(p, b), b \in known' \ data,
         mapBlocksInFlight[b] = p \/
           (mapBlocksInFlight[b] = NoNode
              /\ nBlocksInFlight[p] < MAX_BLOCKS_IN_TRANSIT_PER_PEER),
         NEW m \in {BlockMsg(b), [type |-> "blocktxn", hash |-> b]}, Sends(p, <<m>>),
         known \subseteq known', data' = data
  PROVE  RequestsOK'
<1> DEFINE S == {b} \ vBlocksInFlight[p]
<1>0. IInv /\ FlightOK /\ WireOK /\ RequestsOK
  BY Zenon DEF OweInv, IInv
<1>1. MarkBlockAsInFlight(p, S, {b}, {})
  BY Zenon DEF StartPartial
<1>2. S \in SUBSET Block /\ (\A c \in S : mapBlocksInFlight[c] = NoNode)
      /\ {b} \in SUBSET (vBlocksInFlight[p] \cup S) /\ S \subseteq known' \ data
  BY <1>0 DEF FlightOK
<1>3. nBlocksInFlight[p] + Cardinality(S) <= MAX_BLOCKS_IN_TRANSIT_PER_PEER
  <2>1. nBlocksInFlight[p] \in Int
        /\ nBlocksInFlight[p] <= MAX_BLOCKS_IN_TRANSIT_PER_PEER
        /\ MAX_BLOCKS_IN_TRANSIT_PER_PEER \in Nat
    BY Zenon, <1>0, DownloadAssumption DEF FlightOK, RequestsOK
  <2>2. Cardinality({}) = 0 /\ Cardinality({b}) = 1
    BY Zenon, FS_EmptySet, FS_Singleton
  <2>3. CASE mapBlocksInFlight[b] = p
    <3>1. b \in vBlocksInFlight[p]
      BY <1>0, <2>3 DEF FlightOK
    <3>2. Cardinality(S) = 0
      BY Zenon, <2>2, <3>1
    <3> HIDE DEF S
    <3> QED  BY <2>1, <3>2
  <2>4. CASE nBlocksInFlight[p] < MAX_BLOCKS_IN_TRANSIT_PER_PEER
    <3>1. S = {} \/ S = {b}
      BY Zenon
    <3>2. Cardinality(S) \in {0, 1}
      BY Zenon, <2>2, <3>1
    <3> HIDE DEF S
    <3> QED  BY <2>1, <2>4, <3>2
  <2> QED  BY Zenon, <2>3, <2>4
<1>4. wire[p] \in Seq(Message) /\ wire[p] # <<>> /\ Tail(wire[p]) \in Seq(Message)
      /\ Head(wire[p]).hash = b /\ <<m>> \in Seq(Message)
  BY Zenon, <1>0, HeadMsg, OneMsg DEF WireOK, Receives, Next1
<1>5. /\ wire'[p] = Tail(wire[p]) \o <<m>>
      /\ \A q \in NodeId \ {p} : wire'[q] = wire[q]
  BY Zenon, <1>0 DEF Sends, WireOK
<1>6. partialBlock' = partialBlock \cup {b}
  BY Zenon, <1>1 DEF MarkBlockAsInFlight
<1>7. m.type \in {"block", "blocktxn"} /\ m.hash = b
  BY DEF BlockMsg
<1> HIDE DEF S
<1>8. ASSUME NEW c \in vBlocksInFlight[p] \cup S
      PROVE  Carries(wire'[p], c, Answers(c)')
  <2>1. CASE c = b
    <3>1. Answers(c)' = {"block", "blocktxn"}
      BY Zenon, <1>6, <2>1 DEF Answers
    <3>2. Carries(<<m>>, m.hash, {"block", "blocktxn"})
      BY Zenon, <1>7, CarriesOne
    <3>3. Carries(Tail(wire[p]) \o <<m>>, m.hash, {"block", "blocktxn"})
      BY Zenon, <1>4, <3>2, CarriesMore
    <3> QED  BY Zenon, <1>5, <1>7, <2>1, <3>1, <3>3
  <2>2. CASE c # b
    <3>1. Answers(c)' = Answers(c)
      BY Zenon, <1>6, <2>2 DEF Answers
    <3>2. c \in vBlocksInFlight[p]
      BY Zenon, <2>2, <1>8 DEF S
    <3>3. Carries(wire[p], c, Answers(c))
      BY Zenon, <1>0, <3>2 DEF RequestsOK
    <3>4. Carries(Tail(wire[p]), c, Answers(c))
      BY Zenon, <1>4, <2>2, <3>3, CarriesTail
    <3>5. Carries(Tail(wire[p]) \o <<m>>, c, Answers(c))
      BY Zenon, <1>4, <3>4, CarriesMore
    <3> QED  BY Zenon, <1>5, <3>1, <3>5
  <2> QED  BY Zenon, <2>1, <2>2
<1>9. \A c \in vBlocksInFlight[p] \cup S : Carries(wire'[p], c, Answers(c)')
  BY Zenon, <1>8
<1> QED  BY Zenon, <1>0, <1>1, <1>2, <1>3, <1>5, <1>9, NewRequests

(* A compact block whose header is accepted.                               *)
LEMMA CompactBlockOwes ==
  ASSUME OweInv, NEW p \in NodeId, Receives(p, "cmpctblock"), NEW b \in Block,
         b = Next1(p).hash, HashPrev[b] \in known, b \notin data, CompactBlock(p, b)
  PROVE  IndexOK' /\ RequestsOK'
<1> DEFINE accept == /\ ProcessNewBlockHeaders(HashPrev[b], b)
                     /\ UpdateBlockAvailability(p, b, known')
           finish == /\ MarkBlockAsReceived(b) \/ StartAndFinish(p, b)
                     /\ ProcessNewBlock(b, TRUE) \/ data' = data
                     /\ Sends(p, <<>>)
           room == nBlocksInFlight[p] < MAX_BLOCKS_IN_TRANSIT_PER_PEER
<1>0. IInv /\ FlightOK /\ WireOK /\ IndexOK /\ RequestsOK /\ known \in SUBSET Block
      /\ HashPrev[b] \in Block
  BY Zenon DEF OweInv, IInv, WireOK
<1>1. \/ accept /\ Sends(p, <<BlockMsg(b)>>) /\ UNCHANGED <<flight, data>>
      \/ /\ accept /\ Sends(p, <<>>) /\ UNCHANGED <<flight, data>>
         /\ mapBlocksInFlight[b] # p \/ b \in partialBlock
      \/ accept /\ finish
      \/ /\ accept /\ StartPartial(p, b) /\ data' = data
         /\ mapBlocksInFlight[b] = p \/ (mapBlocksInFlight[b] = NoNode /\ room)
         /\ \/ Sends(p, <<BlockMsg(b)>>)
            \/ Sends(p, <<[type |-> "blocktxn", hash |-> b]>>)
      \/ ProcessHeaders(p, HashPrev[b], b) /\ mapBlocksInFlight[b] = NoNode /\ data' = data
  <2>1. NoNode # p
    BY Zenon, DownloadAssumption
  <2> QED  BY Zenon, <2>1 DEF CompactBlock, InitData, InFlight, chain
<1>2. ASSUME accept
      PROVE  /\ b \in known' /\ known \subseteq known'
             /\ \A c \in known' : Ancestors[c] \subseteq known'
             /\ \A q \in NodeId : pindexBestKnownBlock'[q] \in known' \cup {NoBlock}
  <2>1. /\ known \subseteq known' /\ Ancestors[b] \subseteq known'
        /\ \A c \in known' : Ancestors[c] \subseteq known'
    BY Zenon, <1>0, <1>2, HeadersIndex
  <2>2. known' \in SUBSET Block
    BY Zenon, <1>0, <1>2, IndexType
  <2>3. NoBlock \notin known'
    BY Zenon, <2>2, DownloadAssumption
  <2>4. \A q \in NodeId : pindexBestKnownBlock'[q] \in known' \cup {NoBlock}
    BY Zenon, <1>0, <1>2, <2>1, <2>3, AvailabilityKnown
  <2> QED  BY Zenon, <2>1, <2>4, TreeAssumption
<1>3. <<>> \in Seq(Message) /\ <<BlockMsg(b)>> \in Seq(Message)
  BY Zenon, OneMsg
<1>4. CASE accept /\ Sends(p, <<BlockMsg(b)>>) /\ UNCHANGED <<flight, data>>
  <2>1. Shrinks
    BY Zenon, <1>0, <1>4, SameShrinks
  <2>2. Carries(<<BlockMsg(b)>>, b, Answers(b))
    BY Zenon, BlockCarries
  <2>3. RequestsOK'
    BY Zenon, <1>0, <1>2, <1>3, <1>4, <2>1, <2>2, AnswerRequests
  <2> QED  BY Zenon, <1>0, <1>2, <1>4, <2>3 DEF IndexOK
<1>5. CASE /\ accept /\ Sends(p, <<>>) /\ UNCHANGED <<flight, data>>
           /\ mapBlocksInFlight[b] # p \/ b \in partialBlock
  <2>1. Shrinks /\ vBlocksInFlight' = vBlocksInFlight
    BY Zenon, <1>0, <1>5, SameShrinks DEF flight
  <2>2. b \in vBlocksInFlight[p] => "cmpctblock" \notin Answers(b)
    BY <1>0, <1>5 DEF Answers, FlightOK
  <2>3. RequestsOK'
    BY Zenon, <1>0, <1>2, <1>3, <1>5, <2>1, <2>2, AnswerRequests
  <2> QED  BY Zenon, <1>0, <1>2, <1>5, <2>3 DEF IndexOK
<1>6. CASE accept /\ finish
  <2>1. Shrinks /\ \A q \in NodeId : b \notin vBlocksInFlight'[q]
    BY Zenon, <1>0, <1>6, ReceivedShrinks, FinishShrinks
  <2>2. data \subseteq data' /\ data' \subseteq data \cup {b}
    BY Zenon, <1>6, StoredBlock
  <2>3. RequestsOK'
    BY Zenon, <1>0, <1>2, <1>3, <1>6, <2>1, <2>2, AnswerRequests
  <2> QED  BY Zenon, <1>0, <1>2, <1>6, <2>2, <2>3 DEF IndexOK
<1>7. CASE /\ accept /\ StartPartial(p, b) /\ data' = data
           /\ mapBlocksInFlight[b] = p \/ (mapBlocksInFlight[b] = NoNode /\ room)
           /\ \/ Sends(p, <<BlockMsg(b)>>)
              \/ Sends(p, <<[type |-> "blocktxn", hash |-> b]>>)
  <2>1. PICK m \in {BlockMsg(b), [type |-> "blocktxn", hash |-> b]} : Sends(p, <<m>>)
    BY Zenon, <1>7
  <2>2. b \in known' \ data /\ known \subseteq known'
    BY Zenon, <1>2, <1>7
  <2>3. RequestsOK'
    BY Zenon, <1>7, <2>1, <2>2, StartPartialOwes
  <2> QED  BY Zenon, <1>0, <1>2, <1>7, <2>3 DEF IndexOK
<1>8. CASE ProcessHeaders(p, HashPrev[b], b) /\ mapBlocksInFlight[b] = NoNode /\ data' = data
  <2>1. b \notin vBlocksInFlight[p]
    BY <1>0, <1>8, DownloadAssumption DEF FlightOK
  <2> QED  BY Zenon, <1>0, <1>8, <2>1, ProcessHeadersOwes
<1> QED  BY Zenon, <1>1, <1>4, <1>5, <1>6, <1>7, <1>8

(* A received compact block.                                               *)
LEMMA CmpctBlockOwes ==
  ASSUME OweInv, NEW p \in NodeId, ReceiveCmpctBlock(p) PROVE IndexOK' /\ RequestsOK'
<1> DEFINE b == Next1(p).hash
           answers == IF IsInitialBlockDownload
                      THEN <<>> ELSE Headers(p, pindexBestHeader)
<1>0. IInv /\ FlightOK /\ WireOK /\ IndexOK /\ RequestsOK /\ known \in SUBSET Block
      /\ NoBlock \notin known
  BY Zenon, DownloadAssumption DEF OweInv, IInv, WireOK
<1>1. /\ Receives(p, "cmpctblock")
      /\ \/ /\ HashPrev[b] \notin known /\ Sends(p, answers)
            /\ UNCHANGED <<index, avail, flight, data>>
         \/ /\ b \in data /\ UpdateBlockAvailability(p, b, known) /\ Sends(p, <<>>)
            /\ UNCHANGED <<index, flight, data>>
         \/ HashPrev[b] \in known /\ b \notin data /\ CompactBlock(p, b)
  BY Zenon DEF ReceiveCmpctBlock, chain
<1>2. b \in Block
  BY Zenon, <1>0, <1>1, HashMsg
<1>3. answers \in Seq(Message) /\ <<>> \in Seq(Message)
  BY <1>0, HeadersSeq DEF WireOK
<1> HIDE DEF b, answers
<1>4. CASE /\ HashPrev[b] \notin known /\ Sends(p, answers)
           /\ UNCHANGED <<index, avail, flight, data>>
  <2>1. Shrinks /\ vBlocksInFlight' = vBlocksInFlight /\ known' = known
        /\ pindexBestKnownBlock' = pindexBestKnownBlock
    BY Zenon, <1>0, <1>4, SameShrinks DEF flight, index, avail
  <2>2. b \notin vBlocksInFlight[p]
    <3> SUFFICES ASSUME b \in vBlocksInFlight[p] PROVE FALSE
      BY Zenon
    <3>1. b \in known \ data /\ Genesis \in data
      BY Zenon, <1>0 DEF RequestsOK, IndexOK
    <3>2. HashPrev[b] \in Ancestors[b] /\ Ancestors[b] \subseteq known
      BY Zenon, <1>0, <1>2, <3>1, TreeAssumption DEF IndexOK
    <3> QED  BY Zenon, <1>4, <3>2
  <2>3. RequestsOK'
    BY Zenon, <1>0, <1>1, <1>3, <1>4, <2>1, <2>2, AnswerRequests DEF b
  <2> QED  BY Zenon, <1>0, <1>4, <2>1, <2>3 DEF IndexOK
<1>5. CASE /\ b \in data /\ UpdateBlockAvailability(p, b, known) /\ Sends(p, <<>>)
           /\ UNCHANGED <<index, flight, data>>
  <2>1. Shrinks /\ vBlocksInFlight' = vBlocksInFlight /\ known' = known
    BY Zenon, <1>0, <1>5, SameShrinks DEF flight, index
  <2>2. b \notin vBlocksInFlight[p]
    BY Zenon, <1>0, <1>5 DEF RequestsOK
  <2>3. RequestsOK'
    BY Zenon, <1>0, <1>1, <1>3, <1>5, <2>1, <2>2, AnswerRequests DEF b
  <2>4. \A q \in NodeId : pindexBestKnownBlock'[q] \in known \cup {NoBlock}
    BY Zenon, <1>0, <1>5, AvailabilityKnown
  <2> QED  BY Zenon, <1>0, <1>5, <2>1, <2>3, <2>4 DEF IndexOK
<1>6. CASE HashPrev[b] \in known /\ b \notin data /\ CompactBlock(p, b)
  <2>1. b = Next1(p).hash
    BY Zenon DEF b
  <2> QED  BY Zenon, <1>1, <1>2, <1>6, <2>1, CompactBlockOwes
<1> QED  BY Zenon, <1>1, <1>4, <1>5, <1>6

(* FindNextBlocksToDownload finds missing blocks of a known chain, as many *)
(* as it is asked for.                                                     *)
LEMMA FindNextCount ==
  ASSUME IInv, IndexOK, NEW p \in NodeId, NEW best \in known \cup {NoBlock},
         NEW count \in Nat
  PROVE  LET found == FindNextBlocksToDownload(p, best, count)
         IN found.blocks \subseteq known \ data /\ Cardinality(found.blocks) <= count
<1> DEFINE common == LastCommonAncestor(
                       IF pindexLastCommonBlock[p] = NoBlock
                       THEN AncestorAt(tip, Lower(Height[best], Height[tip]))
                       ELSE pindexLastCommonBlock[p], best)
           nWindowEnd == Height[common] + BLOCK_DOWNLOAD_WINDOW
           walk == {b \in Ancestors[best] \ Ancestors[common] :
                      Height[b] <= nWindowEnd + 1}
           wanted == {b \in walk \ data :
                        ~InFlight(b) /\ Height[b] <= nWindowEnd}
           found == FindNextBlocksToDownload(p, best, count)
<1>1. \/ found.blocks = {}
      \/ best # NoBlock /\ found.blocks = Lowest(wanted, count)
  BY Zenon DEF FindNextBlocksToDownload
<1>2. wanted \in SUBSET (Ancestors[best] \ data)
  BY Zenon
<1> HIDE DEF wanted, found
<1>3. CASE found.blocks = {}
  <2>1. Cardinality(found.blocks) = 0
    BY Zenon, <1>3, FS_EmptySet
  <2> QED  BY <1>3, <2>1 DEF found
<1>4. CASE best # NoBlock /\ found.blocks = Lowest(wanted, count)
  <2>1. best \in known /\ best \in Block /\ Ancestors[best] \subseteq known
    BY Zenon, <1>4 DEF IInv, WireOK, IndexOK
  <2>2. wanted \in SUBSET Ancestors[best]
    BY Zenon, <1>2
  <2>3. Lowest(wanted, count) \subseteq wanted /\ Cardinality(Lowest(wanted, count)) <= count
    BY Zenon, <2>1, <2>2, LowestCount
  <2> QED  BY Zenon, <1>2, <1>4, <2>1, <2>3 DEF found
<1> QED  BY Zenon, <1>1, <1>3, <1>4

(* A turn of SendMessages asks for what it puts in flight.                 *)
LEMMA SendMessagesOwes ==
  ASSUME OweInv, NEW p \in NodeId, SendMessages(p) PROVE IndexOK' /\ RequestsOK'
<1> DEFINE n == MAX_BLOCKS_IN_TRANSIT_PER_PEER - nBlocksInFlight[p]
           found == FindNextBlocksToDownload(p, pindexBestKnownBlock'[p], n)
           stalling == IF nBlocksInFlight[p] = 0 /\ found.blocks = {}
                       THEN found.staller ELSE {}
<1>0. IInv /\ FlightOK /\ WireOK /\ IndexOK /\ RequestsOK /\ NoBlock \notin known
      /\ wire \in [NodeId -> Seq(Message)]
  BY Zenon, DownloadAssumption DEF OweInv, IInv, WireOK
<1>1. InitialHeaders(p) \in Seq(Message)
  BY Zenon, <1>0, InitialHeadersSeq
<1>2. known' = known /\ data' = data
  BY Zenon DEF SendMessages, index, chain
<1>3. \/ /\ UpdateBlockAvailability(p, NoBlock, known)
         /\ \E blocks \in Blocks(found.blocks) :
              /\ MarkBlockAsInFlight(p, found.blocks, {}, stalling)
              /\ wire' = [wire EXCEPT ![p] = @ \o InitialHeaders(p) \o blocks]
      \/ /\ wire' = [wire EXCEPT ![p] = @ \o InitialHeaders(p)]
         /\ UNCHANGED <<avail, flight>>
  BY Zenon DEF SendMessages
<1>4. CASE /\ wire' = [wire EXCEPT ![p] = @ \o InitialHeaders(p)]
           /\ UNCHANGED <<avail, flight>>
  <2>1. RequestsOK'
    BY Zenon, <1>0, <1>1, <1>2, <1>4, MoreRequests
  <2> QED  BY Zenon, <1>0, <1>2, <1>4, <2>1 DEF IndexOK, avail
<1>5. CASE /\ UpdateBlockAvailability(p, NoBlock, known)
           /\ \E blocks \in Blocks(found.blocks) :
                /\ MarkBlockAsInFlight(p, found.blocks, {}, stalling)
                /\ wire' = [wire EXCEPT ![p] = @ \o InitialHeaders(p) \o blocks]
  <2>1. \A q \in NodeId : pindexBestKnownBlock'[q] \in known \cup {NoBlock}
    BY Zenon, <1>0, <1>5, AvailabilityKnown
  <2>2. pindexBestKnownBlock'[p] \in known \cup {NoBlock}
        /\ pindexBestKnownBlock'[p] \in Block \cup {NoBlock}
    BY Zenon, <1>0, <2>1 DEF WireOK
  <2>3. n \in Nat /\ nBlocksInFlight[p] \in Int
    <3>1. nBlocksInFlight[p] \in Int
          /\ nBlocksInFlight[p] <= MAX_BLOCKS_IN_TRANSIT_PER_PEER
          /\ MAX_BLOCKS_IN_TRANSIT_PER_PEER \in Nat
      BY Zenon, <1>0, DownloadAssumption DEF FlightOK, RequestsOK
    <3> QED  BY <3>1
  <2>4. /\ found.blocks \in SUBSET Block
        /\ \A b \in found.blocks : mapBlocksInFlight[b] = NoNode
    <3> HIDE DEF n
    <3> QED  BY Zenon, <1>0, <2>2, FindNextSet
  <2>5. found.blocks \subseteq known \ data /\ Cardinality(found.blocks) <= n
    <3> HIDE DEF n
    <3> QED  BY Zenon, <1>0, <2>2, <2>3, FindNextCount
  <2> HIDE DEF found
  <2>6. Cardinality(found.blocks) \in Nat
    BY Zenon, <2>4, Finite
  <2>7. nBlocksInFlight[p] + Cardinality(found.blocks) <= MAX_BLOCKS_IN_TRANSIT_PER_PEER
    BY <2>3, <2>5, <2>6, DownloadAssumption
  <2> HIDE DEF stalling, n
  <2>8. PICK blocks \in Blocks(found.blocks) :
          /\ MarkBlockAsInFlight(p, found.blocks, {}, stalling)
          /\ wire' = [wire EXCEPT ![p] = @ \o InitialHeaders(p) \o blocks]
    BY Zenon, <1>5
  <2>9. blocks \in Seq(Message)
    BY Zenon, <2>4, BlocksSeq
  <2> DEFINE old == wire[p] \o InitialHeaders(p)
  <2>10. old \in Seq(Message) /\ wire[p] \in Seq(Message)
    BY <1>0, <1>1
  <2>11. /\ wire'[p] = old \o blocks
         /\ \A q \in NodeId \ {p} : wire'[q] = wire[q]
    BY Zenon, <1>0, <2>8
  <2>12. ASSUME NEW c \in vBlocksInFlight[p] \cup found.blocks
         PROVE  Carries(wire'[p], c, Answers(c)')
    <3>1. Answers(c)' = Answers(c)
      BY Zenon, <2>8 DEF Answers, MarkBlockAsInFlight
    <3>2. Carries(old, c, Answers(c)) \/ Carries(blocks, c, Answers(c))
      <4>1. CASE c \in vBlocksInFlight[p]
        <5>1. Carries(wire[p], c, Answers(c))
          BY Zenon, <1>0, <4>1 DEF RequestsOK
        <5> QED  BY Zenon, <1>1, <2>10, <5>1, CarriesMore
      <4>2. CASE c \in found.blocks
        <5>1. "block" \in Answers(c)
          BY DEF Answers
        <5> QED  BY Zenon, <2>4, <4>2, <5>1, CarriesBlocks
      <4> QED  BY Zenon, <2>12, <4>1, <4>2
    <3> HIDE DEF old
    <3>3. Carries(old \o blocks, c, Answers(c))
      BY Zenon, <2>9, <2>10, <3>2, CarriesMore
    <3> QED  BY Zenon, <2>11, <3>1, <3>3
  <2>13. \A c \in vBlocksInFlight[p] \cup found.blocks : Carries(wire'[p], c, Answers(c)')
    BY Zenon, <2>12
  <2>14. {} \in SUBSET (vBlocksInFlight[p] \cup found.blocks)
         /\ known \subseteq known' /\ found.blocks \subseteq known' \ data
    BY Zenon, <1>2, <2>5
  <2>15. RequestsOK'
    BY Zenon, <1>0, <1>2, <2>4, <2>7, <2>8, <2>11, <2>13, <2>14, NewRequests
  <2> QED  BY Zenon, <1>0, <1>2, <2>1, <2>15 DEF IndexOK
<1> QED  BY Zenon, <1>3, <1>4, <1>5

(* A deleted peer owes nothing; what the others owe stays.                 *)
LEMMA FinalizeOwes ==
  ASSUME OweInv, NEW p \in NodeId, FinalizeNode(p) PROVE IndexOK' /\ RequestsOK'
<1>0. FlightOK /\ WireOK /\ IndexOK /\ RequestsOK
  BY Zenon DEF OweInv, IInv
<1>1. /\ mapBlocksInFlight' =
           [b \in Block |-> IF b \in vBlocksInFlight[p]
                            THEN NoNode ELSE mapBlocksInFlight[b]]
      /\ partialBlock' = partialBlock \ vBlocksInFlight[p]
      /\ vBlocksInFlight' = [vBlocksInFlight EXCEPT ![p] = {}]
      /\ nBlocksInFlight' = [nBlocksInFlight EXCEPT ![p] = 0]
      /\ pindexBestKnownBlock' = [pindexBestKnownBlock EXCEPT ![p] = NoBlock]
      /\ wire' = [wire EXCEPT ![p] = <<>>]
      /\ known' = known /\ data' = data
  BY Zenon DEF FinalizeNode, index, chain
<1>2. IndexOK'
  BY Zenon, <1>0, <1>1 DEF IndexOK, WireOK
<1>3. /\ vBlocksInFlight'[p] = {}
      /\ \A q \in NodeId \ {p} : /\ vBlocksInFlight'[q] = vBlocksInFlight[q]
                                /\ wire'[q] = wire[q]
  BY <1>0, <1>1 DEF FlightOK, WireOK
<1>4. \A q \in NodeId : nBlocksInFlight'[q] <= MAX_BLOCKS_IN_TRANSIT_PER_PEER
  BY <1>0, <1>1, DownloadAssumption DEF FlightOK, RequestsOK
<1>5. partialBlock' \subseteq Block /\ \A c \in partialBlock' : InFlight(c)'
  BY Zenon, <1>0, <1>1 DEF RequestsOK, InFlight
<1>6. ASSUME NEW q \in NodeId, NEW c \in vBlocksInFlight'[q]
      PROVE  c \in known' \ data' /\ Carries(wire'[q], c, Answers(c)')
  <2>1. q # p /\ c \in vBlocksInFlight[q] /\ c \in Block /\ wire'[q] = wire[q]
    BY Zenon, <1>0, <1>3, <1>6 DEF FlightOK
  <2>2. c \notin vBlocksInFlight[p]
    BY <1>0, <2>1 DEF FlightOK
  <2>3. Answers(c)' = Answers(c)
    BY Zenon, <1>1, <2>2 DEF Answers
  <2> QED  BY Zenon, <1>0, <1>1, <2>1, <2>3 DEF RequestsOK
<1>7. \A q \in NodeId : \A c \in vBlocksInFlight'[q] :
        c \in known' \ data' /\ Carries(wire'[q], c, Answers(c)')
  BY Zenon, <1>6
<1> QED  BY Zenon, <1>2, <1>4, <1>5, <1>7 DEF RequestsOK

(* Steps that change no request: a peer connects, announces a block or     *)
(* hangs up, or a clock has run out.                                       *)
LEMMA OtherOwes ==
  ASSUME OweInv, NEW p \in NodeId,
         InitializeNode(p) \/ HangUp(p) \/ Announce(p) \/ Timeout(p)
  PROVE  IndexOK' /\ RequestsOK'
<1>0. IInv /\ WireOK /\ IndexOK /\ RequestsOK /\ wire \in [NodeId -> Seq(Message)]
  BY Zenon DEF OweInv, IInv, WireOK
<1>1. UNCHANGED <<avail, flight, index, chain>>
  BY Zenon DEF InitializeNode, HangUp, Announce, Timeout
<1>2. known' = known /\ data' = data
  BY Zenon, <1>1 DEF index, chain
<1>3. IndexOK'
  BY Zenon, <1>0, <1>1, <1>2 DEF IndexOK, avail
<1>4. CASE wire' = wire
  BY Zenon, <1>0, <1>1, <1>2, <1>3, <1>4 DEF RequestsOK, flight, InFlight, Answers
<1>5. ASSUME NEW more \in Seq(Message), wire' = [wire EXCEPT ![p] = @ \o more]
      PROVE  RequestsOK'
  BY Zenon, <1>0, <1>1, <1>2, <1>5, MoreRequests
<1>6. CASE Timeout(p)
  <2>1. InitialHeaders(p) \in Seq(Message)
    BY Zenon, <1>0, InitialHeadersSeq
  <2> QED  BY Zenon, <1>3, <1>5, <1>6, <2>1 DEF Timeout
<1>7. CASE Announce(p)
  <2>1. PICK b \in Chains[p] \ {Genesis} :
          \E m \in {[type |-> "inv", hash |-> b],
                    [type |-> "cmpctblock", hash |-> b],
                    [type |-> "headers", prev |-> HashPrev[b], last |-> b]} :
            wire' = [wire EXCEPT ![p] = Append(@, m)]
    BY Zenon, <1>7 DEF Announce
  <2>2. b \in Block /\ HashPrev[b] \in Block
    BY Zenon, DownloadAssumption, TreeAssumption
  <2>3. PICK m \in Message : wire' = [wire EXCEPT ![p] = Append(@, m)]
    BY Zenon, <2>1, <2>2 DEF Message
  <2>4. Append(wire[p], m) = wire[p] \o <<m>> /\ <<m>> \in Seq(Message)
    BY <1>0
  <2>5. wire' = [wire EXCEPT ![p] = @ \o <<m>>]
    BY Zenon, <2>3, <2>4
  <2> QED  BY Zenon, <1>3, <1>5, <2>4, <2>5
<1>8. CASE InitializeNode(p) \/ HangUp(p)
  BY Zenon, <1>3, <1>4, <1>8 DEF InitializeNode, HangUp, remote
<1> QED  BY Zenon, <1>6, <1>7, <1>8

-----------------------------------------------------------------------------
(* Initially nothing is in flight and only the genesis block is known.     *)
LEMMA InitOwes == Init => OweInv
<1> SUFFICES ASSUME Init PROVE OweInv
  BY Zenon
<1>1. IndexOK
  BY Zenon, TreeAssumption DEF Init, IndexOK
<1>2. RequestsOK
  BY DownloadAssumption DEF Init, RequestsOK
<1> QED  BY Zenon, <1>1, <1>2, InitInv DEF OweInv

(* Every step keeps the requests owed.                                     *)
LEMMA NextOwes == OweInv /\ [Next]_vars => OweInv'
<1> SUFFICES ASSUME OweInv, [Next]_vars PROVE OweInv'
  BY Zenon
<1>1. IInv'
  BY Zenon, NextInv DEF OweInv
<1>2. CASE UNCHANGED vars
  <2>1. /\ known' = known /\ data' = data /\ wire' = wire
        /\ pindexBestKnownBlock' = pindexBestKnownBlock
        /\ mapBlocksInFlight' = mapBlocksInFlight /\ vBlocksInFlight' = vBlocksInFlight
        /\ nBlocksInFlight' = nBlocksInFlight /\ partialBlock' = partialBlock
    BY Zenon, <1>2 DEF vars, avail, flight, index, chain, remote
  <2> QED  BY Zenon, <1>1, <2>1 DEF OweInv, IndexOK, RequestsOK, InFlight, Answers
<1>3. ASSUME NEW p \in NodeId,
             \/ InitializeNode(p) \/ HangUp(p) \/ FinalizeNode(p) \/ Announce(p)
             \/ Receive(p) \/ SendMessages(p) \/ Timeout(p)
      PROVE  IndexOK' /\ RequestsOK'
  BY Zenon, <1>3, OtherOwes, FinalizeOwes, InvOwes, HeadersOwes, BlockOwes, BlockTxnOwes,
     CmpctBlockOwes, SendMessagesOwes DEF Receive
<1> QED  BY Zenon, <1>1, <1>2, <1>3 DEF Next, OweInv

(* The stronger inductive invariant holds of every behaviour.              *)
THEOREM OweInvariant == Spec => []OweInv
BY InitOwes, NextOwes, PTL DEF Spec

(* Whatever the peers do, every block in flight is one the node still      *)
(* needs and an answer to its request is under way, and no peer has more   *)
(* of them than MAX_BLOCKS_IN_TRANSIT_PER_PEER: no handler forgets a       *)
(* request it has lost the answer to, for any number of peers and blocks.  *)
THEOREM InFlightAlwaysOwed == Spec => []InFlightIsOwed
<1>1. OweInv => InFlightIsOwed
  <2> SUFFICES ASSUME OweInv, NEW p \in NodeId
               PROVE  /\ \A b \in vBlocksInFlight[p] :
                           /\ b \notin data
                           /\ \E i \in 1..Len(wire[p]) :
                                /\ wire[p][i].type \in {"block", "cmpctblock", "blocktxn"}
                                /\ wire[p][i].hash = b
                      /\ Cardinality(vBlocksInFlight[p]) <= MAX_BLOCKS_IN_TRANSIT_PER_PEER
    BY Zenon DEF InFlightIsOwed
  <2>1. Cardinality(vBlocksInFlight[p]) <= MAX_BLOCKS_IN_TRANSIT_PER_PEER
    <3>1. nBlocksInFlight[p] = Cardinality(vBlocksInFlight[p])
      BY Zenon DEF OweInv, IInv, FlightOK
    <3>2. nBlocksInFlight[p] <= MAX_BLOCKS_IN_TRANSIT_PER_PEER
      BY Zenon DEF OweInv, RequestsOK
    <3> QED  BY Zenon, <3>1, <3>2
  <2>2. \A b : Answers(b) \subseteq {"block", "cmpctblock", "blocktxn"}
    BY DEF Answers
  <2> QED  BY Zenon, <2>1, <2>2 DEF OweInv, RequestsOK, Carries
<1> QED  BY <1>1, OweInvariant, PTL
=============================================================================
