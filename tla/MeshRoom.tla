------------------------------ MODULE MeshRoom ------------------------------
(***************************************************************************)
(* The data of one mesh room of the signaling server, and the operations   *)
(* its methods perform on it while the room's mutex is held:               *)
(* signaling/internal/modes/mesh/room/{room,pair,roster}.go.               *)
(*                                                                         *)
(* A peer ID (a UUID in the code) is the number of its admission: peers    *)
(* are told apart, and never reused, which is all a UUID is good for.      *)
(***************************************************************************)
EXTENDS Integers, FiniteSets

CONSTANTS
  MaxSlots,   \* capacity of a room: MaxParticipants, 4 in the code
  MaxPeers    \* bound: admissions the instance performs, over all rooms

ASSUME MaxSlotsAssumption == MaxSlots \in Nat \ {0}
ASSUME MaxPeersAssumption == MaxPeers \in Nat \ {0}

Peers == 1..MaxPeers
NoPeer == 0

\* A room performs at most MaxPeers admissions, so MaxPeers bounds its
\* admission indices too.
Indices == 1..MaxPeers

(***************************************************************************)
(* The pair ledger.  A pair ID is "<lo>-<hi>", two admission indices in    *)
(* decimal: an injective name of the ordered pair.  A pair the ledger does *)
(* not hold is in state "absent"; PairIdle exists only inside the critical *)
(* section that registers the pair, and PairConnected and PairClosed are   *)
(* assigned nowhere.                                                       *)
(***************************************************************************)
PairIds == {id \in Indices \X Indices : id[1] < id[2]}

MakePairID(i, j) == IF i < j THEN <<i, j>> ELSE <<j, i>>

PairStates == {"absent", "pairing", "failed", "reconnecting"}

Pair == [state : PairStates, epoch : Nat,
         lo : Peers \cup {NoPeer}, hi : Peers \cup {NoPeer}]

NoPair == [state |-> "absent", epoch |-> 0, lo |-> NoPeer, hi |-> NoPeer]

Has(rm, id) == rm.pairs[id].state # "absent"

PairPairing(lo, hi) ==
  [state |-> "pairing", epoch |-> 1, lo |-> lo, hi |-> hi]

\* Register every pair of new, a function from pair IDs to ledger entries;
\* an entry the ledger holds is left as it is.
Register(rm, new) ==
  [rm EXCEPT !.pairs =
     [id \in PairIds |-> IF id \in DOMAIN new /\ ~ Has(rm, id)
                         THEN new[id] ELSE rm.pairs[id]]]

\* Variant of MarkFailed with a bug: a state no handler knows of.
MarkClosed(rm, id) == [rm EXCEPT !.pairs[id].state = "closed"]

\* pair.State = PairFailed.
MarkFailed(rm, id) == [rm EXCEPT !.pairs[id].state = "failed"]

\* Increment, then pair.State = PairReconnecting.
Increment(rm, id) ==
  [rm EXCEPT !.pairs[id] =
     [state |-> "reconnecting", epoch |-> @.epoch + 1, lo |-> @.lo, hi |-> @.hi]]

-----------------------------------------------------------------------------
(***************************************************************************)
(* The room: the slot table, the participants map (its keys; what a        *)
(* *Participant holds is in the server's module, since pointers to it      *)
(* outlive the map entry), the two counters and the ledger.                *)
(***************************************************************************)
Room == [slots            : [1..MaxSlots -> Peers \cup {NoPeer}],
         participants     : SUBSET Peers,
         admissionCounter : Nat,
         rosterSeq        : Nat,
         pairs            : [PairIds -> Pair]]

NewRoom == [slots            |-> [i \in 1..MaxSlots |-> NoPeer],
            participants     |-> {},
            admissionCounter |-> 0,
            rosterSeq        |-> 0,
            pairs            |-> [id \in PairIds |-> NoPair]]

FreeSlots(rm) == {i \in 1..MaxSlots : rm.slots[i] = NoPeer}

IsFull(rm) == FreeSlots(rm) = {}

IsEmpty(rm) == FreeSlots(rm) = 1..MaxSlots

LowestFree(rm) == {i \in FreeSlots(rm) : \A j \in FreeSlots(rm) : i <= j}

\* Admit p into slot i, the lowest free one; its admission index is the
\* counter's new value.
Admit(rm, p, i) ==
  [rm EXCEPT !.slots = [@ EXCEPT ![i] = p],
             !.participants = @ \cup {p},
             !.admissionCounter = @ + 1]

\* Variants of Release with a bug: the slot is not cleared; the counter is
\* taken for the number of participants.
ReleaseKeepsSlot(rm, p) == [rm EXCEPT !.participants = @ \ {p}]

ReleaseCountsDown(rm, p) ==
  [rm EXCEPT !.slots = [i \in 1..MaxSlots |-> IF @[i] = p THEN NoPeer ELSE @[i]],
             !.participants = @ \ {p},
             !.admissionCounter = @ - 1]

\* Free p's slot.  The counter and the ledger keep what they hold.
Release(rm, p) ==
  [rm EXCEPT !.slots = [i \in 1..MaxSlots |-> IF @[i] = p THEN NoPeer ELSE @[i]],
             !.participants = @ \ {p}]

NextRosterSeq(rm) == [rm EXCEPT !.rosterSeq = @ + 1]

=============================================================================
