---------------------------- MODULE MemberLogs ----------------------------
(***************************************************************************)
(* What the shared log promises, without segments, buffers or files.       *)
(*                                                                         *)
(* There is one log of records, numbered by LSN, to which every member     *)
(* appends.  A prefix of it is durable.  A crash cuts the log back to some *)
(* prefix that contains the durable one, the same cut for every member.    *)
(* A member's checkpoint lets the owner forget the member's records up to  *)
(* it, and only those.                                                     *)
(***************************************************************************)
EXTENDS Integers, FiniteSets

CONSTANTS
    Members, Values,
    MaxTop      \* bound: records accepted

ASSUME MaxTopAssumption == MaxTop \in Nat

VARIABLES
    log,        \* LSN -> [id, seq, value], for the LSNs not forgotten
    top,        \* last LSN accepted
    durable,    \* last LSN known to survive a crash
    seq,        \* member -> its last sequence number
    checkpoint, \* member -> its records up to here may be forgotten
    retired     \* members whose records are all given up

vars == <<log, top, durable, seq, checkpoint, retired>>

Records == [id : Members, seq : Nat \ {0}, value : Values]

Init ==
    /\ log = [l \in {} |-> 0]
    /\ top = 0 /\ durable = 0
    /\ seq = [m \in Members |-> 0]
    /\ checkpoint = [m \in Members |-> 0]
    /\ retired = {}

Accept(m, value) ==
    /\ m \notin retired /\ top < MaxTop
    /\ top' = top + 1
    /\ seq' = [seq EXCEPT ![m] = @ + 1]
    /\ log' = [l \in DOMAIN log \cup {top + 1} |->
                  IF l = top + 1 THEN [id |-> m, seq |-> seq[m] + 1, value |-> value]
                  ELSE log[l]]
    /\ UNCHANGED <<durable, checkpoint, retired>>

Persist ==
    /\ durable' \in durable .. top
    /\ UNCHANGED <<log, top, seq, checkpoint, retired>>

(* A member gives up its records, all of which are durable. *)
Checkpoint(m) ==
    /\ m \notin retired
    /\ \A l \in DOMAIN log : log[l].id = m => l <= durable
    /\ checkpoint' = [checkpoint EXCEPT ![m] = seq[m]]
    /\ UNCHANGED <<log, top, durable, seq, retired>>

(* A member and all its records are given up. *)
Retire(m) ==
    /\ retired' = retired \cup {m}
    /\ checkpoint' = [checkpoint EXCEPT ![m] = seq[m]]
    /\ UNCHANGED <<log, top, durable, seq>>

(* Mutant: one record more than has been given up. *)
ForgetOneMore ==
    \E low \in 1 .. top + 1 :
        /\ \A l \in DOMAIN log : l < low => log[l].seq <= checkpoint[log[l].id] + 1
        /\ log' = [l \in DOMAIN log \cap (low .. top) |-> log[l]]
        /\ UNCHANGED <<top, durable, seq, checkpoint, retired>>

(* Records that have been given up go, the oldest first. *)
Forget ==
    \E low \in 1 .. top + 1 :
        /\ \A l \in DOMAIN log : l < low => log[l].seq <= checkpoint[log[l].id]
        /\ log' = [l \in DOMAIN log \cap (low .. top) |-> log[l]]
        /\ UNCHANGED <<top, durable, seq, checkpoint, retired>>

(* The last sequence number of a member once the log ends at `cut`. *)
SeqAt(m, cut) ==
    LET kept == {log[l].seq : l \in {k \in DOMAIN log : k <= cut /\ log[k].id = m}}
                \cup {checkpoint[m]}
    IN  CHOOSE s \in kept : \A r \in kept : r <= s

(* What is not durable may go.  Of what is, a member may turn out to have  *)
(* given up more than it knew of.                                          *)
Crash ==
    /\ checkpoint' \in [Members -> Nat]
    /\ \A m \in Members : checkpoint'[m] \in checkpoint[m] .. SeqAt(m, durable)
    /\ \E cut \in durable .. top :
        /\ top' = cut /\ durable' = cut
        /\ log' = [l \in DOMAIN log \cap (1 .. cut) |-> log[l]]
        /\ seq' = [m \in Members |-> SeqAt(m, cut)]
    /\ UNCHANGED retired

Next ==
    \/ \E m \in Members, value \in Values : Accept(m, value)
    \/ Persist
    \/ \E m \in Members : Checkpoint(m) \/ Retire(m)
    \/ Forget
    \/ Crash

Spec == Init /\ [][Next]_vars

-----------------------------------------------------------------------------
TypeOK ==
    /\ top \in Nat /\ durable \in 0 .. top
    /\ DOMAIN log \subseteq 1 .. top
    /\ \A l \in DOMAIN log : log[l] \in Records
    /\ seq \in [Members -> Nat]
    /\ checkpoint \in [Members -> Nat]
    /\ retired \subseteq Members

(* A member's records above its checkpoint are all there: nothing it still *)
(* needs is lost by a crash, by forgetting, or by what other members do.   *)
Complete ==
    \A m \in Members \ retired : \A s \in checkpoint[m] + 1 .. seq[m] :
        \E l \in DOMAIN log : log[l].id = m /\ log[l].seq = s

(* Each of a member's records is there once, in the order they were        *)
(* accepted in, although crashes cut the log and its LSNs are used again.  *)
Ordered ==
    \A k, l \in DOMAIN log :
        log[k].id = log[l].id => (k < l <=> log[k].seq < log[l].seq)

(* What is needed beside them for an induction: no record is newer than    *)
(* the member's last one, and a crash can only take what is not given up.  *)
Bounded ==
    /\ \A l \in DOMAIN log : log[l].seq <= seq[log[l].id]
    /\ \A m \in Members : checkpoint[m] <= seq[m]
    /\ \A m \in retired : checkpoint[m] = seq[m]
IInv == TypeOK /\ Complete /\ Ordered /\ Bounded
=============================================================================
