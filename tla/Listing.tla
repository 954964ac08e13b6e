------------------------------- MODULE Listing -------------------------------
(***************************************************************************)
(* ListVolumes and ListSnapshots of the CSI controller service             *)
(* (pkg/hostpath/controllerserver.go), page by page: a sidecar walks       *)
(* through a listing by handing every next_token back as starting_token,   *)
(* while volumes and snapshots come and go between the pages.              *)
(***************************************************************************)
EXTENDS Integers, FiniteSets, SequencesExt

CONSTANTS
    Sorted,     \* all the ids there may be, in sort.Strings order of their paths
    Numeric,    \* the ids that strconv.ParseUint accepts
    Provider,   \* id -> the snapshot provider that keeps it
    PageSizes,  \* max_entries of the sidecars; 0: no limit
    None        \* no token

Ids == ToSet(Sorted)
Providers == {Provider[i] : i \in Ids}

ASSUME ConstantsAssumption ==
    /\ IsInjective(Sorted)
    /\ Numeric \subseteq Ids
    /\ PageSizes \subseteq Nat
    /\ None \notin Ids

VARIABLES
    present,   \* the directories that exist
    walk,      \* the walk of the sidecar: what it asks for and what it was told
    stable,    \* ids present since the walk began
    changed    \* something came or went since the walk began

vars == <<present, walk, stable, changed>>

Walk == [kind : {"volumes", "snapshots"}, max : PageSizes, got : Seq(Ids),
         token : Ids \cup (1..Len(Sorted)) \cup {None},
         status : {"walking", "done", "refused", "panic"}]
NoWalk == [kind |-> "volumes", max |-> 0, got |-> <<>>, token |-> None,
           status |-> "done"]

(* getStoragePoolDataDirectories, GetAllSnapshots: sorted by path. *)
ListOf(S) == SelectSeq(Sorted, LAMBDA i : i \in S)

Init ==
    /\ present \in SUBSET Ids
    /\ walk = NoWalk
    /\ stable = {}
    /\ changed = FALSE

-----------------------------------------------------------------------------
Answer(status, entries, token) == [status |-> status, entries |-> entries, token |-> token]

End(list, start, max) ==
    LET n == Len(list)
        size == IF max = 0 THEN n ELSE max
    IN  IF start + size > n THEN n ELSE start + size


(* list[start:end], and the token of the next entry unless at most one entry
   is left. *)
Page(list, start, max, tokens) ==
    LET end == End(list, start, max)
    IN  IF end < Len(list) - 1
        THEN Answer("walking", SubSeq(list, start + 1, end), tokens[end + 1])
        ELSE Answer("done", SubSeq(list, start + 1, end), None)

(* IndexOfStartingToken *)
IndexOf(token, list) ==
    IF token \in ToSet(list) THEN (CHOOSE i \in DOMAIN list : list[i] = token) - 1 ELSE -1

(* The token is the name of a volume, and must also be a number. *)
ListVolumes(list, token, max) ==
    LET start == IF token = None THEN 0 ELSE IndexOf(token, list)
    IN  IF token \notin Numeric \cup {None} \/ start = -1
        THEN Answer("refused", <<>>, None)
        ELSE Page(list, start, max, list)


ListSnapshotsForEver(list, token, max) ==
    LET start == IF token = None THEN 0 ELSE token - 1
        end == End(list, start, max)
    IN  Answer("walking", SubSeq(list, start + 1, end), end + 1)

(* The token is a position, from 1.  A slice that begins behind the end of the
   list panics. *)
ListSnapshots(list, token, max) ==
    LET start == IF token = None THEN 0 ELSE token - 1
    IN  IF list = <<>>
        THEN Answer(IF token = None THEN "done" ELSE "refused", <<>>, None)
        ELSE IF start > Len(list)
        THEN Answer("panic", <<>>, None)
        ELSE Page(list, start, max, [i \in DOMAIN list |-> i])

(* The providers of ListSnapshots come in the order of a Go map, which differs
   from call to call. *)
ProviderOrders == {o \in [1..Cardinality(Providers) -> Providers] : IsInjective(o)}
SnapshotLists ==
    {FlattenSeq([k \in DOMAIN o |-> ListOf({i \in present : Provider[i] = o[k]})]) :
       o \in ProviderOrders}

-----------------------------------------------------------------------------
StartWalk(kind, max) ==
    /\ walk.status # "walking"
    /\ walk' = [kind |-> kind, max |-> max, got |-> <<>>, token |-> None,
                status |-> "walking"]
    /\ stable' = present
    /\ changed' = FALSE
    /\ UNCHANGED present

Told(answer) ==
    walk' = [walk EXCEPT !.got = @ \o answer.entries, !.token = answer.token,
                         !.status = answer.status]

VolumesPage ==
    /\ walk.status = "walking"
    /\ walk.kind = "volumes"
    /\ Told(ListVolumes(ListOf(present), walk.token, walk.max))
    /\ UNCHANGED <<present, stable, changed>>

SnapshotsPage ==
    /\ walk.status = "walking"
    /\ walk.kind = "snapshots"
    /\ \E list \in SnapshotLists : Told(ListSnapshots(list, walk.token, walk.max))
    /\ UNCHANGED <<present, stable, changed>>

(* CreateVolume, CreateSnapshot, DeleteVolume and DeleteSnapshot. *)
Comes(i) ==
    /\ i \notin present
    /\ present' = present \cup {i}
    /\ changed' = TRUE
    /\ UNCHANGED <<walk, stable>>

Goes(i) ==
    /\ i \in present
    /\ present' = present \ {i}
    /\ stable' = stable \ {i}
    /\ changed' = TRUE
    /\ UNCHANGED walk

Next ==
    \/ \E kind \in {"volumes", "snapshots"}, max \in PageSizes : StartWalk(kind, max)
    \/ VolumesPage
    \/ SnapshotsPage
    \/ \E i \in Ids : Comes(i) \/ Goes(i)

Spec == Init /\ [][Next]_vars

-----------------------------------------------------------------------------
(* Properties *)

TypeOK ==
    /\ present \subseteq Ids
    /\ walk \in Walk
    /\ stable \subseteq present
    /\ changed \in BOOLEAN

Ends(kind) == walk.kind = kind /\ walk.status = "walking" /\ walk'.status = "done"


(* All the pages are cut from the same list. *)
OneList == walk.max = 0 \/ \A i, j \in present : Provider[i] = Provider[j]


(* A walk through snapshots that nobody changes lists them all. *)
EverySnapshotListed ==
    [][Ends("snapshots") /\ ~changed /\ OneList => present \subseteq ToSet(walk'.got)]_vars

(* The next_token of a page of volumes is accepted as the starting_token of
   the next page, if the volumes have not changed. *)
TokenAccepted == walk.status = "refused" => changed

=============================================================================
