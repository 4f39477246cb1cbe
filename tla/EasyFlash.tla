----------------------------- MODULE EasyFlash -----------------------------
(***************************************************************************)
(* The environment variables of EasyFlash (ef_env.c): nodes appended to    *)
(* flash sectors, updated out of place, collected by copying, and          *)
(* recovered after a loss of power at any write.                           *)
(*                                                                         *)
(* A call runs under the lock of the port, so it is one step; it is a      *)
(* function of a machine m: the flash, the variables in RAM, and the set   *)
(* of all the images of the flash the call went through.  A loss of power  *)
(* leaves one of these images and clears the RAM.                          *)
(*                                                                         *)
(* A node is written by four writes: PRE_WRITE, header, name and value,    *)
(* WRITE.  One write is not torn.  The cache of the sectors' ends is left  *)
(* out: it always agrees with the flash.                                   *)
(***************************************************************************)
EXTENDS Integers, FiniteSets, Sequences, SequencesExt

CONSTANTS
    Sectors,   \* numbered from 1
    Keys,
    EnvLen,    \* for each key, the length of its node for each of its values
    Spaces,    \* the sizes of a sector to look at
    EF_SEC_REMAIN_THRESHOLD,
    EF_GC_EMPTY_SEC_THRESHOLD,
    MaxLosses, \* bound on the losses of power
    None

ASSUME EasyFlashAssumption ==
    /\ IsFiniteSet(Sectors) /\ Sectors = 1 .. Cardinality(Sectors)
    /\ EF_GC_EMPTY_SEC_THRESHOLD \in 1 .. Cardinality(Sectors) - 1
    /\ Spaces \subseteq Nat
    /\ DOMAIN EnvLen = Keys
    /\ \A k \in Keys, n \in Spaces : \A v \in DOMAIN EnvLen[k] : EnvLen[k][v] \in 2 .. n - 1
    /\ EF_SEC_REMAIN_THRESHOLD \in Nat /\ MaxLosses \in Nat
    /\ None \notin Keys /\ \A k \in Keys : None \notin DOMAIN EnvLen[k]

VARIABLES
    space,   \* SECTOR_SIZE without the header: one of Spaces, and it stays
    flash,   \* per sector: header check, store and dirty status, nodes
    ram,     \* gc_request, last_is_complete_del, env_cache_table
    phase,   \* "up", "off", or where ef_load_env is: "check", "collect"
    losses,  \* how often power was lost
    may      \* history: the values each key may have

vars == <<space, flash, ram, phase, losses, may>>

\* What an interrupted write leaves, once it has been read: a header without a length.
Stub == [status |-> "ERR_HDR", ok |-> FALSE, key |-> None, value |-> None, len |-> 1]
Empty == [check_ok |-> TRUE, store |-> "EMPTY", dirty |-> "FALSE", env |-> <<>>]
PowerOn == [gc_request |-> FALSE, last_is_complete_del |-> FALSE, cache |-> [k \in Keys |-> None]]

Init ==
    /\ space \in Spaces
    /\ flash = [s \in Sectors |-> Empty]
    /\ ram = PowerOn
    /\ phase = "up"
    /\ losses = 0
    /\ may = [k \in Keys |-> {None}]
-----------------------------------------------------------------------------
(***************************************************************************)
(* Reading.  An address is a sector and the index of a node in it.         *)
(***************************************************************************)
InOrder == SetToSortSeq(Sectors, <)
First(S) == IF S = {} THEN None ELSE CHOOSE s \in S : \A t \in S : s <= t

At(m, a) == m.flash[a[1]].env[a[2]]

Remain(sec) == space - FoldLeft(LAMBDA n, e : n + e.len, 0, sec.env)

\* The addresses env_iterator goes through, in order.
Addresses(m) ==
    FlattenSeq([i \in DOMAIN InOrder |->
        LET sec == m.flash[InOrder[i]]
        IN  IF sec.check_ok /\ sec.store # "EMPTY"
            THEN [j \in DOMAIN sec.env |-> <<InOrder[i], j>>] ELSE <<>>])

find_env_no_cache(m, k) ==
    LET found == SelectSeq(Addresses(m), LAMBDA a : /\ At(m, a).ok
                                                    /\ At(m, a).status = "WRITE"
                                                    /\ At(m, a).key = k)
    IN  IF found = <<>> THEN None ELSE Head(found)

\* The status of the node is not looked at.
get_env_from_cache(m, k) ==
    LET a == m.cache[k]
    IN  IF a # None /\ a[2] \in DOMAIN m.flash[a[1]].env /\ At(m, a).key = k THEN a ELSE None

\* What a search finds enters the cache.
find_env(m, k) ==
    IF get_env_from_cache(m, k) # None THEN get_env_from_cache(m, k) ELSE find_env_no_cache(m, k)
Cached(m, k) == IF find_env(m, k) = None THEN m ELSE [m EXCEPT !.cache[k] = find_env(m, k)]

get_env(m, k) == IF find_env(m, k) = None THEN None ELSE At(m, find_env(m, k)).value
-----------------------------------------------------------------------------
(***************************************************************************)
(* Writing                                                                 *)
(***************************************************************************)
Write(m, s, sec) ==
    LET image == [m.flash EXCEPT ![s] = sec]
    IN  [m EXCEPT !.flash = image, !.images = @ \cup {image}]

WriteNode(m, s, i, env) ==
    Write(m, s, [m.flash[s] EXCEPT !.env = IF i \in DOMAIN @ THEN [@ EXCEPT ![i] = env] ELSE Append(@, env)])

write_status(m, a, status) == WriteNode(m, a[1], a[2], [At(m, a) EXCEPT !.status = status])

\* The erased sector has no magic word.
format_sector(m, s) == Write(Write(m, s, [Empty EXCEPT !.check_ok = FALSE]), s, Empty)

update_env_cache(m, k, a) == [m EXCEPT !.cache[k] = a]

\* EMPTY becomes USING; USING becomes FULL when too little remains behind the new node.
update_sec_status(m, s, len) ==
    LET sec == m.flash[s]
        full == sec.store = "USING" /\ Remain(sec) - len < EF_SEC_REMAIN_THRESHOLD
    IN  [m |-> IF sec.store = "EMPTY" THEN Write(m, s, [sec EXCEPT !.store = "USING"])
               ELSE IF full THEN Write(m, s, [sec EXCEPT !.store = "FULL"])
               ELSE m,
         is_full |-> full]

\* The four writes of a node; its CRC is good once the value is there.
write_env(m, s, k, v) ==
    LET i == Len(m.flash[s].env) + 1
        node == [status |-> "PRE_WRITE", ok |-> TRUE, key |-> k, value |-> v, len |-> EnvLen[k][v]]
        header == WriteNode(WriteNode(m, s, i, Stub), s, i, [node EXCEPT !.ok = FALSE, !.key = None, !.value = None])
        data == WriteNode(header, s, i, node)
    IN  update_env_cache(write_status(data, <<s, i>>, "WRITE"), k, <<s, i>>)

DropCached(m, k, complete_del) ==
    IF complete_del /\ ~m.last_is_complete_del /\ k # None THEN update_env_cache(m, k, None) ELSE m

MarkDirty(m, s) ==
    IF m.flash[s].dirty = "FALSE" THEN Write(m, s, [m.flash[s] EXCEPT !.dirty = "TRUE"]) ELSE m

\* The status of the node, then the cache if a key is given.
ChangeStatus(m, k, a, complete_del) ==
    [DropCached(write_status(m, a, IF complete_del THEN "DELETED" ELSE "PRE_DELETE"), k, complete_del)
        EXCEPT !.last_is_complete_del = ~complete_del]

\* The sector is marked after the node.
del_env(m, k, a, complete_del) == MarkDirty(ChangeStatus(m, k, a, complete_del), a[1])
-----------------------------------------------------------------------------
(***************************************************************************)
(* Allocation, moving and garbage collection                               *)
(***************************************************************************)
EmptySectors(m) == {s \in Sectors : m.flash[s].check_ok /\ m.flash[s].store = "EMPTY"}

\* A dirty sector only while no collection is requested, a sector under collection never.
alloc_env_cb(m, s, len) ==
    /\ m.flash[s].check_ok /\ Remain(m.flash[s]) > len
    /\ m.flash[s].dirty = "FALSE" \/ (m.flash[s].dirty = "TRUE" /\ ~m.gc_request)

\* Mutant: the last empty sector is given out like any other.
alloc_env_NoReserve(m, len) ==
    LET fit == {s \in Sectors : m.flash[s].store \in {"USING", "EMPTY"} /\ alloc_env_cb(m, s, len)}
    IN  [m |-> [m EXCEPT !.gc_request = @ \/ fit = {}], s |-> First(fit)]

\* From a sector in use; else from an empty one, but the last one only for a collection.
alloc_env(m, len) ==
    LET using == {s \in Sectors : m.flash[s].store = "USING" /\ alloc_env_cb(m, s, len)}
        empty == {s \in EmptySectors(m) : alloc_env_cb(m, s, len)}
        enough == Cardinality(EmptySectors(m)) > EF_GC_EMPTY_SEC_THRESHOLD \/ m.gc_request
    IN  [m |-> [m EXCEPT !.gc_request = @ \/ (using = {} /\ EmptySectors(m) # {} /\ ~enough)],
         s |-> IF using # {} THEN First(using) ELSE IF enough THEN First(empty) ELSE None]

Copy(m, s, env) == write_env(update_sec_status(m, s, env.len).m, s, env.key, env.value)

\* Mutant: in the recovery too, a node is copied without a look for the new one.
MoveTo_Duplicates(alloc, a) ==
    [m |-> del_env(Copy(alloc.m, alloc.s, At(alloc.m, a)), None, a, TRUE), moved |-> TRUE]

\* In the recovery nothing is copied if the new node exists.
MoveTo(alloc, a) ==
    [m |-> del_env(IF /\ alloc.m.in_recovery_check
                      /\ find_env_no_cache(alloc.m, At(alloc.m, a).key) # None
                   THEN alloc.m ELSE Copy(alloc.m, alloc.s, At(alloc.m, a)), None, a, TRUE),
     moved |-> TRUE]

MoveIf(alloc, a) == IF alloc.s = None THEN [m |-> alloc.m, moved |-> FALSE] ELSE MoveTo(alloc, a)

\* The space comes first, even where nothing is to be copied.
move_env(m, a) ==
    MoveIf(alloc_env(IF At(m, a).status = "WRITE" THEN del_env(m, None, a, FALSE) ELSE m, At(m, a).len), a)

\* The sector is formatted even if a node could not be moved.
do_gc(m, s) ==
    LET begun == Write(m, s, [m.flash[s] EXCEPT !.dirty = "GC"])
        Collect(n, i) == IF At(n, <<s, i>>).ok /\ At(n, <<s, i>>).status \in {"WRITE", "PRE_DELETE"}
                         THEN move_env(n, <<s, i>>).m ELSE n
    IN  IF m.flash[s].check_ok /\ m.flash[s].dirty \in {"TRUE", "GC"}
        THEN format_sector(FoldLeft(Collect, begun, [i \in DOMAIN m.flash[s].env |-> i]), s)
        ELSE m

\* Mutant: the request stays.
gc_collect_KeepsRequest(m) ==
    IF Cardinality(EmptySectors(m)) <= EF_GC_EMPTY_SEC_THRESHOLD THEN FoldLeft(do_gc, m, InOrder) ELSE m

gc_collect(m) ==
    LET done == IF Cardinality(EmptySectors(m)) <= EF_GC_EMPTY_SEC_THRESHOLD
                THEN FoldLeft(do_gc, m, InOrder) ELSE m
    IN  [done EXCEPT !.gc_request = FALSE]
-----------------------------------------------------------------------------
(***************************************************************************)
(* The calls                                                               *)
(***************************************************************************)
\* One collection, then one more attempt.
Retry(once, len) ==
    IF once.s = None /\ once.m.gc_request THEN alloc_env(gc_collect(once.m), len) ELSE once
new_env(m, len) == Retry(alloc_env(m, len), len)

create_env_blob(m, s, k, v) ==
    LET status == update_sec_status(m, s, EnvLen[k][v])
    IN  [write_env(status.m, s, k, v) EXCEPT !.gc_request = @ \/ status.is_full]

\* Mutant: the old node is deleted at once.
Replace_InPlace(m, s, k, v, old) ==
    create_env_blob(IF old = None THEN m ELSE del_env(m, k, old, TRUE), s, k, v)

\* Prepare to delete the old node, create the new one, delete the old one.
Replace(m, s, k, v, old) ==
    IF old = None THEN create_env_blob(m, s, k, v)
    ELSE del_env(create_env_blob(del_env(m, k, old, FALSE), s, k, v), k, old, TRUE)

CollectIf(m) == IF m.gc_request THEN gc_collect(m) ELSE m

SetAt(new, k, v) ==
    IF new.s = None THEN [m |-> new.m, set |-> FALSE]
    ELSE [m |-> CollectIf(Replace(new.m, new.s, k, v, find_env(new.m, k))), set |-> TRUE]

set_env(m, k, v) == SetAt(new_env(m, EnvLen[k][v]), k, v)

Machine(recovery) ==
    [flash |-> flash, images |-> {flash}, in_recovery_check |-> recovery, gc_request |-> ram.gc_request,
     last_is_complete_del |-> ram.last_is_complete_del, cache |-> ram.cache]

\* A call of m ends, or power is lost in it.
Completes(m) ==
    /\ flash' = m.flash
    /\ ram' = [gc_request |-> m.gc_request, last_is_complete_del |-> m.last_is_complete_del, cache |-> m.cache]
    /\ UNCHANGED <<space, losses>>

LosesPower(m) ==
    /\ losses < MaxLosses
    /\ losses' = losses + 1
    /\ flash' \in m.images
    /\ ram' = PowerOn
    /\ phase' = "off"
    /\ UNCHANGED space

ef_set_env_blob(k, v) ==
    LET r == set_env(Machine(FALSE), k, v)
    IN  /\ phase = "up"
        /\ \/ /\ Completes(r.m)
              /\ may' = IF r.set THEN [may EXCEPT ![k] = {v}] ELSE may
              /\ UNCHANGED phase
           \/ /\ LosesPower(r.m)
              /\ may' = [may EXCEPT ![k] = @ \cup {v}]

ef_get_env_blob(k) ==
    /\ phase = "up"
    /\ Completes(Cached(Machine(FALSE), k))
    /\ UNCHANGED <<phase, may>>

ef_del_env(k) ==
    LET m == Cached(Machine(FALSE), k)
        r == del_env(m, k, find_env(m, k), TRUE)
    IN  /\ phase = "up" /\ find_env(m, k) # None
        /\ \/ /\ Completes(r)
              /\ may' = [may EXCEPT ![k] = {None}]
              /\ UNCHANGED phase
           \/ /\ LosesPower(r)
              /\ may' = [may EXCEPT ![k] = @ \cup {None}]
-----------------------------------------------------------------------------
(***************************************************************************)
(* ef_load_env                                                             *)
(***************************************************************************)
check_sec_hdr_cb(m, s) == IF m.flash[s].check_ok THEN m ELSE format_sector(m, s)

\* read_env takes the first address of a sector in use for a node and marks it.
MarkFirst(m, s) ==
    IF m.flash[s].store # "EMPTY" /\ m.flash[s].env = <<>> THEN WriteNode(m, s, 1, Stub) ELSE m

check_and_recovery_gc_cb(m, s) ==
    IF m.flash[s].dirty = "GC" THEN gc_collect([m EXCEPT !.gc_request = TRUE]) ELSE m

\* A node whose successor is missing is moved; a node that was not finished is marked, and ends
\* the search.
check_and_recovery_env_cb(w, a) ==
    LET env == At(w.m, a)
    IN  IF w.stop THEN w
        ELSE IF env.ok /\ env.status = "PRE_DELETE"
        THEN [m |-> move_env(w.m, a).m, stop |-> ~move_env(w.m, a).moved]
        ELSE IF env.status = "PRE_WRITE"
        THEN [m |-> write_status(w.m, a, "ERR_HDR"), stop |-> TRUE]
        ELSE w

\* The headers, then a collection that was interrupted.
LoadHeaders ==
    LET headers == FoldLeft(MarkFirst, FoldLeft(check_sec_hdr_cb, Machine(TRUE), InOrder), InOrder)
        m == FoldLeft(check_and_recovery_gc_cb, headers, InOrder)
    IN  /\ phase = "off"
        /\ \/ Completes(m) /\ phase' = "check"
           \/ LosesPower(m)
        /\ UNCHANGED may

\* The search through all nodes, and again after a collection if one is requested.
CheckEnvs ==
    LET m == FoldLeft(check_and_recovery_env_cb, [m |-> Machine(TRUE), stop |-> FALSE],
                      Addresses(Machine(TRUE))).m
    IN  /\ phase = "check"
        /\ \/ /\ Completes(m)
              /\ phase' = IF m.gc_request THEN "collect" ELSE "up"
              /\ may' = IF m.gc_request THEN may ELSE [k \in Keys |-> may[k] \cap {get_env(m, k)}]
           \/ /\ LosesPower(m)
              /\ UNCHANGED may

CollectAndRetry ==
    LET m == gc_collect(Machine(TRUE))
    IN  /\ phase = "collect"
        /\ \/ Completes(m) /\ phase' = "check"
           \/ LosesPower(m)
        /\ UNCHANGED may

ef_load_env == LoadHeaders \/ CheckEnvs \/ CollectAndRetry

Next ==
    \/ \E k \in Keys : ef_get_env_blob(k) \/ ef_del_env(k) \/ \E v \in DOMAIN EnvLen[k] : ef_set_env_blob(k, v)
    \/ ef_load_env

\* The start of the system runs on.  While it is not up every step is one of ef_load_env, and
\* changes one of these two variables: this is weak fairness of ef_load_env, in a form whose
\* ENABLED is evaluated without running ef_load_env.
LoadRuns == phase # "up" /\ phase' \in {"up", "off", "check", "collect"} /\ losses' \in 0 .. MaxLosses

Spec == Init /\ [][Next]_vars /\ WF_<<phase, losses>>(LoadRuns)
-----------------------------------------------------------------------------
\* A sector has room for all nodes at their longest and for what is left of one unfinished copy
\* of each loss of power so far.  Without that a collection may find no room for a node and formats
\* its sector all the same: see the README, "Findings".
Longest(k) == Max({EnvLen[k][v] : v \in DOMAIN EnvLen[k]})
Roomy == space > MapThenSumSet(Longest, Keys) + losses * Max({Longest(k) : k \in Keys})

\* Every key reads as the last call that returned left it; after a loss of power and the
\* recovery, as that call or the interrupted one left it, and so it stays.
Durable == phase = "up" /\ Roomy => \A k \in Keys : get_env(Machine(FALSE), k) \in may[k]

\* Between calls no key has two nodes that a later start could take for its value.
OneCopy ==
    phase = "up" /\ Roomy => \A k \in Keys :
        LET m == Machine(FALSE)
        IN  Len(SelectSeq(Addresses(m), LAMBDA a :
                    /\ At(m, a).ok /\ At(m, a).key = k
                    /\ At(m, a).status \in {"WRITE", "PRE_DELETE"})) <= 1

\* Between calls a sector is empty: "There is at least one empty sector for GC", and the design
\* says that without it no collection is possible.
KeepsReserve == phase = "up" /\ Roomy => EmptySectors(Machine(FALSE)) # {}

\* The trap of the recovery: power was lost between PRE_DELETE and the dirty mark, so no sector is
\* dirty and a collection does nothing; there is no room for the node, and because there is an empty
\* sector a collection is asked for.  No unfinished node ends the search before it gets there.
Trapped ==
    LET m == Machine(TRUE)
        env == [i \in DOMAIN Addresses(m) |-> At(m, Addresses(m)[i])]
    IN  /\ phase = "check" /\ EmptySectors(m) # {}
        /\ \A s \in Sectors : flash[s].dirty = "FALSE"
        /\ \E i \in DOMAIN env :
              /\ env[i].ok /\ env[i].status = "PRE_DELETE" /\ alloc_env(m, env[i].len).s = None
              /\ \A j \in 1 .. i - 1 : env[j].status # "PRE_WRITE"

\* The recovery, which repeats its search after each collection, comes to an end, or it is in that
\* trap: see the README, "Findings".
LoadEnds == phase # "up" ~> (phase = "up" \/ Trapped)
=============================================================================
