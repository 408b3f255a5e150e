------------------------------- MODULE GCRules -------------------------------
(***************************************************************************)
(* The ip-rule and route cleanup at the end of a garbage-collection pass  *)
(* of startGarbageCollectionLoop (src/daemon/daemon.go), and the deletion *)
(* of the expired records that follows it.  Each record here is that of a *)
(* pod that is gone and holds one ENIIP, whose id is "<eniID>.<ip>" when  *)
(* well formed.  Kind says how the id fares in the cleanup: "noDot" has   *)
(* no separator, "badIP" has one but its IP part does not parse, "ipv4"   *)
(* parses.  The rest of the pass (the listing, the scan, the managers'    *)
(* GarbageCollection) is Coordinator's GCRun; here a pass in which every *)
(* manager succeeded (gcDone) reaches the cleanup with the expired ids,   *)
(* and a pass in which one failed changes nothing this module keeps.      *)
(* DeleteIPRulesByIP and DeleteRouteByIP only log their errors, so the    *)
(* kernel is abstracted to the set of ids both calls were made for.  The  *)
(* whole pass runs under the write lock, so no handler interleaves.       *)
(***************************************************************************)
EXTENDS Naturals

CONSTANTS
    Ids,     \* ENIIP resource ids of expired records
    Kind     \* Kind[i] \in {"noDot", "badIP", "ipv4"}

ASSUME Kind \in [Ids -> {"noDot", "badIP", "ipv4"}]

VARIABLES
    recs,       \* ids whose record is still in the resource DB
    pc,         \* "tick" between passes, "clean" in the closure, "db" after it
    todo,       \* ids of expireSet[ENIIP] the map range has not visited yet
    attempted   \* ids whose IP rules and routes the cleanup tried to delete

vars == <<recs, pc, todo, attempted>>

Init ==
    /\ recs = Ids
    /\ pc = "tick"
    /\ todo = {}
    /\ attempted = {}

\* A pass with gcDone: the closure ranges over expireSet[ENIIP], the ids of
\* the expired records (an absent map key ranges over nothing).
Tick ==
    /\ pc = "tick"
    /\ pc' = "clean"
    /\ todo' = recs
    /\ UNCHANGED <<recs, attempted>>

\* One iteration of `for resID := range resMap`, in the map's arbitrary
\* order: an id without "." is skipped; one whose IP does not parse ends
\* the closure (return); a parsed IP has its rules and routes deleted.
CleanStep(i) ==
    /\ pc = "clean"
    /\ i \in todo
    /\ \/ /\ Kind[i] = "noDot"
          /\ todo' = todo \ {i}
          /\ UNCHANGED <<pc, attempted>>
       \/ /\ Kind[i] = "badIP"
          /\ pc' = "db"
          /\ todo' = {}
          /\ UNCHANGED attempted
       \/ /\ Kind[i] = "ipv4"
          /\ attempted' = attempted \cup {i}
          /\ todo' = todo \ {i}
          /\ UNCHANGED pc
    /\ UNCHANGED recs

\* The range ends.
CleanEnd ==
    /\ pc = "clean"
    /\ todo = {}
    /\ pc' = "db"
    /\ UNCHANGED <<recs, todo, attempted>>

\* resourceDB.Delete for every record of relateExpireList, each of which
\* may fail and leave its record for the next pass.
DeleteRecords ==
    /\ pc = "db"
    /\ \E failed \in SUBSET recs :
          recs' = failed
    /\ pc' = "tick"
    /\ UNCHANGED <<todo, attempted>>

Next ==
    \/ Tick
    \/ \E i \in Ids : CleanStep(i)
    \/ CleanEnd
    \/ DeleteRecords

Spec == Init /\ [][Next]_vars

(***************************************************************************)
(* Spec sections 4.6 and 8: malformed ENIIP ids are skipped without       *)
(* aborting the route-rule cleanup, so by the time the GC has deleted the *)
(* record of a well-formed ENIIP id, it has tried to delete that IP's     *)
(* kernel rules and routes.  Once the record is gone no later pass sees   *)
(* the id again.                                                           *)
(***************************************************************************)
ExpiredIPRulesCleaned ==
    \A i \in Ids : Kind[i] = "ipv4" /\ i \notin recs => i \in attempted
=============================================================================
