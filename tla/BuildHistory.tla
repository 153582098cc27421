---------------------------- MODULE BuildHistory ----------------------------
(***************************************************************************)
(* What the build history promises a reader of GET /api/v1/cicd/builds,    *)
(* with goroutines, semaphore, Jenkins and faults hidden: a job's row      *)
(* starts as "queued" with nothing else known; a row only moves forward    *)
(* through the stages of a build; the queue item and the build it names    *)
(* are never replaced; and only a restart with the memory store forgets.   *)
(***************************************************************************)
EXTENDS BuildRecords, Naturals

CONSTANT Durable

VARIABLE rows

\* The stage of a build a record has reached; the last one for a verdict, or
\* for nothing.
Stage(r) ==
  CASE r.status = "queued" /\ r.queue = None  -> 0
    [] r.status = "triggering"                -> 1
    [] r.status = "queued" /\ r.queue # None  -> 2
    [] r.status = "RUNNING"                   -> 3
    [] OTHER                                  -> 4

\* A row r may be replaced by s.
Advances(r, s) ==
  /\ s.id = r.id
  /\ s.owner = r.owner
  /\ Stage(r) <= Stage(s)
  /\ Stage(r) = 4 => s = [r EXCEPT !.notifySent = s.notifySent]
  /\ r.queue # None => s.queue = r.queue
  /\ r.build # None => s.build = r.build
  /\ r.tag = "numbered" => s.tag = r.tag
  /\ r.notifySent => s.notifySent

Init == rows = [i \in {} |-> BlankRecord]

\* A first row of an accepted item.
Accept(j) ==
  /\ j \notin DOMAIN rows
  /\ rows' = [k \in DOMAIN rows \cup {j} |->
                IF k = j THEN FirstRecord(j) ELSE rows[k]]

\* A row without an owner, saved after an earlier save failed.  (Here and in
\* Advance the new row is whatever rows' holds: the module is a property of
\* BuildTracking, not a generator of behaviours.)
Stray(i) ==
  /\ i \notin DOMAIN rows
  /\ DOMAIN rows' = DOMAIN rows \cup {i}
  /\ rows'[i] \in Record
  /\ rows'[i].id = i /\ rows'[i].owner = None
  /\ \A k \in DOMAIN rows : rows'[k] = rows[k]

Advance(i) ==
  /\ DOMAIN rows' = DOMAIN rows
  /\ Advances(rows[i], rows'[i])
  /\ \A k \in DOMAIN rows \ {i} : rows'[k] = rows[k]

Forget == ~Durable /\ rows' = [i \in {} |-> BlankRecord]

Next ==
  \/ \E j \in Job : Accept(j)
  \/ \E i \in SpareId : Stray(i)
  \/ \E i \in DOMAIN rows : Advance(i)
  \/ Forget

Spec == Init /\ [][Next]_rows
=============================================================================
