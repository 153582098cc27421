---------------------------- MODULE BuildRecords ----------------------------
(***************************************************************************)
(* The rows of the build history (build_store.go): what a BuildRecord      *)
(* holds, reduced to the fields the properties tell apart.                 *)
(*                                                                         *)
(* A Job is one accepted item of POST /api/v1/cicd/builds.  The UUID that  *)
(* the store gives the job's first row is represented by the job itself;   *)
(* SpareId are the UUIDs it gives to records saved later without an ID.    *)
(* Service, Branch and JenkinsJob, always copied together, are one field   *)
(* "owner"; a Jenkins queue item or build is named by the job whose        *)
(* trigger created it.                                                     *)
(***************************************************************************)
CONSTANTS Job, SpareId, None

ASSUME IdAssumption ==
  /\ None \notin Job \cup SpareId
  /\ Job \cap SpareId = {}

Id == Job \cup SpareId

(***************************************************************************)
(* The results Jenkins reports for a finished build ("UNKNOWN" when the    *)
(* build has stopped and carries no result), and the statuses that end a   *)
(* record: Jenkins' verdict, or "FAILED", the tracker's own.               *)
(***************************************************************************)
Verdict == {"SUCCESS", "FAILURE", "UNKNOWN"}
Terminal == Verdict \cup {"FAILED"}
Status == {"", "queued", "triggering", "RUNNING"} \cup Terminal

Record == [id     : Id \cup {None},
           owner  : Job \cup {None},
           status : Status,
           queue  : Job \cup {None},
           build  : Job \cup {None},
           number : BOOLEAN,
           tag    : {"", "pending", "numbered"},
           notifySent : BOOLEAN]

\* BuildRecord{}, which a failed Save returns.
BlankRecord == [id |-> None, owner |-> None, status |-> "", queue |-> None,
                build |-> None, number |-> FALSE, tag |-> "",
                notifySent |-> FALSE]

\* The record the trigger handler saves: expectedImageForService gives every
\* image the tag "<branch>-pending".
FirstRecord(j) == [BlankRecord EXCEPT !.id = j, !.owner = j,
                                      !.status = "queued", !.tag = "pending"]
=============================================================================
