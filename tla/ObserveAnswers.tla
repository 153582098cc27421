--------------------------- MODULE ObserveAnswers ---------------------------
(***************************************************************************)
(* What cloudops-observe asks for, and concludes, for the list of wasted   *)
(* resources and for the detail of an alert.  "got" holds what each read   *)
(* has returned, "ask" the parameters of the request.                      *)
(***************************************************************************)
EXTENDS Naturals, Sequences, SequencesExt, Reads

CONSTANT
  WordIn   \* pairs of a word and a value that VictoriaLogs finds it in

----------------------------------------------------------------------------
(***************************************************************************)
(* Resources: requests and usage are partial functions on containers.      *)
(***************************************************************************)
ResourceReads == <<"cpuRequests", "memRequests", "cpuUsage", "memUsage">>

\* parseVector: a failed query has no series.
Vector(answer) == IF Answered(answer) THEN answer ELSE <<>>

\* A container without a series uses nothing.
Used(usage, c) == IF c \in DOMAIN usage THEN usage[c] ELSE 0

\* Mutant: at 30% it is waste, too.
WasteListAtMost(requests, usage) ==
  {c \in DOMAIN requests : requests[c] > 0 /\ 10 * Used(usage, c) <= 3 * requests[c]}

\* wasteList with its threshold of 0.3.
WasteList(requests, usage) ==
  {c \in DOMAIN requests : requests[c] > 0 /\ 10 * Used(usage, c) < 3 * requests[c]}

\* The queries the answer warns of.
ResourceWarnings(got) == {read \in ToSet(ResourceReads) : got[read] = Failed}

CpuWaste(got) == WasteList(Vector(got.cpuRequests), Vector(got.cpuUsage))
MemWaste(got) == WasteList(Vector(got.memRequests), Vector(got.memUsage))

----------------------------------------------------------------------------
(***************************************************************************)
(* The detail of an alert.                                                 *)
(***************************************************************************)
DetailReads == <<"alerts", "metrics", "logs">>

\* The pod of the request is not compared.
Matches(ask, alert) ==
  /\ ask.fingerprint # None => alert.fingerprint = ask.fingerprint
  /\ ask.alertname # None => alert.alertname = ask.alertname
  /\ ask.namespace # None => alert.namespace = ask.namespace

\* The first alert that matches.
Matched(ask, got) ==
  LET alerts == IF Answered(got.alerts) THEN got.alerts ELSE <<>>
      hits == {i \in DOMAIN alerts : Matches(ask, alerts[i])}
  IN IF hits = {} THEN None ELSE alerts[Min(hits)]

\* Mutant: only what the request names.
AskedOnly(ask, alert) == [namespace |-> ask.namespace, pod |-> ask.pod]

\* Metrics and logs are those of what the request names, or else of the alert.
Subject(ask, alert) ==
  [namespace |-> IF ask.namespace # None THEN ask.namespace ELSE alert.namespace,
   pod       |-> IF ask.pod # None THEN ask.pod ELSE alert.pod]

\* Metrics and logs are read for an alert that was found, logs only if the
\* subject has a name.
DetailNeeds(read, ask, got) ==
  LET alert == Matched(ask, got) IN
    CASE read = "alerts"  -> TRUE
      [] read = "metrics" -> alert # None
      [] OTHER            -> alert # None /\ Subject(ask, alert) # [namespace |-> None, pod |-> None]

\* buildLogsQL: a filter on a field finds its word in longer values, too, and
\* validateSelector lets a "*" through.
Lines(ask, alert, logs) ==
  LET subject == Subject(ask, alert) IN
    {line \in logs :
       /\ subject.namespace # None => <<subject.namespace, line.namespace>> \in WordIn
       /\ subject.pod # None => <<subject.pod, line.pod>> \in WordIn
       /\ <<alert.alertname, line.says>> \in WordIn}
=============================================================================
