---------------------------- MODULE MCReadPaths ----------------------------
(***************************************************************************)
(* ReadPaths for TLC: all begins well, two things change, two reads fail.  *)
(* Two containers, three tags on pages of two, alerts of two names.         *)
(***************************************************************************)
EXTENDS ReadPaths, TLC

Rollout(phase, condition) == [phase |-> phase, condition |-> condition]

Alert(fingerprint, alertname, namespace, pod) ==
  [fingerprint |-> fingerprint, alertname |-> alertname, namespace |-> namespace, pod |-> pod]

Crash1 == Alert("f1", "crash", "dev", "p1")
Crash2 == Alert("f2", "crash", "dev", "p2")
CrashOps == Alert("f3", "crash", "dev-ops", "p1")
NodeDown == Alert("f4", "node", None, None)

Line(namespace, pod, says) == [namespace |-> namespace, pod |-> pod, says |-> says]

MCOptions ==
  [argo        |-> [tag : {"t1", "t2", None}, state : {"good", "bad", "blank"}],
   pushed      |-> {<<>>, <<"t1">>, <<"t2", "t1">>, <<"t3", "t2", "t1">>},
   job         |-> SUBSET BOOLEAN,
   service     |-> SUBSET BOOLEAN,
   rollout     |-> {None, Rollout("Healthy", FALSE), Rollout("Progressing", TRUE),
                    Rollout("Degraded", FALSE)},
   routes      |-> {None, "some"},
   cpuRequests |-> {<<>>} \cup [{"a", "b"} -> {0, 10, 20}],
   memRequests |-> {<<>>} \cup [{"a"} -> {10}],
   cpuUsage    |-> {<<>>} \cup [{"a"} -> {2, 3}] \cup [{"a", "b"} -> {3, 6}],
   memUsage    |-> {<<>>} \cup [{"a"} -> {2, 3}],
   alerts      |-> {<<>>, <<Crash1>>, <<Crash2, Crash1>>, <<CrashOps, Crash2>>, <<NodeDown>>},
   logs        |-> {{}, {Line(n, p, s) : n \in {"dev", "dev-ops"}, p \in {"p1", "p2"},
                                         s \in {"crash", "node", "crash node"}}}]

\* Each value is found in itself, the shorter of two in the longer.
MCWordIn ==
  {<<v, v>> : v \in {"dev", "dev-ops", "p1", "p2", "crash", "node", "crash node"}} \cup
  {<<"dev", "dev-ops">>, <<"crash", "crash node">>, <<"node", "crash node">>,
   <<"p*", "p1">>, <<"p*", "p2">>}

\* The systems agree that "t1" runs well, in one world with a Rollout.
MCStart ==
  {[argo        |-> [tag |-> "t1", state |-> "good"],
    pushed      |-> <<"t1">>,
    job         |-> job,
    service     |-> {TRUE},
    rollout     |-> rollout,
    routes      |-> "some",
    cpuRequests |-> "a" :> 10 @@ "b" :> 20,
    memRequests |-> "a" :> 10,
    cpuUsage    |-> "a" :> 3 @@ "b" :> 6,
    memUsage    |-> "a" :> 3,
    alerts      |-> <<Crash1>>,
    logs        |-> {Line("dev", "p1", "crash"), Line("dev-ops", "p1", "crash node"), Line("dev", "p2", "crash")}] :
   job \in {{TRUE}, {}}, rollout \in {None, Rollout("Healthy", FALSE)}}

MCAsks ==
  [fingerprint : {None, "f1", "f4"}, alertname : {"crash", None}, namespace : {None, "dev"},
   pod : {None, "p*"}] \ [fingerprint : {None}, alertname : {None}, namespace : {None, "dev"},
   pod : {None, "p*"}]
=============================================================================
