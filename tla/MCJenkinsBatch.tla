--------------------------- MODULE MCJenkinsBatch ---------------------------
(***************************************************************************)
(* JenkinsBatch for TLC: jobs whose names compete for the services         *)
(* <<"web">> and <<"web", "admin">>, in one folder or two, in any order.   *)
(***************************************************************************)
EXTENDS JenkinsBatch

Job(url, name, params) == [url |-> url, name |-> name, params |-> params]

Jobs ==
  {Job("u1", <<"test", "web", "kaniko">>, <<"tag", "git_branch", "branch">>),
   Job("u2", <<"web", "kaniko">>, <<>>),
   Job("u3", <<"web", "admin">>, <<"tag", "source_branch">>),
   Job("u4", <<"web", "admin", "kaniko">>, <<"branch">>),
   Job("u5", <<"web", "kaniko">>, <<"branch">>)}

Web == [service |-> <<"web">>, branch |-> "main"]
Admin == [service |-> <<"web", "admin">>, branch |-> "dev"]

\* One folder with up to three jobs, or two folders with one each.
MCTrees ==
  {<<s>> : s \in UNION {SetToSeqs(js) : js \in {x \in SUBSET Jobs : Cardinality(x) <= 3}}} \cup
  {<<<<j>>, <<k>>>> : <<j, k>> \in {jk \in Jobs \X Jobs : jk[1] # jk[2]}}

MCBatches == {<<Web, Admin>>, <<Web, Web>>, <<Admin, Web, Admin>>}
=============================================================================
