---------------------------- MODULE MCTaskTests -----------------------------
(***************************************************************************)
(* The encoding tests of mod tests in nipxxa.rs as TaskTests records.  Each       *)
(* literal of a test ranges over the small sets of MCTaskLifecycle: the  *)
(* identifier "333e500a-..." is "T1", every description is "d", titles   *)
(* and hashtags are drawn from MCTitles and MCHashtags, timestamps from  *)
(* MCTimestamps, the image URL from MCUrls and keys from MCPubKeys; a     *)
(* literal the test writes out is the model's format of the value.       *)
(***************************************************************************)
EXTENDS TaskTests, MCTaskLifecycle

\* Builder call .method(arg).
C(method, arg) == [method |-> method, arg |-> arg]
D == <<"d", "T1">>   \* vec!["d", "333e500a-..."]
P(k) == PubKeyFormat[k]
\* test_task makes five builder calls.
MCTestMaxCalls == 5

\* test_task
TestTask ==
  { [id |-> "T1", description |-> "d",
     calls |-> << C("title", s), C("published_at", p), C("due_at", q), C("add_tag", h),
                  C("add_user", <<k, RoleAssignee>>) >>,
     tags |-> << D, <<"title", s>>, <<"published_at", U64Format[p]>>,
                 <<"due_at", U64Format[q]>>, <<"t", h>>, <<"p", P(k), "assignee">> >>]
    : s \in MCTitles, p, q \in MCTimestamps, h \in MCHashtags, k \in MCPubKeys }

\* test_task_with_archived
TestTaskWithArchived ==
  { [id |-> "T1", description |-> "d",
     calls |-> << C("archived", TRUE) >>,
     tags |-> << D, <<"archived", "true">> >>] }

\* test_task_with_multiple_users
TestTaskWithMultipleUsers ==
  { [id |-> "T1", description |-> "d",
     calls |-> << C("add_user", <<k1, RoleAssignee>>), C("add_user", <<k2, RoleClient>>),
                  C("add_user", <<k3, RoleNone>>) >>,
     tags |-> << D, <<"p", P(k1), "assignee">>, <<"p", P(k2), "client">>, <<"p", P(k3)>> >>]
    : k1, k2, k3 \in MCPubKeys }

\* test_task_with_image
TestTaskWithImage ==
  { [id |-> "T1", description |-> "d",
     calls |-> << C("image", u) >>,
     tags |-> << D, <<"image", u>> >>] : u \in MCUrls }

\* test_task_with_multiple_tags
TestTaskWithMultipleTags ==
  { [id |-> "T1", description |-> "d",
     calls |-> << C("add_tags", <<h1, h2, h3>>) >>,
     tags |-> << D, <<"t", h1>>, <<"t", h2>>, <<"t", h3>> >>] : h1, h2, h3 \in MCHashtags }

MCTests ==
  [test_task |-> TestTask,
   test_task_with_archived |-> TestTaskWithArchived,
   test_task_with_multiple_users |-> TestTaskWithMultipleUsers,
   test_task_with_image |-> TestTaskWithImage,
   test_task_with_multiple_tags |-> TestTaskWithMultipleTags]

=============================================================================
