----------------------------- MODULE HostedApps -----------------------------
(***************************************************************************)
(* The control plane of one hosted app (apps.py, apps_platform.py and      *)
(* PostgresHostedAppsRepository): the draft of what the app may do, the    *)
(* revision that numbers the draft's changes, the immutable releases that  *)
(* copy it, and the switches that decide whether one is delivered.         *)
(*                                                                         *)
(* One transaction is one step, and most requests are one; an update       *)
(* (rename, visibility, archive, restore) reads the whole row in one and   *)
(* writes the whole row in another, and a publish reads the row, the       *)
(* bindings and the collections before the transaction that compares the   *)
(* revision.  The other requests may commit between any two steps.  Beside *)
(* them an editor changes the configuration of a workflow that the app     *)
(* binds, in place, and then has the review of the bindings invalidated.   *)
(***************************************************************************)
EXTENDS Naturals

CONSTANTS
  Writers,       \* requests that update the row
  Publishers,    \* requests that publish
  Releases,      \* release ids
  NoRelease,
  AutoEnable,    \* ORCHEO_HOSTED_APPS_AUTO_ENABLE_RUNTIME
  MaxRequests    \* bound: requests begun

ASSUME AppsAssumption == NoRelease \notin Releases /\ MaxRequests \in Nat

VARIABLES
  app,           \* the hosted_apps row
  draft,         \* what a review is of; see Draft
  releases,      \* the hosted_app_releases rows
  writer,        \* what each update holds between its two transactions
  publisher,     \* what each publish has read
  invalidating,  \* configuration changes whose invalidation is to come
  blocked,       \* a moderation block on the app is not lifted
  runtime,       \* hosted_app_runtime_state
  boot,          \* "up", or what the backend's start still has to do
  begun,         \* requests begun so far
  torn           \* an update has written back a row that was out of date

rowVars     == <<app, draft, releases, torn>>
requestVars == <<writer, publisher, invalidating>>
switchVars  == <<blocked, runtime, boot>>
controlVars == <<rowVars, requestVars, switchVars, begun>>

-----------------------------------------------------------------------------
Visibility  == {"public", "private"}
Wanted      == Visibility \cup {"same"}
Publication == {"draft", "published", "unpublished"}
Edits       == {"rename", "archive", "restore"} \cup Visibility

App == [visibility : Visibility, publication : Publication, archived : BOOLEAN,
        active : Releases \cup {NoRelease}, revision : Nat, acknowledged : Nat]

(* Versions of the live bindings and collections, the number of ready      *)
(* deployments with a manifest, the version of the bound workflow's        *)
(* configuration, and whether a live binding row is of that workflow.      *)
Draft == [bindings : Nat, collections : Nat, deployments : Nat, config : Nat,
          bound : BOOLEAN]

(* What a release lets the app do.  A deployment with a manifest gets      *)
(* bindings that are built from it and from the workflow's configuration   *)
(* of the moment; any other the draft's, whose rows hold copies of the     *)
(* configuration they were saved with.                                     *)
Grants == [deployment : Nat, bindings : Nat, collections : Nat]
GrantsOf(d, dr) ==
  [deployment |-> d, bindings |-> IF d = 0 THEN dr.bindings ELSE dr.config,
   collections |-> dr.collections]
NoGrants == [deployment |-> 0, bindings |-> 0, collections |-> 0]

NoRow == [visibility |-> "public", publication |-> "draft", archived |-> FALSE,
          active |-> NoRelease, revision |-> 1, acknowledged |-> 0]
NoWrite == [step |-> "idle", edit |-> "rename", row |-> NoRow]
NoPublish == [step |-> "idle", ack |-> 0, wanted |-> "same", guess |-> "public",
              seen |-> NoGrants, reviewed |-> NoGrants]

(* "reviewed" is a history variable: what its administrator had reviewed.  *)
Unreleased == [made |-> FALSE, revision |-> 0, grants |-> NoGrants, reviewed |-> NoGrants]

(* A new app, or one with a binding, published once and not changed since. *)
ControlInit ==
  /\ \/ app = NoRow /\ releases = [r \in Releases |-> Unreleased]
     \/ \E r0 \in Releases :
          /\ app = [NoRow EXCEPT !.publication = "published", !.active = r0,
                                 !.acknowledged = 1]
          /\ releases = [r \in Releases |-> IF r = r0
                           THEN [Unreleased EXCEPT !.made = TRUE, !.revision = 1]
                           ELSE Unreleased]
  /\ draft = [bindings |-> 0, collections |-> 0, deployments |-> 0, config |-> 0,
              bound |-> app.active # NoRelease]
  /\ writer = [w \in Writers |-> NoWrite]
  /\ publisher = [p \in Publishers |-> NoPublish]
  /\ invalidating = 0
  /\ blocked = FALSE
  /\ runtime = [enabled |-> TRUE, generation |-> 1]
  /\ boot = "up"
  /\ begun = 0
  /\ torn = FALSE

(* A request is begun: only by a backend that is up.                       *)
Begin == boot = "up" /\ begun < MaxRequests /\ begun' = begun + 1

-----------------------------------------------------------------------------
(* Changes of the draft: each advances the revision in its transaction.    *)

Revise == [app EXCEPT !.revision = @ + 1]

(* save_binding, delete_binding.                                           *)
ChangeBindings ==
  /\ Begin
  /\ \E bound \in BOOLEAN :
       draft' = [draft EXCEPT !.bindings = @ + 1, !.bound = bound]
  /\ app' = Revise
  /\ UNCHANGED <<releases, torn, requestVars, switchVars>>

(* A mutation: the collection is stored and the revision left alone. *)
ChangeCollectionsUnrevised ==
  /\ Begin
  /\ draft' = [draft EXCEPT !.collections = @ + 1]
  /\ UNCHANGED <<app, releases, torn, requestVars, switchVars>>

(* save_collection, delete_collection.                                     *)
ChangeCollections ==
  /\ Begin
  /\ draft' = [draft EXCEPT !.collections = @ + 1]
  /\ app' = Revise
  /\ UNCHANGED <<releases, torn, requestVars, switchVars>>

(* add_deployment of one that is ready and has a manifest; the others      *)
(* change nothing that is modelled.                                        *)
AddDeployment ==
  /\ Begin
  /\ draft' = [draft EXCEPT !.deployments = @ + 1]
  /\ app' = Revise
  /\ UNCHANGED <<releases, torn, requestVars, switchVars>>

(* update_workflow_version_runnable_config changes the configuration of    *)
(* the version in place ...                                                *)
ChangeConfig ==
  /\ Begin
  /\ draft' = [draft EXCEPT !.config = @ + 1]
  /\ invalidating' = invalidating + 1
  /\ UNCHANGED <<app, releases, torn, writer, publisher, switchVars>>

(* ... and calls invalidate_bindings_for_workflow, which advances the      *)
(* revision of an app with a live binding row of the workflow, and of no   *)
(* app that binds it in the manifest of a deployment only.                 *)
InvalidateBindings ==
  /\ invalidating > 0
  /\ invalidating' = invalidating - 1
  /\ app' = IF draft.bound THEN Revise ELSE app
  /\ UNCHANGED <<draft, releases, torn, writer, publisher, switchVars, begun>>

-----------------------------------------------------------------------------
(* update_app, archive_app, restore_app.                                   *)

ReadRow(w, edit) ==
  /\ writer[w].step = "idle" /\ Begin
  /\ writer' = [writer EXCEPT ![w] = [step |-> "read", edit |-> edit, row |-> app]]
  /\ UNCHANGED <<rowVars, publisher, invalidating, switchVars>>

(* A mutation: a restored app is delivered at once. *)
EditedRepublish(row, edit) ==
  CASE edit \in Visibility -> [row EXCEPT !.visibility = edit, !.revision = @ + 1]
    [] edit = "archive"    -> [row EXCEPT !.archived = TRUE]
    [] edit = "restore"    -> [row EXCEPT !.archived = FALSE, !.publication = "published"]
    [] edit = "rename"     -> row

Edited(row, edit) ==
  CASE edit \in Visibility -> [row EXCEPT !.visibility = edit, !.revision = @ + 1]
    [] edit = "archive"    -> [row EXCEPT !.archived = TRUE]
    [] edit = "restore"    -> [row EXCEPT !.archived = FALSE]
    [] edit = "rename"     -> row

(* PostgresHostedAppsRepository.update_app locks the row and overwrites    *)
(* every column of it with the copy.                                       *)
WriteRow(w) ==
  /\ writer[w].step = "read"
  /\ app' = Edited(writer[w].row, writer[w].edit)
  /\ torn' = (torn \/ writer[w].row # app)
  /\ writer' = [writer EXCEPT ![w] = NoWrite]
  /\ UNCHANGED <<draft, releases, publisher, invalidating, switchVars, begun>>

-----------------------------------------------------------------------------
(* publish_app.                                                            *)

(* An administrator has reviewed the draft and acknowledges its revision.  *)
SendPublish(p, d, wanted) ==
  /\ publisher[p].step = "idle" /\ Begin
  /\ d <= draft.deployments
  /\ publisher' = [publisher EXCEPT ![p] =
       [step |-> "sent", ack |-> app.revision, wanted |-> wanted, guess |-> "public",
        seen |-> [NoGrants EXCEPT !.deployment = d], reviewed |-> GrantsOf(d, draft)]]
  /\ UNCHANGED <<rowVars, writer, invalidating, switchVars>>

(* One of the handler's reads.                                             *)
Reads(p, from, to, request) ==
  /\ publisher[p].step = from
  /\ publisher' = [publisher EXCEPT ![p] = [request EXCEPT !.step = to]]
  /\ UNCHANGED <<rowVars, writer, invalidating, switchVars, begun>>

ReadApp(p) == Reads(p, "sent", "app", [publisher[p] EXCEPT !.guess = app.visibility])

(* list_bindings; or _resolve_manifest_bindings, which builds them from    *)
(* the workflow as it is now.                                              *)
ReadBindings(p) ==
  Reads(p, "app", "bindings", [publisher[p] EXCEPT !.seen =
    [@ EXCEPT !.bindings = GrantsOf(publisher[p].seen.deployment, draft).bindings]])

(* _resolve_manifest_bindings finds no such workflow or version.           *)
ResolutionFails(p) ==
  /\ publisher[p].seen.deployment > 0
  /\ Reads(p, "app", "idle", NoPublish)

ReadCollections(p) ==
  Reads(p, "bindings", "collections", [publisher[p] EXCEPT !.seen =
    [@ EXCEPT !.collections = draft.collections]])

One(condition) == IF condition THEN 1 ELSE 0

(* The release's visibility, and the revision it claims, both from the     *)
(* visibility that was read.                                               *)
Asked(p)   == IF publisher[p].wanted = "same" THEN publisher[p].guess
              ELSE publisher[p].wanted
Claimed(p) == publisher[p].ack + One(Asked(p) # publisher[p].guess)

(* A mutation: nothing is compared under the row's lock. *)
AdmitsAnyRevision(p) == ~app.archived /\ publisher[p].step = "collections"

(* publish_release: what it checks under the row's lock.  suspended_at is  *)
(* never set.                                                              *)
Admits(p) ==
  /\ ~app.archived
  /\ Claimed(p) = app.revision + One(Asked(p) # app.visibility)

CommitPublish(p) ==
  /\ publisher[p].step = "collections"
  /\ IF Admits(p)
     THEN \E r \in Releases :
            /\ ~releases[r].made
            /\ releases' = [releases EXCEPT ![r] =
                 [made |-> TRUE, revision |-> Claimed(p), grants |-> publisher[p].seen,
                  reviewed |-> publisher[p].reviewed]]
            /\ app' = [visibility |-> Asked(p), publication |-> "published",
                       archived |-> app.archived, active |-> r,
                       revision |-> Claimed(p), acknowledged |-> Claimed(p)]
     ELSE UNCHANGED <<app, releases>>
  /\ publisher' = [publisher EXCEPT ![p] = NoPublish]
  /\ UNCHANGED <<draft, torn, writer, invalidating, switchVars, begun>>

-----------------------------------------------------------------------------
(* The switches.                                                           *)

Unpublish ==
  /\ Begin
  /\ app' = [app EXCEPT !.publication = "unpublished"]
  /\ UNCHANGED <<draft, releases, torn, requestVars, switchVars>>

(* create_moderation_block, lift_moderation_block.                         *)
Moderate ==
  /\ Begin
  /\ blocked' = ~blocked
  /\ UNCHANGED <<rowVars, requestVars, runtime, boot>>

(* set_runtime_enabled: every change starts a new generation.              *)
Switched(enabled) == [enabled |-> enabled, generation |-> runtime.generation + 1]

SetRuntime(enabled) ==
  /\ Begin
  /\ runtime' = Switched(enabled)
  /\ UNCHANGED <<rowVars, requestVars, blocked, boot>>

(* A crash: the requests under way are gone, their transactions rolled     *)
(* back.                                                                   *)
DropRequests ==
  /\ writer' = [w \in Writers |-> NoWrite]
  /\ publisher' = [p \in Publishers |-> NoPublish]
  /\ invalidating' = 0
  /\ boot' = "checking"
  /\ UNCHANGED <<rowVars, blocked, runtime, begun>>

(* _auto_enable_self_hosted_runtime reads the runtime state ...            *)
CheckRuntime ==
  /\ boot = "checking"
  /\ boot' = IF AutoEnable /\ ~runtime.enabled THEN "enabling" ELSE "up"
  /\ UNCHANGED <<rowVars, requestVars, blocked, runtime, begun>>

(* ... and enables it.                                                     *)
EnableRuntime ==
  /\ boot = "enabling"
  /\ boot' = "up"
  /\ runtime' = Switched(TRUE)
  /\ UNCHANGED <<rowVars, requestVars, blocked, begun>>

(* resolve_descriptor finds a release to deliver.                          *)
Published == app.publication = "published" /\ ~app.archived /\ app.active # NoRelease
Resolvable == runtime.enabled /\ ~blocked /\ Published

-----------------------------------------------------------------------------
ChangeDraft == ChangeBindings \/ ChangeCollections \/ AddDeployment
               \/ ChangeConfig \/ InvalidateBindings
Update(w)   == (\E edit \in Edits : ReadRow(w, edit)) \/ WriteRow(w)
Publish(p)  ==
  \/ \E d \in 0 .. MaxRequests, wanted \in Wanted : SendPublish(p, d, wanted)
  \/ ReadApp(p) \/ ReadBindings(p) \/ ResolutionFails(p) \/ ReadCollections(p)
  \/ CommitPublish(p)
Switch      == Unpublish \/ Moderate \/ (\E e \in BOOLEAN : SetRuntime(e))
Start       == CheckRuntime \/ EnableRuntime

ControlNext ==
  \/ ChangeDraft
  \/ \E w \in Writers : Update(w)
  \/ \E p \in Publishers : Publish(p)
  \/ Switch
  \/ Start

-----------------------------------------------------------------------------
(* Properties.                                                             *)

ControlTypeOK ==
  /\ app \in App
  /\ draft \in Draft
  /\ releases \in [Releases -> [made : BOOLEAN, revision : Nat, grants : Grants,
                                reviewed : Grants]]
  /\ writer \in [Writers -> [step : {"idle", "read"}, edit : Edits, row : App]]
  /\ publisher \in [Publishers ->
       [step : {"idle", "sent", "app", "bindings", "collections"}, ack : Nat,
        wanted : Wanted, guess : Visibility, seen : Grants, reviewed : Grants]]
  /\ invalidating \in Nat
  /\ blocked \in BOOLEAN
  /\ runtime \in [enabled : BOOLEAN, generation : Nat]
  /\ boot \in {"up", "checking", "enabling"}
  /\ begun \in Nat
  /\ torn \in BOOLEAN

(* What the revision stands for: all that a release grants, except for the *)
(* bindings of a manifest.  Those are resolved again at every publish, and *)
(* the configuration they copy may have changed under the same revision    *)
(* (apps.py:882).                                                          *)
Covered(grants) ==
  IF grants.deployment = 0 THEN grants ELSE [grants EXCEPT !.bindings = 0]

(* Whatever commits between a publish's reads, the release grants what the *)
(* administrator reviewed at the revision that was acknowledged: the same  *)
(* deployment, collections and stored bindings -- as long as no update has *)
(* written back an old revision (apps.py:905).                             *)
ReleasedAsReviewed ==
  ~torn => \A r \in Releases : Covered(releases[r].grants) = Covered(releases[r].reviewed)

(* An app whose published revision is its draft's has nothing to review in *)
(* what the revision covers: there the active release grants what the      *)
(* draft now says.                                                         *)
NothingToReview ==
  ~torn /\ app.active # NoRelease /\ app.acknowledged = app.revision =>
    LET grants == releases[app.active].grants IN
    Covered(grants) = Covered(GrantsOf(grants.deployment, draft))

(* Only a publish, or restoring a published app, brings an app back, or an *)
(* update that overwrites the row with one from before it was withdrawn.   *)
WithdrawnStaysWithdrawn ==
  [][~Published /\ Published' =>
       \/ \E r \in Releases : ~releases[r].made /\ releases'[r].made
       \/ app.archived /\ app.publication = "published"
       \/ \E w \in Writers : writer[w].row # app /\ writer[w] # NoWrite
                            /\ writer'[w] = NoWrite]_controlVars
=============================================================================
