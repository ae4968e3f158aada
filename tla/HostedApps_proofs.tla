-------------------------- MODULE HostedApps_proofs -------------------------
(***************************************************************************)
(* What the steps of the control plane preserve, for any number of         *)
(* updates, publishes and releases: the types; ReviewInv, from which       *)
(* ReleasedAsReviewed and NothingToReview follow; and MadeInv, that what   *)
(* is delivered was released.  HostedRuntime_proofs turns them into        *)
(* theorems of the composed specification.                                 *)
(***************************************************************************)
EXTENDS HostedApps, TLAPS

-----------------------------------------------------------------------------
(* Types.                                                                  *)

LEMMA InitTypes ==
  NoRow \in App /\ NoGrants \in Grants
  /\ (\A d \in Nat, dr \in Draft : GrantsOf(d, dr) \in Grants)
BY DEF NoRow, App, NoGrants, Grants, GrantsOf, Draft, Visibility, Publication

(* A row with one column changed is a row.                                 *)
LEMMA RowUpdates ==
  ASSUME NEW row \in App
  PROVE  /\ [row EXCEPT !.revision = @ + 1] \in App
         /\ \A v \in Visibility : [row EXCEPT !.visibility = v] \in App
         /\ \A s \in Publication : [row EXCEPT !.publication = s] \in App
         /\ \A b \in BOOLEAN : [row EXCEPT !.archived = b] \in App
         /\ \A r \in Releases : [row EXCEPT !.active = r] \in App
         /\ \A n \in Nat : [row EXCEPT !.acknowledged = n] \in App
<1>1. [row EXCEPT !.revision = @ + 1] \in App
  BY DEF App
<1>2. \A v \in Visibility : [row EXCEPT !.visibility = v] \in App
  BY DEF App
<1>3. \A s \in Publication : [row EXCEPT !.publication = s] \in App
  BY DEF App
<1>4. \A b \in BOOLEAN : [row EXCEPT !.archived = b] \in App
  BY DEF App
<1>5. \A r \in Releases : [row EXCEPT !.active = r] \in App
  BY DEF App
<1>6. \A n \in Nat : [row EXCEPT !.acknowledged = n] \in App
  BY DEF App
<1> QED BY <1>1, <1>2, <1>3, <1>4, <1>5, <1>6

(* What one update makes of a row is a row.                                *)
LEMMA EditedType ==
  ASSUME NEW row \in App, NEW edit \in Edits
  PROVE  Edited(row, edit) \in App
<1>1. CASE edit \in Visibility
  <2> DEFINE shown == [row EXCEPT !.visibility = edit]
  <2>1. shown \in App
    BY <1>1, RowUpdates
  <2>2. [row EXCEPT !.visibility = edit, !.revision = @ + 1]
          = [shown EXCEPT !.revision = @ + 1]
    BY <2>1 DEF App
  <2> HIDE DEF shown
  <2>3. [shown EXCEPT !.revision = @ + 1] \in App
    BY <2>1, RowUpdates
  <2>4. Edited(row, edit) = [row EXCEPT !.visibility = edit, !.revision = @ + 1]
    BY <1>1 DEF Edited, Visibility
  <2> QED BY <2>2, <2>3, <2>4
<1>2. CASE edit \in {"rename", "archive", "restore"}
  BY <1>2, RowUpdates DEF Edited, Visibility
<1> QED BY <1>1, <1>2 DEF Edits

LEMMA ClaimedType ==
  ASSUME ControlTypeOK, NEW p \in Publishers
  PROVE  Claimed(p) \in Nat /\ Asked(p) \in Visibility
BY DEF ControlTypeOK, Claimed, Asked, One, Wanted

LEMMA ControlInitType == ControlInit => ControlTypeOK
<1> SUFFICES ASSUME ControlInit PROVE ControlTypeOK
  OBVIOUS
<1>1. app \in App
  <2> DEFINE published == [NoRow EXCEPT !.publication = "published"]
             active(r) == [published EXCEPT !.active = r]
  <2>1. published \in App
    BY InitTypes, RowUpdates DEF Publication
  <2>2. ASSUME NEW r \in Releases PROVE [active(r) EXCEPT !.acknowledged = 1] \in App
    <3>1. active(r) \in App
      BY <2>1, RowUpdates
    <3> QED BY <3>1, RowUpdates
  <2>3. ASSUME NEW r \in Releases
        PROVE  [NoRow EXCEPT !.publication = "published", !.active = r, !.acknowledged = 1]
                 = [active(r) EXCEPT !.acknowledged = 1]
    BY DEF NoRow
  <2> QED BY <2>2, <2>3, InitTypes DEF ControlInit
<1>2. releases \in [Releases -> [made : BOOLEAN, revision : Nat, grants : Grants,
                                reviewed : Grants]]
  <2> DEFINE made == [Unreleased EXCEPT !.made = TRUE]
             Rel == [made : BOOLEAN, revision : Nat, grants : Grants, reviewed : Grants]
  <2>1. Unreleased \in Rel
    BY InitTypes DEF Unreleased
  <2>2. made \in Rel
    BY <2>1
  <2>3. [made EXCEPT !.revision = 1] \in Rel
    BY <2>2
  <2>4. [Unreleased EXCEPT !.made = TRUE, !.revision = 1] = [made EXCEPT !.revision = 1]
    BY DEF Unreleased
  <2> QED BY <2>1, <2>3, <2>4 DEF ControlInit
<1>3. writer \in [Writers -> [step : {"idle", "read"}, edit : Edits, row : App]]
  BY InitTypes DEF ControlInit, NoWrite, Edits
<1>4. publisher \in [Publishers ->
       [step : {"idle", "sent", "app", "bindings", "collections"}, ack : Nat,
        wanted : Wanted, guess : Visibility, seen : Grants, reviewed : Grants]]
  BY InitTypes DEF ControlInit, NoPublish, Wanted, Visibility
<1>5. draft \in Draft
  BY DEF ControlInit, Draft
<1> QED BY <1>1, <1>2, <1>3, <1>4, <1>5 DEF ControlInit, ControlTypeOK

-----------------------------------------------------------------------------
(* The parts of the state that most steps leave alone.                     *)
LEMMA KeptTypes ==
  ASSUME ControlTypeOK
  PROVE  /\ Begin => begun' \in Nat
         /\ UNCHANGED begun => begun' \in Nat
         /\ Revise \in App
BY RowUpdates DEF ControlTypeOK, Begin, Revise

LEMMA DraftTypes == ASSUME ControlTypeOK, ChangeDraft PROVE ControlTypeOK'
<1> USE KeptTypes DEF ControlTypeOK, requestVars, switchVars
<1>1. CASE ChangeBindings
  <2>1. PICK bound \in BOOLEAN :
          draft' = [draft EXCEPT !.bindings = @ + 1, !.bound = bound]
    BY <1>1 DEF ChangeBindings
  <2> DEFINE next == [draft EXCEPT !.bindings = @ + 1]
  <2>2. next \in Draft
    BY DEF Draft
  <2>3. draft' = [next EXCEPT !.bound = bound]
    BY <2>1 DEF Draft
  <2> HIDE DEF next
  <2>4. draft' \in Draft
    BY <2>2, <2>3 DEF Draft
  <2> QED BY <1>1, <2>4 DEF ChangeBindings
<1>2. CASE ChangeCollections
  BY <1>2 DEF ChangeCollections, Draft
<1>3. CASE AddDeployment
  BY <1>3 DEF AddDeployment, Draft
<1>4. CASE ChangeConfig
  BY <1>4 DEF ChangeConfig, Draft
<1>5. CASE InvalidateBindings
  BY <1>5 DEF InvalidateBindings
<1> QED BY <1>1, <1>2, <1>3, <1>4, <1>5 DEF ChangeDraft

LEMMA UpdateTypes ==
  ASSUME ControlTypeOK, NEW w \in Writers, Update(w) PROVE ControlTypeOK'
<1> USE KeptTypes DEF ControlTypeOK, rowVars, switchVars
<1>1. ASSUME NEW edit \in Edits, ReadRow(w, edit) PROVE ControlTypeOK'
  BY <1>1 DEF ReadRow
<1>2. CASE WriteRow(w)
  <2>1. app' \in App
    BY <1>2, EditedType DEF WriteRow
  <2>2. NoWrite \in [step : {"idle", "read"}, edit : Edits, row : App]
    BY InitTypes DEF NoWrite, Edits
  <2> QED BY <1>2, <2>1, <2>2 DEF WriteRow
<1> QED BY <1>1, <1>2 DEF Update

(* What a publish holds.                                                   *)
PublishType ==
  [step : {"idle", "sent", "app", "bindings", "collections"}, ack : Nat,
   wanted : Wanted, guess : Visibility, seen : Grants, reviewed : Grants]

LEMMA SeenTypes ==
  ASSUME NEW request \in PublishType, NEW grants \in Grants
  PROVE  [request EXCEPT !.seen = grants] \in PublishType
BY DEF PublishType

LEMMA PublishTypes ==
  ASSUME ControlTypeOK, NEW p \in Publishers, Publish(p) PROVE ControlTypeOK'
<1> USE KeptTypes DEF ControlTypeOK, rowVars, switchVars, PublishType
<1>1. ASSUME NEW d \in 0 .. MaxRequests, NEW wanted \in Wanted, SendPublish(p, d, wanted)
      PROVE  ControlTypeOK'
  <2>1. /\ GrantsOf(d, draft) \in Grants
        /\ [NoGrants EXCEPT !.deployment = d] \in Grants
    <3>1. d \in Nat
      BY AppsAssumption
    <3>2. GrantsOf(d, draft) \in Grants
      BY <3>1, InitTypes
    <3>3. [NoGrants EXCEPT !.deployment = d] \in Grants
      BY <3>1 DEF NoGrants, Grants
    <3> QED BY <3>2, <3>3
  <2>2. publisher' \in [Publishers -> PublishType]
    BY <1>1, <2>1 DEF SendPublish, Visibility, App
  <2> QED BY <1>1, <2>2 DEF SendPublish
<1>2. ASSUME NEW from, NEW to \in {"idle", "app", "bindings", "collections"},
             NEW request \in PublishType, Reads(p, from, to, request)
      PROVE  ControlTypeOK'
  <2>1. publisher' \in [Publishers -> PublishType]
    BY <1>2 DEF Reads
  <2> QED BY <1>2, <2>1 DEF Reads
<1>3. CASE ReadApp(p)
  <2>1. publisher[p] \in PublishType /\ app.visibility \in Visibility
    BY DEF App
  <2>2. [publisher[p] EXCEPT !.guess = app.visibility] \in PublishType
    BY ONLY <2>1 DEF PublishType
  <2> QED BY <1>2, <1>3, <2>2 DEF ReadApp
<1>4. CASE ReadBindings(p)
  <2> DEFINE n == GrantsOf(publisher[p].seen.deployment, draft).bindings
             seen == [publisher[p].seen EXCEPT !.bindings = n]
  <2>1. n \in Nat
    BY DEF GrantsOf, Draft
  <2>2. publisher[p] \in PublishType /\ seen \in Grants
    BY <2>1 DEF Grants
  <2>3. [publisher[p] EXCEPT !.seen = seen] \in PublishType
    BY ONLY <2>2, SeenTypes
  <2>4. [publisher[p] EXCEPT !.seen = seen]
          = [publisher[p] EXCEPT !.seen = [@ EXCEPT !.bindings = n]]
    OBVIOUS
  <2> QED BY <1>2, <1>4, <2>3, <2>4 DEF ReadBindings
<1>5. CASE ReadCollections(p)
  <2> DEFINE seen == [publisher[p].seen EXCEPT !.collections = draft.collections]
  <2>1. publisher[p] \in PublishType /\ seen \in Grants
    BY DEF Grants, Draft
  <2>2. [publisher[p] EXCEPT !.seen = seen] \in PublishType
    BY ONLY <2>1, SeenTypes
  <2>3. [publisher[p] EXCEPT !.seen = seen]
          = [publisher[p] EXCEPT !.seen = [@ EXCEPT !.collections = draft.collections]]
    OBVIOUS
  <2> QED BY <1>2, <1>5, <2>2, <2>3 DEF ReadCollections
<1>6. CASE CommitPublish(p)
  <2>1. NoPublish \in PublishType
    BY InitTypes DEF NoPublish, Wanted, Visibility
  <2>2. publisher' \in [Publishers -> PublishType]
    BY <1>6, <2>1 DEF CommitPublish
  <2>3. app' \in App
    BY <1>6, ClaimedType DEF CommitPublish, App, Publication
  <2>4. releases' \in [Releases -> [made : BOOLEAN, revision : Nat, grants : Grants,
                                    reviewed : Grants]]
    <3> DEFINE Rel == [made : BOOLEAN, revision : Nat, grants : Grants, reviewed : Grants]
               new == [made |-> TRUE, revision |-> Claimed(p), grants |-> publisher[p].seen,
                       reviewed |-> publisher[p].reviewed]
    <3>1. new \in Rel
      BY ClaimedType
    <3>2. releases \in [Releases -> Rel]
      OBVIOUS
    <3>3. \/ UNCHANGED releases
          \/ \E r \in Releases : releases' = [releases EXCEPT ![r] = new]
      BY <1>6 DEF CommitPublish
    <3> HIDE DEF new
    <3>4. releases' \in [Releases -> Rel]
      BY <3>1, <3>2, <3>3
    <3> QED BY <3>4
  <2> QED BY <1>6, <2>2, <2>3, <2>4 DEF CommitPublish
<1>7. CASE ResolutionFails(p)
  <2>1. NoPublish \in PublishType
    BY InitTypes DEF NoPublish, Wanted, Visibility
  <2> QED BY <1>2, <1>7, <2>1 DEF ResolutionFails
<1> QED BY <1>1, <1>3, <1>4, <1>5, <1>6, <1>7 DEF Publish

LEMMA SwitchTypes == ASSUME ControlTypeOK, Switch \/ Start PROVE ControlTypeOK'
<1> USE KeptTypes DEF ControlTypeOK, rowVars, requestVars, switchVars
<1>1. CASE Unpublish
  BY <1>1, RowUpdates DEF Unpublish, Publication
<1>2. CASE Moderate
  BY <1>2 DEF Moderate
<1>3. ASSUME NEW e \in BOOLEAN, SetRuntime(e) PROVE ControlTypeOK'
  BY <1>3 DEF SetRuntime, Switched
<1>4. CASE CheckRuntime
  BY <1>4 DEF CheckRuntime
<1>5. CASE EnableRuntime
  BY <1>5 DEF EnableRuntime, Switched
<1> QED BY <1>1, <1>2, <1>3, <1>4, <1>5 DEF Switch, Start

(* Every step of the control plane keeps the types; so does a crash, and   *)
(* the start of another kind of request.                                   *)
LEMMA ControlTypes == ASSUME ControlTypeOK, ControlNext PROVE ControlTypeOK'
BY DraftTypes, UpdateTypes, PublishTypes, SwitchTypes DEF ControlNext

LEMMA OtherTypes ==
  ASSUME ControlTypeOK
  PROVE  /\ DropRequests => ControlTypeOK'
         /\ Begin /\ UNCHANGED <<rowVars, requestVars, switchVars>> => ControlTypeOK'
         /\ UNCHANGED controlVars => ControlTypeOK'
<1> USE DEF ControlTypeOK, rowVars, requestVars, switchVars
<1>1. ASSUME DropRequests PROVE ControlTypeOK'
  <2>1. NoWrite \in [step : {"idle", "read"}, edit : Edits, row : App]
    BY InitTypes DEF NoWrite, Edits
  <2>2. NoPublish \in PublishType
    BY InitTypes DEF NoPublish, Wanted, Visibility, PublishType
  <2> QED BY <1>1, <2>1, <2>2 DEF DropRequests, PublishType
<1>2. ASSUME Begin, UNCHANGED <<rowVars, requestVars, switchVars>> PROVE ControlTypeOK'
  BY <1>2, KeptTypes
<1>3. ASSUME UNCHANGED controlVars PROVE ControlTypeOK'
  BY <1>3 DEF controlVars
<1> QED BY <1>1, <1>2, <1>3

-----------------------------------------------------------------------------
(* The review.  In what the revision covers, a publish that may still be   *)
(* admitted has read what its administrator reviewed: it may be while the revision is the one that    *)
(* was acknowledged, and also after one further change, when that change   *)
(* was to the visibility and came after the handler read the row.          *)
Agrees(p) ==
  LET q == publisher[p] IN
  /\ Covered(GrantsOf(q.seen.deployment, draft)) = Covered(q.reviewed)
  /\ q.step \in {"bindings", "collections"} /\ q.seen.deployment = 0
       => q.seen.bindings = q.reviewed.bindings
  /\ q.step = "collections" => q.seen.collections = q.reviewed.collections

PublishInv(p) ==
  LET q == publisher[p] IN
  q.step # "idle" =>
    /\ q.ack <= app.revision
    /\ q.seen.deployment = q.reviewed.deployment
    /\ app.revision = q.ack =>
         Agrees(p) /\ (q.step # "sent" => q.guess = app.visibility)
    /\ app.revision = q.ack + 1 /\ q.step # "sent" /\ q.guess # app.visibility =>
         Agrees(p)

ReviewInv ==
  ~torn =>
    /\ app.acknowledged <= app.revision
    /\ \A r \in Releases : Covered(releases[r].grants) = Covered(releases[r].reviewed)
    /\ app.active # NoRelease /\ app.acknowledged = app.revision =>
         LET grants == releases[app.active].grants IN
         Covered(grants) = Covered(GrantsOf(grants.deployment, draft))
    /\ \A p \in Publishers : PublishInv(p)

LEMMA ReviewImplies == ReviewInv => ReleasedAsReviewed /\ NothingToReview
BY DEF ReviewInv, ReleasedAsReviewed, NothingToReview

LEMMA ReviewInit == ControlInit => ReviewInv
<1> SUFFICES ASSUME ControlInit PROVE ReviewInv
  OBVIOUS
<1>1. \A p \in Publishers : PublishInv(p)
  BY DEF ControlInit, NoPublish, PublishInv
<1>2. CASE app = NoRow /\ releases = [r \in Releases |-> Unreleased]
  BY <1>1, <1>2 DEF ReviewInv, NoRow, Unreleased
<1>3. ASSUME NEW r0 \in Releases,
             app = [NoRow EXCEPT !.publication = "published", !.active = r0,
                                 !.acknowledged = 1],
             releases = [r \in Releases |-> IF r = r0
                           THEN [Unreleased EXCEPT !.made = TRUE, !.revision = 1]
                           ELSE Unreleased]
      PROVE  ReviewInv
  <2>1. /\ app.acknowledged = 1 /\ app.revision = 1 /\ app.active = r0
        /\ \A r \in Releases : releases[r].grants = NoGrants /\ releases[r].reviewed = NoGrants
    BY <1>3 DEF NoRow, Unreleased
  <2>2. NoGrants = GrantsOf(NoGrants.deployment, draft)
    BY DEF ControlInit, NoGrants, GrantsOf
  <2> QED BY <1>1, <2>1, <2>2 DEF ReviewInv
<1> QED BY <1>2, <1>3 DEF ControlInit

(* A step that changes neither what the revision covers of the draft nor   *)
(* what the review compares.                                               *)
LEMMA SameReview ==
  ASSUME ReviewInv, UNCHANGED <<releases, torn, publisher>>,
         \A d : Covered(GrantsOf(d, draft')) = Covered(GrantsOf(d, draft)),
         app'.revision = app.revision, app'.acknowledged = app.acknowledged,
         app'.active = app.active, app'.visibility = app.visibility
  PROVE  ReviewInv'
BY DEF ReviewInv, PublishInv, Agrees

(* A step that advances the revision, and changes the draft or the         *)
(* visibility but not both.                                                *)
LEMMA AdvancedReview ==
  ASSUME ControlTypeOK, ReviewInv, UNCHANGED <<releases, torn, publisher>>,
         app'.revision = app.revision + 1, app'.acknowledged = app.acknowledged,
         app'.active = app.active,
         app'.visibility = app.visibility \/ UNCHANGED draft
  PROVE  ReviewInv'
<1> SUFFICES ASSUME ~torn PROVE ReviewInv'
  BY DEF ReviewInv
<1>0. /\ app.revision \in Nat /\ app.acknowledged \in Nat
      /\ \A p \in Publishers : publisher[p].ack \in Nat
  BY DEF ControlTypeOK, App
<1>1. app'.acknowledged < app'.revision
  BY <1>0 DEF ReviewInv
<1>2. ASSUME NEW p \in Publishers PROVE PublishInv(p)'
  <2>1. CASE publisher[p].step = "idle"
    BY <2>1 DEF PublishInv
  <2>2. CASE publisher[p].step # "idle"
    <3>1. /\ publisher[p].ack < app'.revision
          /\ publisher[p].seen.deployment = publisher[p].reviewed.deployment
      BY <1>0, <2>2 DEF ReviewInv, PublishInv
    <3>2. ASSUME app'.revision = publisher[p].ack + 1, publisher[p].step # "sent",
                 publisher[p].guess # app'.visibility
          PROVE  Agrees(p)'
      <4>1. app.revision = publisher[p].ack
        BY <1>0, <3>2
      <4>2. Agrees(p) /\ publisher[p].guess = app.visibility
        BY <2>2, <3>2, <4>1 DEF ReviewInv, PublishInv
      <4>3. UNCHANGED draft
        BY <3>2, <4>2
      <4> QED BY <4>2, <4>3 DEF Agrees
    <3> QED BY <1>0, <3>1, <3>2 DEF PublishInv
  <2> QED BY <2>1, <2>2
<1> QED BY <1>0, <1>1, <1>2 DEF ReviewInv

LEMMA DraftReview == ASSUME ControlTypeOK, ReviewInv, ChangeDraft PROVE ReviewInv'
<1>1. ASSUME UNCHANGED <<releases, torn, publisher>>, app' = Revise PROVE ReviewInv'
  BY <1>1, AdvancedReview DEF Revise, ControlTypeOK, App
<1>2. CASE ChangeBindings \/ ChangeCollections \/ AddDeployment
  BY <1>1, <1>2 DEF ChangeBindings, ChangeCollections, AddDeployment, requestVars
<1>3. CASE ChangeConfig
  <2>1. UNCHANGED <<app, releases, torn, publisher>>
    BY <1>3 DEF ChangeConfig
  <2>2. draft'.bindings = draft.bindings /\ draft'.collections = draft.collections
    BY <1>3 DEF ChangeConfig, ControlTypeOK, Draft
  <2>3. \A d : Covered(GrantsOf(d, draft')) = Covered(GrantsOf(d, draft))
    BY <2>2 DEF Covered, GrantsOf
  <2> QED BY <2>1, <2>3, SameReview
<1>4. CASE InvalidateBindings
  <2>1. UNCHANGED <<draft, releases, torn, publisher>> /\ (app' = Revise \/ app' = app)
    BY <1>4 DEF InvalidateBindings
  <2> QED BY <1>1, <2>1, SameReview
<1> QED BY <1>2, <1>3, <1>4 DEF ChangeDraft

LEMMA UpdateReview ==
  ASSUME ControlTypeOK, ReviewInv, NEW w \in Writers, Update(w) PROVE ReviewInv'
<1>1. ASSUME NEW edit \in Edits, ReadRow(w, edit) PROVE ReviewInv'
  BY <1>1, SameReview DEF ReadRow, rowVars
<1>2. CASE WriteRow(w)
  <2> DEFINE edit == writer[w].edit
  <2>1. SUFFICES ASSUME ~torn' PROVE ReviewInv'
    BY DEF ReviewInv
  <2>2. /\ UNCHANGED <<draft, releases, torn, publisher>>
        /\ app' = Edited(app, edit)
        /\ app \in App /\ edit \in Edits
    BY <1>2, <2>1 DEF WriteRow, ControlTypeOK
  <2> HIDE DEF edit
  <2>3. CASE edit \in Visibility
    BY <2>2, <2>3, AdvancedReview DEF Edited, Visibility, App
  <2>4. CASE edit \in {"rename", "archive", "restore"}
    BY <2>2, <2>4, SameReview DEF Edited, Visibility, App
  <2> QED BY <2>2, <2>3, <2>4 DEF Edits
<1> QED BY <1>1, <1>2 DEF Update

(* A publish that is admitted has read what was reviewed, and what is now. *)
LEMMA AdmittedAgrees ==
  ASSUME ControlTypeOK, ReviewInv, ~torn, NEW p \in Publishers,
         publisher[p].step = "collections", Admits(p)
  PROVE  /\ Agrees(p)
         /\ Covered(publisher[p].seen) = Covered(publisher[p].reviewed)
         /\ Covered(GrantsOf(publisher[p].seen.deployment, draft))
              = Covered(publisher[p].seen)
<1> DEFINE q == publisher[p]
<1>1. /\ q.ack \in Nat /\ app.revision \in Nat
      /\ q.seen \in Grants /\ q.reviewed \in Grants
  BY DEF ControlTypeOK, App
<1>2. PublishInv(p)
  BY DEF ReviewInv
<1>3. \/ app.revision = q.ack
      \/ app.revision = q.ack + 1 /\ q.guess # app.visibility
  BY <1>1, <1>2 DEF PublishInv, Admits, Claimed, One
<1>4. Agrees(p) /\ q.seen.deployment = q.reviewed.deployment
  BY <1>2, <1>3 DEF PublishInv
<1>5. /\ q.seen.deployment = 0 => q.seen.bindings = q.reviewed.bindings
      /\ q.seen.collections = q.reviewed.collections
  BY <1>4 DEF Agrees
<1>6. Covered(q.seen) = Covered(q.reviewed)
  BY <1>1, <1>4, <1>5 DEF Grants, Covered
<1> QED BY <1>4, <1>6 DEF Agrees

LEMMA PublishReview ==
  ASSUME ControlTypeOK, ReviewInv, NEW p \in Publishers, Publish(p) PROVE ReviewInv'
<1> SUFFICES ASSUME ~torn, UNCHANGED torn PROVE ReviewInv'
  BY DEF ReviewInv, Publish, SendPublish, ReadApp, ReadBindings, ResolutionFails,
         ReadCollections, Reads, CommitPublish, rowVars
<1> USE DEF ControlTypeOK, App
<1>0. ASSUME UNCHANGED rowVars, PublishInv(p)',
             \A o \in Publishers : o # p => publisher'[o] = publisher[o]
      PROVE  ReviewInv'
  <2>1. ASSUME NEW o \in Publishers PROVE PublishInv(o)'
    <3>1. CASE o = p
      BY <1>0, <3>1
    <3>2. CASE o # p
      BY <1>0, <3>2 DEF ReviewInv, PublishInv, Agrees, rowVars
    <3> QED BY <3>1, <3>2
  <2> QED BY <1>0, <2>1 DEF ReviewInv, rowVars
<1>1. ASSUME NEW d \in 0 .. MaxRequests, NEW wanted \in Wanted, SendPublish(p, d, wanted)
      PROVE  ReviewInv'
  <2>1. /\ publisher'[p].step = "sent" /\ publisher'[p].ack = app.revision
        /\ publisher'[p].seen.deployment = d
        /\ publisher'[p].reviewed = GrantsOf(d, draft)
    BY <1>1 DEF SendPublish, NoGrants
  <2>2. UNCHANGED rowVars /\ \A o \in Publishers : o # p => publisher'[o] = publisher[o]
    BY <1>1 DEF SendPublish
  <2>3. PublishInv(p)'
    BY <2>1, <2>2 DEF PublishInv, Agrees, GrantsOf, rowVars
  <2> QED BY <1>0, <2>2, <2>3
<1>2. CASE ReadApp(p)
  <2>1. /\ publisher[p].step = "sent"
        /\ publisher'[p] = [publisher[p] EXCEPT !.guess = app.visibility, !.step = "app"]
        /\ UNCHANGED rowVars /\ \A o \in Publishers : o # p => publisher'[o] = publisher[o]
    BY <1>2 DEF ReadApp, Reads
  <2>2. /\ publisher'[p].step = "app" /\ publisher'[p].guess = app.visibility
        /\ publisher'[p].ack = publisher[p].ack
        /\ publisher'[p].seen = publisher[p].seen
        /\ publisher'[p].reviewed = publisher[p].reviewed
    BY <2>1
  <2>3. PublishInv(p)
    BY DEF ReviewInv
  <2>4. PublishInv(p)'
    BY <2>1, <2>2, <2>3 DEF PublishInv, Agrees, rowVars
  <2> QED BY <1>0, <2>1, <2>4
<1>3. CASE ReadBindings(p)
  <2> DEFINE n == GrantsOf(publisher[p].seen.deployment, draft).bindings
  <2>1. /\ publisher[p].step = "app"
        /\ UNCHANGED rowVars /\ \A o \in Publishers : o # p => publisher'[o] = publisher[o]
    BY <1>3 DEF ReadBindings, Reads
  <2>2. /\ publisher'[p].step = "bindings" /\ publisher'[p].guess = publisher[p].guess
        /\ publisher'[p].ack = publisher[p].ack
        /\ publisher'[p].reviewed = publisher[p].reviewed
        /\ publisher'[p].seen = [publisher[p].seen EXCEPT !.bindings = n]
    BY <1>3 DEF ReadBindings, Reads
  <2>3. /\ publisher'[p].seen.bindings = n
        /\ publisher'[p].seen.deployment = publisher[p].seen.deployment
    BY <2>2 DEF Grants
  <2>4. PublishInv(p)
    BY DEF ReviewInv
  <2>5. Agrees(p) => Agrees(p)'
    <3> SUFFICES ASSUME Agrees(p) PROVE Agrees(p)'
      OBVIOUS
    <3>1. publisher[p].seen.deployment = 0 => publisher[p].reviewed.bindings = n
      BY DEF Agrees, Covered, GrantsOf, Grants
    <3> HIDE DEF n
    <3> QED BY <2>1, <2>2, <2>3, <3>1 DEF Agrees, rowVars
  <2> HIDE DEF n
  <2> QED BY <1>0, <2>1, <2>2, <2>3, <2>4, <2>5 DEF PublishInv, rowVars
<1>4. CASE ReadCollections(p)
  <2>1. /\ publisher[p].step = "bindings"
        /\ UNCHANGED rowVars /\ \A o \in Publishers : o # p => publisher'[o] = publisher[o]
    BY <1>4 DEF ReadCollections, Reads
  <2>2. /\ publisher'[p].step = "collections" /\ publisher'[p].guess = publisher[p].guess
        /\ publisher'[p].ack = publisher[p].ack
        /\ publisher'[p].reviewed = publisher[p].reviewed
        /\ publisher'[p].seen = [publisher[p].seen EXCEPT !.collections = draft.collections]
    BY <1>4 DEF ReadCollections, Reads
  <2>3. /\ publisher'[p].seen.collections = draft.collections
        /\ publisher'[p].seen.bindings = publisher[p].seen.bindings
        /\ publisher'[p].seen.deployment = publisher[p].seen.deployment
    BY <2>2 DEF Grants
  <2>4. PublishInv(p)
    BY DEF ReviewInv
  <2>5. Agrees(p) => Agrees(p)'
    <3> SUFFICES ASSUME Agrees(p) PROVE Agrees(p)'
      OBVIOUS
    <3>1. publisher[p].reviewed.collections = draft.collections
      <4> DEFINE now == GrantsOf(publisher[p].seen.deployment, draft)
                 then == publisher[p].reviewed
      <4>1. \A g \in Grants : Covered(g).collections = g.collections
        BY DEF Covered, Grants
      <4>2. now \in Grants /\ then \in Grants /\ now.collections = draft.collections
        BY DEF GrantsOf, Grants, Draft
      <4>3. Covered(now) = Covered(then)
        BY DEF Agrees
      <4> HIDE DEF now, then
      <4>4. then.collections = draft.collections
        BY ONLY <4>1, <4>2, <4>3
      <4> QED BY <4>4 DEF then
    <3> QED BY <2>1, <2>2, <2>3, <3>1 DEF Agrees, rowVars
  <2> QED BY <1>0, <2>1, <2>2, <2>3, <2>4, <2>5 DEF PublishInv, rowVars
<1>5. CASE CommitPublish(p)
  <2>1. publisher' = [publisher EXCEPT ![p] = NoPublish] /\ UNCHANGED draft
    BY <1>5 DEF CommitPublish
  <2>2. PublishInv(p)'
    BY <2>1 DEF PublishInv, NoPublish
  <2>3. CASE ~Admits(p)
    BY <1>0, <1>5, <2>1, <2>2, <2>3 DEF CommitPublish, rowVars
  <2>4. CASE Admits(p)
    <3>1. PICK r \in Releases :
            /\ releases' = [releases EXCEPT ![r] =
                 [made |-> TRUE, revision |-> Claimed(p), grants |-> publisher[p].seen,
                  reviewed |-> publisher[p].reviewed]]
            /\ app' = [visibility |-> Asked(p), publication |-> "published",
                       archived |-> app.archived, active |-> r,
                       revision |-> Claimed(p), acknowledged |-> Claimed(p)]
      BY <1>5, <2>4 DEF CommitPublish
    <3>2. /\ Agrees(p)
          /\ Covered(publisher[p].seen) = Covered(publisher[p].reviewed)
          /\ Covered(GrantsOf(publisher[p].seen.deployment, draft))
               = Covered(publisher[p].seen)
      BY <1>5, <2>4, AdmittedAgrees DEF CommitPublish
    <3>3. /\ app'.visibility = Asked(p) /\ app'.active = r
          /\ app'.revision = Claimed(p) /\ app'.acknowledged = Claimed(p)
      BY <3>1
    <3>4. Claimed(p) \in Nat /\ app.revision \in Nat
          /\ \/ Claimed(p) = app.revision /\ Asked(p) = app.visibility
             \/ Claimed(p) = app.revision + 1
      BY <2>4, ClaimedType DEF Admits, One
    <3>5. /\ releases'[r].grants = publisher[p].seen
          /\ \A o \in Releases :
               Covered(releases'[o].grants) = Covered(releases'[o].reviewed)
      BY <3>1, <3>2 DEF ReviewInv
    <3>6. Covered(releases'[r].grants)
            = Covered(GrantsOf(releases'[r].grants.deployment, draft'))
      BY <2>1, <3>2, <3>5
    <3>7. ASSUME NEW o \in Publishers PROVE PublishInv(o)'
      <4>1. CASE o = p
        BY <2>2, <4>1
      <4>2. CASE o # p
        <5>1. publisher'[o] = publisher[o] /\ (Agrees(o) => Agrees(o)')
          BY <2>1, <4>2 DEF Agrees
        <5>2. PublishInv(o) /\ publisher[o].ack \in Nat
          BY DEF ReviewInv
        <5>3. CASE publisher[o].step = "idle"
          BY <5>1, <5>3 DEF PublishInv
        <5>4. CASE publisher[o].step # "idle" /\ Claimed(p) = app.revision + 1
          <6>1. publisher[o].ack < Claimed(p)
            BY <3>4, <5>2, <5>4 DEF PublishInv
          <6>2. ASSUME Claimed(p) = publisher[o].ack + 1, publisher[o].step # "sent",
                       publisher[o].guess # Asked(p)
                PROVE  Agrees(o)
            <7>1. app.revision = publisher[o].ack
              BY ONLY <3>4, <5>2, <5>4, <6>2
            <7> QED BY <5>2, <5>4, <6>2, <7>1 DEF PublishInv
          <6> QED BY <3>3, <3>4, <5>1, <5>2, <5>4, <6>1, <6>2 DEF PublishInv
        <5>5. CASE publisher[o].step # "idle" /\ Claimed(p) = app.revision
                   /\ Asked(p) = app.visibility
          BY <3>3, <5>1, <5>2, <5>5 DEF PublishInv
        <5> QED BY <3>4, <5>3, <5>4, <5>5
      <4> QED BY <4>1, <4>2
    <3> QED BY <3>3, <3>4, <3>5, <3>6, <3>7 DEF ReviewInv
  <2> QED BY <2>3, <2>4
<1>6. CASE ResolutionFails(p)
  <2>1. /\ publisher' = [publisher EXCEPT ![p] = [NoPublish EXCEPT !.step = "idle"]]
        /\ UNCHANGED rowVars
    BY <1>6 DEF ResolutionFails, Reads
  <2>2. PublishInv(p)'
    BY <2>1 DEF PublishInv, NoPublish
  <2> QED BY <1>0, <2>1, <2>2
<1> QED BY <1>1, <1>2, <1>3, <1>4, <1>5, <1>6 DEF Publish

LEMMA SwitchReview == ASSUME ControlTypeOK, ReviewInv, Switch \/ Start PROVE ReviewInv'
<1>1. CASE Unpublish
  BY <1>1, SameReview DEF Unpublish, requestVars, ControlTypeOK, App
<1>2. CASE Moderate \/ (\E e \in BOOLEAN : SetRuntime(e)) \/ Start
  BY <1>2, SameReview DEF Moderate, SetRuntime, Start, CheckRuntime, EnableRuntime,
                          rowVars, requestVars
<1> QED BY <1>1, <1>2 DEF Switch

LEMMA ControlReview == ASSUME ControlTypeOK, ReviewInv, ControlNext PROVE ReviewInv'
BY DraftReview, UpdateReview, PublishReview, SwitchReview DEF ControlNext

LEMMA OtherReview ==
  ASSUME ReviewInv
  PROVE  /\ DropRequests => ReviewInv'
         /\ UNCHANGED <<rowVars, requestVars, switchVars>> => ReviewInv'
         /\ UNCHANGED controlVars => ReviewInv'
<1>1. ASSUME DropRequests PROVE ReviewInv'
  BY <1>1 DEF DropRequests, ReviewInv, PublishInv, NoPublish, rowVars
<1>2. ASSUME UNCHANGED <<rowVars, requestVars, switchVars>> PROVE ReviewInv'
  BY <1>2, SameReview DEF rowVars, requestVars
<1> QED BY <1>1, <1>2 DEF controlVars

-----------------------------------------------------------------------------
(* A row's active release has been made, also in a row that an update      *)
(* still holds; what is not made grants nothing.                           *)
Made(r) == r = NoRelease \/ releases[r].made

MadeInv ==
  /\ Made(app.active)
  /\ \A w \in Writers : Made(writer[w].row.active)
  /\ \A r \in Releases : ~releases[r].made => releases[r].grants = NoGrants

LEMMA MadeInit == ControlInit => MadeInv
<1> SUFFICES ASSUME ControlInit PROVE MadeInv
  OBVIOUS
<1>1. \A w \in Writers : Made(writer[w].row.active)
  BY DEF ControlInit, NoWrite, NoRow, Made
<1>2. CASE app = NoRow /\ releases = [r \in Releases |-> Unreleased]
  BY <1>1, <1>2 DEF MadeInv, Made, NoRow, Unreleased
<1>3. ASSUME NEW r0 \in Releases,
             app = [NoRow EXCEPT !.publication = "published", !.active = r0,
                                 !.acknowledged = 1],
             releases = [r \in Releases |-> IF r = r0
                           THEN [Unreleased EXCEPT !.made = TRUE, !.revision = 1]
                           ELSE Unreleased]
      PROVE  MadeInv
  <2>1. app.active = r0
    BY <1>3 DEF NoRow
  <2>2. releases[r0].made /\ \A r \in Releases : releases[r].grants = NoGrants
    BY <1>3 DEF Unreleased
  <2> QED BY <1>1, <2>1, <2>2 DEF MadeInv, Made
<1> QED BY <1>2, <1>3 DEF ControlInit

(* What a release says is never changed.                                   *)
Immutable == \A r \in Releases : releases[r].made => releases'[r] = releases[r]

LEMMA ControlMade ==
  ASSUME ControlTypeOK, MadeInv, ControlNext PROVE MadeInv' /\ Immutable
<1> USE AppsAssumption DEF ControlTypeOK, App
<1>1. CASE ChangeDraft
  <2>1. UNCHANGED <<releases, writer>> /\ app'.active = app.active
    BY <1>1 DEF ChangeDraft, ChangeBindings, ChangeCollections, AddDeployment,
                ChangeConfig, InvalidateBindings, Revise, requestVars
  <2> QED BY <2>1 DEF MadeInv, Made, Immutable
<1>2. ASSUME NEW w \in Writers, NEW edit \in Edits, ReadRow(w, edit)
      PROVE  MadeInv' /\ Immutable
  BY <1>2 DEF ReadRow, rowVars, MadeInv, Made, Immutable
<1>3. ASSUME NEW w \in Writers, WriteRow(w) PROVE MadeInv' /\ Immutable
  <2>1. UNCHANGED releases /\ writer' = [writer EXCEPT ![w] = NoWrite]
    BY <1>3 DEF WriteRow
  <2>2. app'.active = writer[w].row.active
    BY <1>3 DEF WriteRow, Edited, Edits, Visibility
  <2> QED BY <2>1, <2>2 DEF MadeInv, Made, Immutable, NoWrite, NoRow
<1>4. ASSUME NEW p \in Publishers, Publish(p), ~CommitPublish(p)
      PROVE  MadeInv' /\ Immutable
  BY <1>4 DEF Publish, SendPublish, ReadApp, ReadBindings, ResolutionFails, ReadCollections, Reads,
              rowVars, MadeInv, Made, Immutable
<1>5. ASSUME NEW p \in Publishers, CommitPublish(p) PROVE MadeInv' /\ Immutable
  <2>1. CASE ~Admits(p)
    BY <1>5, <2>1 DEF CommitPublish, MadeInv, Made, Immutable
  <2>2. CASE Admits(p)
    <3>1. PICK r \in Releases :
            /\ ~releases[r].made
            /\ releases' = [releases EXCEPT ![r] =
                 [made |-> TRUE, revision |-> Claimed(p), grants |-> publisher[p].seen,
                  reviewed |-> publisher[p].reviewed]]
            /\ app'.active = r
            /\ UNCHANGED writer
      BY <1>5, <2>2 DEF CommitPublish
    <3>2. /\ releases'[r].made
          /\ \A o \in Releases : o # r => releases'[o] = releases[o]
      BY <3>1
    <3> QED BY <3>1, <3>2 DEF MadeInv, Made, Immutable
  <2> QED BY <2>1, <2>2
<1>6. CASE Switch \/ Start
  <2>1. UNCHANGED <<releases, writer>> /\ app'.active = app.active
    BY <1>6 DEF Switch, Unpublish, Moderate, SetRuntime, Start, CheckRuntime, EnableRuntime,
                rowVars, requestVars
  <2> QED BY <2>1 DEF MadeInv, Made, Immutable
<1> QED BY <1>1, <1>2, <1>3, <1>4, <1>5, <1>6 DEF ControlNext, Update

LEMMA OtherMade ==
  ASSUME MadeInv
  PROVE  /\ DropRequests => MadeInv' /\ Immutable
         /\ UNCHANGED <<rowVars, requestVars, switchVars>> => MadeInv' /\ Immutable
         /\ UNCHANGED controlVars => MadeInv' /\ Immutable
<1>1. ASSUME DropRequests PROVE MadeInv' /\ Immutable
  BY <1>1 DEF DropRequests, MadeInv, Made, NoWrite, NoRow, rowVars, Immutable
<1>2. ASSUME UNCHANGED <<rowVars, requestVars, switchVars>> PROVE MadeInv' /\ Immutable
  BY <1>2 DEF rowVars, requestVars, MadeInv, Made, Immutable
<1> QED BY <1>1, <1>2 DEF controlVars

-----------------------------------------------------------------------------
(* What brings an app back.                                                *)
BroughtBack ==
  \/ \E r \in Releases : ~releases[r].made /\ releases'[r].made
  \/ app.archived /\ app.publication = "published"
  \/ \E w \in Writers : writer[w].row # app /\ writer[w] # NoWrite /\ writer'[w] = NoWrite

LEMMA ControlWithdrawn ==
  ASSUME ControlTypeOK, ControlNext, ~Published, Published' PROVE BroughtBack
<1> USE DEF Published, ControlTypeOK, App
<1>1. ASSUME app'.publication = app.publication, app'.archived = app.archived,
             app'.active = app.active
      PROVE  FALSE
  BY <1>1
<1>2. CASE ChangeDraft
  BY <1>1, <1>2 DEF ChangeDraft, ChangeBindings, ChangeCollections, AddDeployment,
                    ChangeConfig, InvalidateBindings, Revise
<1>3. ASSUME NEW w \in Writers, Update(w) PROVE BroughtBack
  <2>1. WriteRow(w)
    BY <1>1, <1>3 DEF Update, ReadRow, rowVars
  <2>2. writer[w] # NoWrite /\ writer'[w] = NoWrite
    BY <2>1 DEF WriteRow, NoWrite
  <2>3. CASE writer[w].row # app
    BY <2>2, <2>3 DEF BroughtBack
  <2>4. CASE writer[w].row = app
    <3>1. app' = Edited(app, writer[w].edit) /\ writer[w].edit \in Edits
      BY <2>1, <2>4 DEF WriteRow
    <3>2. app'.publication = app.publication /\ app'.active = app.active
      BY <3>1 DEF Edited, Edits, Visibility
    <3> QED BY <3>2 DEF BroughtBack
  <2> QED BY <2>3, <2>4
<1>4. ASSUME NEW p \in Publishers, Publish(p) PROVE BroughtBack
  <2>1. CommitPublish(p) /\ Admits(p)
    BY <1>1, <1>4 DEF Publish, SendPublish, ReadApp, ReadBindings, ResolutionFails,
                      ReadCollections, Reads, CommitPublish, rowVars
  <2>2. \E r \in Releases : ~releases[r].made /\ releases'[r].made
    BY <2>1 DEF CommitPublish
  <2> QED BY <2>2 DEF BroughtBack
<1>5. CASE Switch \/ Start
  <2>1. CASE Unpublish
    BY <2>1 DEF Unpublish
  <2>2. CASE ~Unpublish
    BY <1>1, <1>5, <2>2 DEF Switch, Moderate, SetRuntime, Start, CheckRuntime,
                            EnableRuntime, rowVars
  <2> QED BY <2>1, <2>2
<1> QED BY <1>2, <1>3, <1>4, <1>5 DEF ControlNext
=============================================================================
