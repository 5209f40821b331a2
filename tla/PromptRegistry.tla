--------------------------- MODULE PromptRegistry ---------------------------
(***************************************************************************)
(* The versions of one prompt and the row that says which one production   *)
(* uses (prompt/registry.py, governance/deploy.py, eval/gate.py).          *)
(*                                                                         *)
(* Operators are `llmops` processes that run one command after another on  *)
(* the same database.  A command is a sequence of committed statements, so *)
(* other commands may run between any two of them, and a process may die   *)
(* between any two of them: a statement that raises ends the command in    *)
(* the same way.  What each command read stays with it until it ends.      *)
(*                                                                         *)
(* Operators marked "Bug:" are plausible mistakes in the operator below    *)
(* them; nothing uses them.                                                *)
(***************************************************************************)
EXTENDS Integers, Sequences, FiniteSets

CONSTANTS
  Operators,      \* processes that run llmops commands
  Texts,          \* contents the prompt's file may have
  DeclaredIn,     \* the status the front matter of each content declares
  Percents,       \* canary percentages the operators use
  NoDeployment,   \* no row in prompt_deployments yet
  NoFile,         \* no command is running that has read the file
  Databases,      \* what the two tables may hold when the behaviour begins
  MaxEdits,       \* bound: edits of the file
  MaxEvals,       \* bound: evaluation runs
  MaxCommands,    \* bound: commands, over all operators
  MaxOverlaps,    \* bound: commands that begin while another one runs
  MaxCrashes      \* bound: processes that die inside a command

\* The statuses of versions that are or were published.
Public == {"published", "deprecated", "archived"}
Statuses == {"draft", "review", "approved"} \cup Public
Verdicts == {"none", "pass", "fail", "failAfterPass"}

VersionRows == [status : Statuses, text : Texts, eval : Verdicts]
Deployments == [active : Nat, canary : Nat, percent : 0..100]

ASSUME RegistryAssumption ==
  /\ DeclaredIn \in [Texts -> Statuses]
  /\ NoFile \notin Texts
  /\ Percents \subseteq 0..100
  /\ MaxEdits \in Nat /\ MaxEvals \in Nat /\ MaxCommands \in Nat
  /\ MaxOverlaps \in Nat /\ MaxCrashes \in Nat
  /\ NoDeployment \notin Deployments
  /\ \A db \in Databases :
       /\ db.versions \in Seq(VersionRows)
       /\ db.deployment \in Deployments \cup {NoDeployment}
       /\ db.deployment # NoDeployment =>
            \A v \in {db.deployment.active, db.deployment.canary} \ {0} :
              v \in DOMAIN db.versions /\ db.versions[v].status \in Public
       /\ db.deployment # NoDeployment => db.deployment.active # 0

VARIABLES
  file,       \* prompts/<...>.md: its content
  versions,   \* table prompt_versions, with the verdict of the latest
              \* evaluation run of each version
  deployment, \* the row of prompt_deployments; canary 0 = NULL
  at,         \* where each operator's command is
  kind,       \* its command
  target,     \* the version the command is about, 0 = not chosen yet
  to,         \* the status it gives that version
  base,       \* the deployment row it read
  percent,    \* the canary percentage it was given
  loaded,     \* the file as sync read it
  alone,      \* history: no other command ran since this one began
  imported,   \* history: versions registered, not made, published
  forced,     \* versions with a prompt.publish.forced row in audit_logs
  explained,  \* versions whose last status change has its prompt_transitions row
  deployed,   \* history: versions that were active at some time
  bounds      \* the bound counters

locals  == <<at, kind, target, to, base, percent, loaded, alone>>
history == <<imported, forced, explained, deployed>>
vars    == <<file, versions, deployment, locals, history, bounds>>

\* Command -> the statuses _version_in looks for, and the status it sets.
From == [submit |-> {"draft"}, approve |-> {"review"},
         reject |-> {"review", "approved"}, publish |-> {"approved"},
         force |-> {"approved"}, deprecate |-> {"published"},
         archive |-> {"deprecated"}]

To == [submit |-> "review", approve |-> "approved", reject |-> "draft",
       publish |-> "published", force |-> "published",
       deprecate |-> "deprecated", archive |-> "archived"]

ALLOWED_TRANSITIONS ==
  {<<"draft", "review">>, <<"review", "approved">>, <<"review", "draft">>,
   <<"approved", "published">>, <<"approved", "draft">>,
   <<"published", "deprecated">>, <<"published", "published">>,
   <<"deprecated", "archived">>}

\* rollbackTo is rollback with an explicit version.
DeployKinds == {"rollback", "rollbackTo", "canary", "promote", "stop"}
Kinds == {"sync"} \cup DOMAIN To \cup DeployKinds

Labels == {"idle", "latest", "insert", "choose", "gate", "pick", "write",
           "trail", "point", "state", "clear", "base", "list", "check"}

\* What happened before is taken as given: see imported, explained, deployed.
Init ==
  /\ file \in Texts
  /\ \E db \in Databases : versions = db.versions /\ deployment = db.deployment
  /\ at      = [o \in Operators |-> "idle"]
  /\ kind    = [o \in Operators |-> "sync"]
  /\ target  = [o \in Operators |-> 0]
  /\ to      = [o \in Operators |-> "draft"]
  /\ base    = [o \in Operators |-> NoDeployment]
  /\ percent = [o \in Operators |-> 0]
  /\ loaded  = [o \in Operators |-> NoFile]
  /\ alone   = [o \in Operators |-> TRUE]
  /\ imported = {v \in DOMAIN versions : versions[v].status \in Public}
  /\ forced = {}
  /\ explained = DOMAIN versions
  /\ deployed = DOMAIN versions
  /\ bounds = [edits |-> 0, evals |-> 0, commands |-> 0, overlaps |-> 0, crashes |-> 0]

-----------------------------------------------------------------------------
(* Building blocks *)

Status(v) == versions[v].status

\* _version_in without a version: the newest one in a fitting status.
IsNewestIn(v, S) ==
  /\ v \in DOMAIN versions /\ Status(v) \in S
  /\ \A w \in DOMAIN versions : Status(w) \in S => w <= v

Goto(o, l) == at' = [at EXCEPT ![o] = l]

\* The command returns or raises; what it read is forgotten.
End(o) ==
  /\ Goto(o, "idle")
  /\ kind'    = [kind EXCEPT ![o] = "sync"]
  /\ target'  = [target EXCEPT ![o] = 0]
  /\ to'      = [to EXCEPT ![o] = "draft"]
  /\ base'    = [base EXCEPT ![o] = NoDeployment]
  /\ percent' = [percent EXCEPT ![o] = 0]
  /\ loaded'  = [loaded EXCEPT ![o] = NoFile]
  /\ alone'   = [alone EXCEPT ![o] = TRUE]

\* A step that only reads, on to the label l.
Reads(o, l) ==
  /\ Goto(o, l)
  /\ UNCHANGED <<kind, percent, loaded, alone, file, versions, deployment,
                 history, bounds>>

Raises(o) ==
  /\ End(o)
  /\ UNCHANGED <<file, versions, deployment, history, bounds>>

HasCanary(d) == d # NoDeployment /\ d.canary # 0 /\ d.percent > 0

-----------------------------------------------------------------------------
(* Starting a command *)

FirstLabels(k) ==
  IF k = "sync" THEN {"latest"}
  ELSE IF k \in {"publish", "force"} THEN {"choose"}
  ELSE IF k \in DOMAIN To THEN {"pick"}
  ELSE IF k \in {"rollback", "rollbackTo"} THEN {"base", "state"} \* Deployer's
  ELSE {"base"}

\* The versions a caller may name; 0 = none named.
Asked(k) ==
  IF k \in DOMAIN To THEN 0..Len(versions)
  ELSE IF k \in {"rollbackTo", "canary"} THEN DOMAIN versions
  ELSE {0}

Alone(o) == \A q \in Operators \ {o} : at[q] = "idle"

Start(o) ==
  /\ at[o] = "idle"
  /\ bounds.commands < MaxCommands
  /\ Alone(o) \/ bounds.overlaps < MaxOverlaps
  /\ bounds' = [bounds EXCEPT !.commands = @ + 1,
                              !.overlaps = IF Alone(o) THEN @ ELSE @ + 1]
  /\ \E k \in Kinds :
       /\ \E l \in FirstLabels(k) : Goto(o, l)
       /\ \E v \in Asked(k) : target' = [target EXCEPT ![o] = v]
       /\ kind' = [kind EXCEPT ![o] = k]
       /\ to' = [to EXCEPT ![o] = IF k \in DOMAIN To THEN To[k] ELSE "published"]
       /\ \E p \in IF k = "canary" THEN Percents ELSE {0} :
            percent' = [percent EXCEPT ![o] = p]
       /\ loaded' = [loaded EXCEPT ![o] = IF k = "sync" THEN file ELSE NoFile]
  /\ alone' = [q \in Operators |->
                 IF q = o THEN Alone(o)
                 ELSE alone[q] /\ at[q] = "idle"]
  /\ UNCHANGED <<base, file, versions, deployment, history>>

-----------------------------------------------------------------------------
(* sync *)

\* Bug: a text that some older version had counts as unchanged.
UnchangedAnywhere(o) == \E v \in DOMAIN versions : versions[v].text = loaded[o]

Unchanged(o) ==
  versions # <<>> /\ versions[Len(versions)].text = loaded[o]

\* _status_for_new_version: the declared status counts only the first time.
NewStatus(o) == IF versions = <<>> THEN DeclaredIn[loaded[o]] ELSE "draft"

ReadLatest(o) ==
  /\ at[o] = "latest"
  /\ IF Unchanged(o) THEN Raises(o)
     ELSE /\ target' = [target EXCEPT ![o] = Len(versions) + 1]
          /\ to' = [to EXCEPT ![o] = NewStatus(o)]
          /\ UNCHANGED base
          /\ Reads(o, "insert")

NewVersionRow(o) == [status |-> to[o], text |-> loaded[o], eval |-> "none"]

\* INSERT into prompt_versions; (prompt_id, version) is the primary key.
InsertVersion(o) ==
  /\ at[o] = "insert"
  /\ IF target[o] \in DOMAIN versions THEN Raises(o)
     ELSE /\ versions' = Append(versions, NewVersionRow(o))
          /\ imported' = IF to[o] \in Public THEN imported \cup {target[o]}
                         ELSE imported
          /\ Goto(o, "trail")
          /\ UNCHANGED <<kind, target, to, base, percent, loaded, alone, file,
                         deployment, forced, explained, deployed, bounds>>

-----------------------------------------------------------------------------
(* submit, approve, reject, publish, deprecate, archive *)

\* publish only: the version whose evaluation is looked at.
ChooseVersion(o) ==
  /\ at[o] = "choose"
  /\ UNCHANGED <<to, base>>
  /\ \/ /\ target[o] # 0
        /\ UNCHANGED target
        /\ Reads(o, "gate")
     \/ /\ target[o] = 0
        /\ \E v \in DOMAIN versions :
             /\ IsNewestIn(v, From[kind[o]])
             /\ target' = [target EXCEPT ![o] = v]
        /\ Reads(o, "gate")

\* No version in a fitting status.
NothingToChoose(o) ==
  /\ at[o] \in {"choose", "pick"} /\ target[o] = 0
  /\ \A v \in DOMAIN versions : Status(v) \notin From[kind[o]]
  /\ Raises(o)

\* Bug: the evaluation of any version will do.
GatePassesAny(v) == \E w \in DOMAIN versions : versions[w].eval = "pass"

\* PublishGate: the latest evaluation run of exactly this version passed.
GatePasses(v) == versions[v].eval = "pass"

Gate(o) ==
  /\ at[o] = "gate" /\ kind[o] = "publish"
  /\ IF GatePasses(target[o])
     THEN UNCHANGED <<target, to, base>> /\ Reads(o, "pick")
     ELSE Raises(o)

\* --force: no gate, but a row in audit_logs before anything is published.
ForceGate(o) ==
  /\ at[o] = "gate" /\ kind[o] = "force"
  /\ forced' = forced \cup {target[o]}
  /\ Goto(o, "pick")
  /\ UNCHANGED <<kind, target, to, base, percent, loaded, alone, file, versions,
                 deployment, imported, explained, deployed, bounds>>

\* Bug: only a version that _version_in chose is looked up.
AllowedIfNamed(o, v) ==
  target[o] # 0 \/ <<Status(v), to[o]>> \in ALLOWED_TRANSITIONS

Allowed(o, v) == <<Status(v), to[o]>> \in ALLOWED_TRANSITIONS

\* _transition: choose the version, read its status, look the step up.
Pick(o) ==
  /\ at[o] = "pick"
  /\ \E v \in DOMAIN versions :
       /\ IF target[o] = 0 THEN IsNewestIn(v, From[kind[o]]) ELSE v = target[o]
       /\ IF Allowed(o, v)
          THEN /\ target' = [target EXCEPT ![o] = v]
               /\ UNCHANGED <<to, base>>
               /\ Reads(o, "write")
          ELSE Raises(o)

\* UPDATE prompt_versions SET status: whatever the status is by now.
WriteStatus(o) ==
  /\ at[o] = "write"
  /\ versions' = [versions EXCEPT ![target[o]].status = to[o]]
  /\ explained' = explained \ {target[o]}
  /\ Goto(o, "trail")
  /\ UNCHANGED <<kind, target, to, base, percent, loaded, alone, file, deployment,
                 imported, forced, deployed, bounds>>

\* Bug: sync records the declared status, not the one it gave.
RowStatusDeclared(o) == IF kind[o] = "sync" THEN DeclaredIn[loaded[o]] ELSE to[o]

RowStatus(o) == to[o]

\* Bug: sync registers a published version without deploying it.
ThenPointsNoSync(o) == kind[o] \in {"publish", "force"}

\* publish, and sync of a first version declared published, deploy it.
ThenPoints(o) ==
  kind[o] \in {"publish", "force"} \/ (kind[o] = "sync" /\ to[o] = "published")

\* What the row of prompt_transitions says: the version and its new status.
TransitionRow(o) == [version |-> target[o], to |-> RowStatus(o)]

\* INSERT into prompt_transitions, and the audit row.
WriteTrail(o) ==
  /\ at[o] = "trail"
  /\ LET new == TransitionRow(o)
     IN  explained' = IF Status(new.version) = new.to
                      THEN explained \cup {new.version} ELSE explained
  /\ IF ThenPoints(o)
     THEN Goto(o, "point") /\ UNCHANGED <<kind, target, to, base, percent, loaded, alone>>
     ELSE End(o)
  /\ UNCHANGED <<file, versions, deployment, imported, forced, deployed,
                 bounds>>

-----------------------------------------------------------------------------
(* rollback, canary, promote, stop_canary *)

SetDeployment(active, canary, share) ==
  /\ deployment' = [active |-> active, canary |-> canary, percent |-> share]
  /\ deployed' = deployed \cup {active}

\* Deployer.rollback: a running canary is stopped first.
ReadState(o) ==
  /\ at[o] = "state"
  /\ base' = [base EXCEPT ![o] = deployment]
  /\ UNCHANGED <<target, to>>
  /\ Reads(o, IF HasCanary(deployment) THEN "clear" ELSE "base")

ClearCanary(o) ==
  /\ at[o] = "clear"
  /\ SetDeployment(base[o].active, 0, 0)
  /\ Goto(o, "base")
  /\ UNCHANGED <<kind, target, to, base, percent, loaded, alone, file, versions,
                 imported, forced, explained, bounds>>

\* get_deployment, and what each command makes of it.
ReadBase(o) ==
  /\ at[o] = "base"
  /\ IF deployment = NoDeployment \/ (kind[o] = "promote" /\ ~HasCanary(deployment))
     THEN Raises(o)
     ELSE /\ base' = [base EXCEPT ![o] = deployment]
          /\ target' = [target EXCEPT ![o] =
                          IF kind[o] = "promote" THEN deployment.canary ELSE @]
          /\ UNCHANGED to
          /\ Reads(o, CASE kind[o] = "rollback" -> "list"
                        [] kind[o] = "stop"     -> "point"
                        [] OTHER                -> "check")

\* Bug: any published version but the active one is "the previous one".
CanGoBackToNewer(o, v) == Status(v) = "published" /\ v # base[o].active

CanGoBackTo(o, v) == Status(v) = "published" /\ v < base[o].active

\* rollback without a version: the newest published one before the active.
ListPrevious(o) ==
  /\ at[o] = "list"
  /\ LET previous == {v \in DOMAIN versions : CanGoBackTo(o, v)}
     IN  IF previous = {} THEN Raises(o)
         ELSE \E v \in previous :
                /\ \A w \in previous : w <= v
                /\ target' = [target EXCEPT ![o] = v]
                /\ UNCHANGED <<to, base>>
                /\ Reads(o, "check")

\* Bug: a version is deployed whatever its status is.
DeployableAny(v) == v \in DOMAIN versions

Deployable(v) == Status(v) = "published"

CheckTarget(o) ==
  /\ at[o] = "check"
  /\ IF Deployable(target[o])
     THEN UNCHANGED <<target, to, base>> /\ Reads(o, "point")
     ELSE Raises(o)

\* Bug: stop_canary keeps the canary as the active version.
NewActiveSwapped(o) ==
  IF kind[o] = "stop" THEN base[o].canary
  ELSE IF kind[o] = "canary" THEN base[o].active ELSE target[o]

NewActive(o) == IF kind[o] \in {"canary", "stop"} THEN base[o].active ELSE target[o]

\* set_deployment: the one row every one of these commands rewrites.
Point(o) ==
  /\ at[o] = "point"
  /\ IF kind[o] = "canary" THEN SetDeployment(NewActive(o), target[o], percent[o])
     ELSE SetDeployment(NewActive(o), 0, 0)
  /\ IF kind[o] \in {"rollback", "rollbackTo", "promote"}
     THEN Goto(o, "trail") /\ UNCHANGED <<kind, target, to, base, percent, loaded, alone>>
     ELSE End(o)
  /\ UNCHANGED <<file, versions, imported, forced, explained, bounds>>

-----------------------------------------------------------------------------

\* Somebody edits the prompt file.
EditFile ==
  /\ bounds.edits < MaxEdits
  /\ bounds' = [bounds EXCEPT !.edits = @ + 1]
  /\ file' \in Texts \ {file}
  /\ UNCHANGED <<versions, deployment, locals, history>>

\* An evaluation run of a version ends (eval/runner.py).
EvalFinished ==
  /\ bounds.evals < MaxEvals
  /\ bounds' = [bounds EXCEPT !.evals = @ + 1]
  /\ \E v \in DOMAIN versions, ok \in BOOLEAN :
       versions' = [versions EXCEPT ![v].eval =
                      IF ok THEN "pass"
                      ELSE IF @ \in {"pass", "failAfterPass"} THEN "failAfterPass"
                      ELSE "fail"]
  /\ UNCHANGED <<file, deployment, locals, history>>

\* The process dies inside a command; what it committed stays.
Crash(o) ==
  /\ at[o] # "idle"
  /\ bounds.crashes < MaxCrashes
  /\ bounds' = [bounds EXCEPT !.crashes = @ + 1]
  /\ End(o)
  /\ UNCHANGED <<file, versions, deployment, history>>

Step(o) ==
  \/ ReadLatest(o) \/ InsertVersion(o)
  \/ ChooseVersion(o) \/ NothingToChoose(o) \/ Gate(o) \/ ForceGate(o)
  \/ Pick(o) \/ WriteStatus(o) \/ WriteTrail(o)
  \/ ReadState(o) \/ ClearCanary(o) \/ ReadBase(o) \/ ListPrevious(o)
  \/ CheckTarget(o) \/ Point(o)

Next ==
  \/ \E o \in Operators : Start(o) \/ Step(o) \/ Crash(o)
  \/ EditFile
  \/ EvalFinished

Spec == Init /\ [][Next]_vars

-----------------------------------------------------------------------------
(* resolve() *)

CANARY_BUCKETS == 100

\* canary_bucket: the hash of a trace id, one bucket for good.
Buckets == 0..(CANARY_BUCKETS - 1)

\* Bug: one bucket more than the percentage.
InCanaryShareOneMore(bucket, d) == bucket <= d.percent

InCanaryShare(bucket, d) == bucket < d.percent

ChosenVersion(bucket, d) ==
  IF d.canary # 0 /\ d.percent > 0 /\ InCanaryShare(bucket, d) THEN d.canary ELSE d.active

\* The version a trace gets that names none; 0 = PromptNotFound.
Resolved(bucket) ==
  LET v == IF deployment = NoDeployment THEN Len(versions)
           ELSE ChosenVersion(bucket, deployment)
  IN  IF v \in DOMAIN versions THEN v ELSE 0

-----------------------------------------------------------------------------
(* The policy eval_before_publish (guard/policy.py) *)

\* list_prompts: a prompt goes by the status of its newest version.
ListedAs(status) == versions # <<>> /\ Status(Len(versions)) = status

\* The alarm: the active version has no evaluation, or its latest failed.
EvalBeforePublishAlarm ==
  /\ ListedAs("published") /\ deployment # NoDeployment
  /\ versions[deployment.active].eval # "pass"

-----------------------------------------------------------------------------
(* Properties *)

TablesOK ==
  /\ file       \in Texts
  /\ versions   \in Seq(VersionRows)
  /\ deployment \in Deployments \cup {NoDeployment}
  /\ imported   \subseteq DOMAIN versions
  /\ forced     \subseteq DOMAIN versions
  /\ explained  \subseteq DOMAIN versions
  /\ deployed   \subseteq DOMAIN versions
  /\ bounds \in [edits : 0..MaxEdits, evals : 0..MaxEvals, commands : 0..MaxCommands,
                 overlaps : 0..MaxOverlaps, crashes : 0..MaxCrashes]

FramesOK ==
  /\ at      \in [Operators -> Labels]
  /\ kind    \in [Operators -> Kinds]
  /\ target  \in [Operators -> Nat]
  /\ to      \in [Operators -> Statuses]
  /\ base    \in [Operators -> Deployments \cup {NoDeployment}]
  /\ percent \in [Operators -> 0..100]
  /\ loaded  \in [Operators -> Texts \cup {NoFile}]
  /\ alone   \in [Operators -> BOOLEAN]

\* A deployment row names versions that exist.
NamesVersions(d) ==
  d # NoDeployment => /\ d.active \in DOMAIN versions
                      /\ d.canary \in DOMAIN versions \cup {0}

\* The labels a command of each kind goes through.
KindOK(o) ==
  /\ at[o] \in {"latest", "insert"} => kind[o] = "sync" /\ loaded[o] \in Texts
  /\ at[o] \in {"choose", "gate"} => kind[o] \in {"publish", "force"}
  /\ at[o] \in {"pick", "write"} => kind[o] \in DOMAIN To
  /\ kind[o] \in DOMAIN To => to[o] = To[kind[o]]
  /\ at[o] \in {"state", "clear"} => kind[o] \in {"rollback", "rollbackTo"}
  /\ at[o] \in {"base", "check"} => kind[o] \in DeployKinds
  /\ at[o] = "list" => kind[o] = "rollback"

\* What a command has chosen and read by the time it uses it.
ChoiceOK(o) ==
  /\ at[o] # "insert" => target[o] \in DOMAIN versions \cup {0}
  /\ at[o] = "insert" => target[o] \in 1..(Len(versions) + 1)
  /\ at[o] \in {"gate", "write", "trail", "check"} => target[o] # 0
  /\ at[o] = "pick" /\ kind[o] \in {"publish", "force"} => target[o] # 0
  /\ at[o] \in {"state", "clear", "base"} /\ kind[o] \in {"rollbackTo", "canary"}
       => target[o] # 0
  /\ at[o] = "point" => kind[o] = "stop" \/ target[o] # 0
  /\ at[o] \in {"clear", "list"} => base[o] # NoDeployment
  /\ at[o] \in {"check", "point"} /\ kind[o] \in {"canary", "stop"}
       => base[o] # NoDeployment

\* The tables and the commands' frames are well formed: no deployment row
\* names a version that does not exist, and no command acts on one.
TypeOK ==
  /\ TablesOK /\ FramesOK
  /\ NamesVersions(deployment)
  /\ \A o \in Operators : KindOK(o) /\ ChoiceOK(o) /\ NamesVersions(base[o])

Cleared(v) ==
  v \in imported \cup forced \/ versions[v].eval \in {"pass", "failAfterPass"}

\* docs/02 par. 5.2: whatever operators do at the same time, and wherever
\* they die, a version that is or was published has passed an evaluation of
\* its own, was forced on record, or was registered like that at first.
PublishedWasCleared ==
  \A v \in DOMAIN versions :
    Status(v) \in Public => Cleared(v)

\* An alarm of the policy about production is never a gate that was passed
\* by mistake: the version was forced, was registered like that, or failed an
\* evaluation after the one that cleared it.
AlarmsHaveCause ==
  EvalBeforePublishAlarm =>
    \/ deployment.active \in imported \cup forced
    \/ versions[deployment.active].eval = "failAfterPass"

\* The same holds of every version production can be sent to: as soon as a
\* version is registered every trace finds one, and once one was deployed the
\* pointer never names a version that was not cleared, or does not exist.
DeployedWasCleared ==
  /\ \A bucket \in Buckets :
       LET v == Resolved(bucket)
       IN  /\ versions # <<>> => v # 0
           /\ deployment # NoDeployment => v # 0 /\ Cleared(v)
  /\ AlarmsHaveCause

\* The canary gets exactly its percentage of the traces: none at 0, all at 100.
CanaryShare ==
  (deployment # NoDeployment /\ deployment.canary \notin {0, deployment.active}) =>
    Cardinality({bucket \in Buckets : Resolved(bucket) = deployment.canary})
      = deployment.percent

\* docs/02 par. 5.2 keeps the evidence of every change: unless a process
\* died, a version's last change of status is in prompt_transitions, or the
\* command that made it is about to write it, whoever else changed it.
ChangesExplained ==
  bounds.crashes = 0 =>
    \A v \in DOMAIN versions :
      \/ v \in explained
      \/ \E o \in Operators :
           at[o] = "trail" /\ target[o] = v /\ to[o] = Status(v)

\* Unless a process died, no version stays published without ever having
\* been the active one.
PublishedGetsDeployed ==
  bounds.crashes = 0 =>
    \A v \in DOMAIN versions : Status(v) = "published" =>
      \/ v \in deployed
      \/ \E o \in Operators :
           /\ at[o] \in {"trail", "point"} /\ target[o] = v
           /\ kind[o] \in {"publish", "force", "sync"}

RollbackStep(o) ==
  (at[o] = "point" /\ kind[o] = "rollback" /\ alone[o] /\ bounds' = bounds
     /\ deployment' # deployment) =>
    /\ deployment'.active < deployment.active
    /\ Status(deployment'.active) = "published"
    /\ \A v \in DOMAIN versions :
         Status(v) = "published" => ~(deployment'.active < v /\ v < deployment.active)
    /\ ~HasCanary(deployment')

\* FR-050: rollback without a version, when no other command runs, goes to
\* a published version that is older than the active one, with nothing
\* published in between, and ends any canary.
RollbackGoesBack == [][\A o \in Operators : RollbackStep(o)]_vars

CanaryStep(o) ==
  (at[o] = "point" /\ kind[o] \in {"canary", "stop"} /\ alone[o]
     /\ deployment' # deployment) =>
    deployment'.active = deployment.active

\* deploy.py:148: canary and stop_canary do not move the active version,
\* when no other command runs.
CanaryKeepsActive == [][\A o \in Operators : CanaryStep(o)]_vars

SyncStep(o) ==
  (kind[o] = "sync" /\ alone[o] /\ at[o] # "idle" /\ at'[o] = "idle"
     /\ bounds' = bounds) =>
    versions[Len(versions)].text = loaded[o]

\* A sync that ran alone leaves the file it read as the newest version,
\* also when the file went back to an older text.
SyncConverges == [][\A o \in Operators : SyncStep(o)]_vars

\* docs/02 par. 6, schema.sql:83: the row points to a version that is
\* published now.
DeploymentPublished ==
  deployment # NoDeployment => Status(deployment.active) = "published"

StatusStep(v) ==
  versions'[v].status # Status(v) =>
    \/ <<Status(v), versions'[v].status>> \in ALLOWED_TRANSITIONS
    \/ \E o \in Operators : at[o] = "write" /\ target[o] = v /\ ~alone[o]

\* docs/03 par. 2.2 refuses every transition that is not in the table.  The
\* check is made before the UPDATE, so only a command that another one
\* interrupted can still take a version along a forbidden one.
LegalWhenAlone == [][\A v \in DOMAIN versions : StatusStep(v)]_vars

=============================================================================
