------------------------ MODULE PromptRegistryProofs ------------------------
(***************************************************************************)
(* Theorems about PromptRegistry for any number of operators, commands,    *)
(* versions and crashes: the tables and the commands' frames stay well     *)
(* formed, nothing is published or deployed without clearance, changes of  *)
(* status leave their trail, and what a command that ran alone may never   *)
(* do it does not do.                                                      *)
(***************************************************************************)
EXTENDS PromptRegistry, FiniteSetTheorems, SequenceTheorems, TLAPS

\* What a command knows is not touched by this step.
FrameSame(q) ==
  /\ at'[q] = at[q] /\ kind'[q] = kind[q] /\ target'[q] = target[q]
  /\ to'[q] = to[q] /\ base'[q] = base[q] /\ loaded'[q] = loaded[q]

\* The part of TypeOK about one command.
FrameOK(o) == KindOK(o) /\ ChoiceOK(o) /\ NamesVersions(base[o])

\* Versions are added, never removed.
Grows == versions' \in Seq(VersionRows) /\ Len(versions) <= Len(versions')

-----------------------------------------------------------------------------
(* Frames *)

\* The domain of the version table is an initial segment of the numbers.
LEMMA VersionNumbers ==
  ASSUME TablesOK
  PROVE  DOMAIN versions = 1..Len(versions) /\ Len(versions) \in Nat
BY LenProperties DEF TablesOK

\* The same after a step.
LEMMA VersionNumbersNext ==
  ASSUME Grows
  PROVE  DOMAIN versions' = 1..Len(versions') /\ Len(versions') \in Nat
BY LenProperties DEF Grows

\* A version that exists goes on existing.
LEMMA VersionsStay ==
  ASSUME TablesOK, Grows
  PROVE  DOMAIN versions \subseteq DOMAIN versions'
BY VersionNumbers, VersionNumbersNext DEF Grows

\* A deployment row stays well formed while versions are added.
LEMMA NamesStay ==
  ASSUME TablesOK, Grows, NEW d, NamesVersions(d)
  PROVE  d # NoDeployment => /\ d.active \in DOMAIN versions'
                             /\ d.canary \in DOMAIN versions' \cup {0}
BY VersionsStay DEF NamesVersions

\* A command that does not move stays well formed while versions are added.
LEMMA OtherFrame ==
  ASSUME TypeOK, Grows, NEW q \in Operators, FrameSame(q)
  PROVE  FrameOK(q)'
<1>1. KindOK(q) /\ ChoiceOK(q) /\ NamesVersions(base[q]) /\ TablesOK
  BY DEF TypeOK
<1>2. KindOK(q)'
  BY <1>1 DEF KindOK, FrameSame
<1>3. ChoiceOK(q)'
  <2>1. DOMAIN versions = 1..Len(versions) /\ Len(versions) \in Nat
    BY <1>1, VersionNumbers
  <2>2. DOMAIN versions' = 1..Len(versions') /\ Len(versions') \in Nat
    BY VersionNumbersNext
  <2>3. Len(versions) <= Len(versions')
    BY DEF Grows
  <2>4. at[q] = "insert" => target[q] \in 1..(Len(versions') + 1)
    BY <1>1, <2>1, <2>2, <2>3 DEF ChoiceOK
  <2>5. at[q] # "insert" => target[q] \in DOMAIN versions' \cup {0}
    BY <1>1, <2>1, <2>2, <2>3 DEF ChoiceOK
  <2>6. QED
    BY <1>1, <2>4, <2>5 DEF ChoiceOK, FrameSame
<1>4. NamesVersions(base[q])'
  BY <1>1, NamesStay DEF NamesVersions, FrameSame
<1>5. QED
  BY <1>2, <1>3, <1>4 DEF FrameOK

\* TypeOK after a step of o, from what the step does to o and the tables.
LEMMA TypeFromParts ==
  ASSUME TypeOK, Grows, NEW o \in Operators,
         TablesOK', FramesOK', NamesVersions(deployment)', FrameOK(o)',
         \A q \in Operators \ {o} : FrameSame(q)
  PROVE  TypeOK'
<1>1. \A q \in Operators : FrameOK(q)'
  <2>1. ASSUME NEW q \in Operators, q # o PROVE FrameOK(q)'
    BY <2>1, OtherFrame
  <2>2. QED
    BY <2>1
<1>2. QED
  BY <1>1 DEF TypeOK, FrameOK

\* A command that ends leaves a well-formed frame.
LEMMA EndFrame ==
  ASSUME TypeOK, NEW o \in Operators, End(o)
  PROVE  FramesOK' /\ FrameOK(o)' /\ \A q \in Operators \ {o} : FrameSame(q)
<1>1. FramesOK
  BY DEF TypeOK
<1>2. FramesOK'
  BY <1>1 DEF FramesOK, End, Goto, Labels, Kinds, Statuses
<1>3. /\ at'[o] = "idle" /\ kind'[o] = "sync" /\ target'[o] = 0
      /\ base'[o] = NoDeployment
  BY <1>1 DEF FramesOK, End, Goto
<1>4. "sync" \notin DOMAIN To
  BY DEF To
<1>5. KindOK(o)'
  BY <1>3, <1>4 DEF KindOK
<1>6. ChoiceOK(o)'
  BY <1>3 DEF ChoiceOK
<1>7. NamesVersions(base[o])'
  BY <1>3 DEF NamesVersions
<1>8. \A q \in Operators \ {o} : FrameSame(q)
  BY <1>1 DEF FramesOK, End, Goto, FrameSame
<1>9. QED
  BY <1>2, <1>5, <1>6, <1>7, <1>8 DEF FrameOK

\* Tables that do not change stay well formed.
LEMMA TablesKept ==
  ASSUME TypeOK, UNCHANGED <<file, versions, deployment, history, bounds>>
  PROVE  TablesOK' /\ Grows /\ NamesVersions(deployment)'
<1>1. TablesOK /\ NamesVersions(deployment)
  BY DEF TypeOK
<1>2. TablesOK'
  BY <1>1 DEF TablesOK, history
<1>3. Grows
  BY <1>1, VersionNumbers DEF TablesOK, Grows
<1>4. QED
  BY <1>1, <1>2, <1>3 DEF NamesVersions

\* A command that raises leaves everything well formed.
LEMMA RaisesType ==
  ASSUME TypeOK, NEW o \in Operators, Raises(o)
  PROVE  TypeOK'
<1>1. End(o) /\ UNCHANGED <<file, versions, deployment, history, bounds>>
  BY DEF Raises
<1>2. QED
  BY <1>1, EndFrame, TablesKept, TypeFromParts

\* Where a reading step leaves its command.
LEMMA ReadsFrame ==
  ASSUME TypeOK, NEW o \in Operators, NEW l, Reads(o, l)
  PROVE  /\ at'[o] = l /\ kind'[o] = kind[o] /\ loaded'[o] = loaded[o]
         /\ UNCHANGED <<file, versions, deployment, history, bounds>>
<1>1. at \in [Operators -> Labels]
  BY DEF TypeOK, FramesOK
<1>2. QED
  BY <1>1 DEF Reads, Goto

\* A step that only reads leaves everything well formed, when what it read
\* fits the label it goes to.
LEMMA ReadsType ==
  ASSUME TypeOK, NEW o \in Operators, NEW l \in Labels, Reads(o, l),
         target' = [target EXCEPT ![o] = target'[o]], target'[o] \in Nat,
         to' = [to EXCEPT ![o] = to'[o]], to'[o] \in Statuses,
         base' = [base EXCEPT ![o] = base'[o]],
         base'[o] \in Deployments \cup {NoDeployment},
         FrameOK(o)'
  PROVE  TypeOK'
<1>1. FramesOK
  BY DEF TypeOK
<1>2. /\ at' = [at EXCEPT ![o] = l]
      /\ UNCHANGED <<kind, percent, loaded, alone>>
      /\ UNCHANGED <<file, versions, deployment, history, bounds>>
  BY DEF Reads, Goto
<1>3. FramesOK'
  BY <1>1, <1>2 DEF FramesOK
<1>4. \A q \in Operators \ {o} : FrameSame(q)
  BY <1>1, <1>2 DEF FramesOK, FrameSame
<1>5. TablesOK' /\ Grows /\ NamesVersions(deployment)'
  BY <1>2, TablesKept
<1>6. QED
  BY <1>3, <1>4, <1>5, TypeFromParts

-----------------------------------------------------------------------------
(* One lemma per reading action *)

\* What TypeOK says of one command, with the numbers of the versions.
LEMMA FrameFacts ==
  ASSUME TypeOK, NEW o \in Operators
  PROVE  /\ at \in [Operators -> Labels] /\ kind \in [Operators -> Kinds]
         /\ target \in [Operators -> Nat] /\ to \in [Operators -> Statuses]
         /\ base \in [Operators -> Deployments \cup {NoDeployment}]
         /\ KindOK(o) /\ ChoiceOK(o) /\ NamesVersions(base[o])
         /\ DOMAIN versions = 1..Len(versions) /\ Len(versions) \in Nat
         /\ deployment \in Deployments \cup {NoDeployment}
         /\ NamesVersions(deployment)
<1>1. TablesOK /\ FramesOK /\ NamesVersions(deployment)
  BY DEF TypeOK
<1>2. DOMAIN versions = 1..Len(versions) /\ Len(versions) \in Nat
  BY <1>1, VersionNumbers
<1>3. KindOK(o) /\ ChoiceOK(o) /\ NamesVersions(base[o])
  BY DEF TypeOK
<1>4. QED
  BY <1>1, <1>2, <1>3 DEF FramesOK, TablesOK

\* sync: SELECT the latest version.
LEMMA ReadLatestType ==
  ASSUME TypeOK, NEW o \in Operators, ReadLatest(o)
  PROVE  TypeOK'
<1>1. CASE Unchanged(o)
  BY <1>1, RaisesType DEF ReadLatest
<1>2. CASE ~Unchanged(o)
  <2>1. /\ at[o] = "latest" /\ Reads(o, "insert") /\ UNCHANGED base
        /\ target' = [target EXCEPT ![o] = Len(versions) + 1]
        /\ to' = [to EXCEPT ![o] = NewStatus(o)]
    BY <1>2 DEF ReadLatest
  <2>2. kind[o] = "sync" /\ loaded[o] \in Texts
    BY <2>1, FrameFacts DEF KindOK
  <2>3. NewStatus(o) \in Statuses
    BY <2>2, RegistryAssumption DEF NewStatus, Statuses
  <2>4. Len(versions) + 1 \in Nat /\ Len(versions) + 1 \in 1..(Len(versions) + 1)
    BY FrameFacts
  <2>5. "insert" \in Labels /\ "sync" \notin DOMAIN To
    BY DEF Labels, To
  <2>6. target'[o] = Len(versions) + 1 /\ to'[o] = NewStatus(o) /\ base'[o] = base[o]
    BY <2>1, FrameFacts
  <2>7. /\ at'[o] = "insert" /\ kind'[o] = kind[o] /\ loaded'[o] = loaded[o]
        /\ versions' = versions
    BY <2>1, ReadsFrame
  <2>8. FrameOK(o)'
    BY <2>2, <2>4, <2>5, <2>6, <2>7, FrameFacts
    DEF FrameOK, KindOK, ChoiceOK, NamesVersions
  <2>9. /\ target' = [target EXCEPT ![o] = target'[o]] /\ target'[o] \in Nat
        /\ to' = [to EXCEPT ![o] = to'[o]] /\ to'[o] \in Statuses
        /\ base' = [base EXCEPT ![o] = base'[o]]
        /\ base'[o] \in Deployments \cup {NoDeployment}
    BY <2>1, <2>3, <2>4, <2>6, FrameFacts
  <2>10. QED
    BY <2>1, <2>5, <2>8, <2>9, ReadsType
<1>3. QED
  BY <1>1, <1>2

\* publish: the version whose evaluation is looked at.
LEMMA ChooseVersionType ==
  ASSUME TypeOK, NEW o \in Operators, ChooseVersion(o)
  PROVE  TypeOK'
<1>1. at[o] = "choose" /\ Reads(o, "gate") /\ UNCHANGED <<to, base>>
  BY DEF ChooseVersion
<1>2. kind[o] \in {"publish", "force"}
  BY <1>1, FrameFacts DEF KindOK
<1>3. PICK v \in DOMAIN versions : target' = [target EXCEPT ![o] = v]
  <2>1. CASE target[o] # 0 /\ UNCHANGED target
    <3>1. target[o] \in DOMAIN versions
      BY <1>1, <2>1, FrameFacts DEF ChoiceOK
    <3>2. target' = [target EXCEPT ![o] = target[o]]
      BY <2>1, FrameFacts
    <3>3. QED
      BY <3>1, <3>2
  <2>2. CASE \E v \in DOMAIN versions : target' = [target EXCEPT ![o] = v]
    BY <2>2
  <2>3. QED
    BY <2>1, <2>2 DEF ChooseVersion
<1>4. v \in Nat /\ v # 0
  BY <1>3, FrameFacts
<1>5. "gate" \in Labels
  BY DEF Labels
<1>6. target'[o] = v /\ to'[o] = to[o] /\ base'[o] = base[o]
  BY <1>1, <1>3, FrameFacts
<1>7. /\ at'[o] = "gate" /\ kind'[o] = kind[o] /\ loaded'[o] = loaded[o]
      /\ versions' = versions
  BY <1>1, ReadsFrame
<1>8. FrameOK(o)'
  BY <1>2, <1>3, <1>4, <1>6, <1>7, FrameFacts
  DEF FrameOK, KindOK, ChoiceOK, NamesVersions
<1>9. /\ target' = [target EXCEPT ![o] = target'[o]] /\ target'[o] \in Nat
      /\ to' = [to EXCEPT ![o] = to'[o]] /\ to'[o] \in Statuses
      /\ base' = [base EXCEPT ![o] = base'[o]]
      /\ base'[o] \in Deployments \cup {NoDeployment}
  BY <1>1, <1>3, <1>4, <1>6, FrameFacts
<1>10. QED
  BY <1>1, <1>5, <1>8, <1>9, ReadsType

\* publish: the gate.
LEMMA GateType ==
  ASSUME TypeOK, NEW o \in Operators, Gate(o)
  PROVE  TypeOK'
<1>1. CASE ~GatePasses(target[o])
  BY <1>1, RaisesType DEF Gate
<1>2. CASE GatePasses(target[o])
  <2>1. /\ at[o] = "gate" /\ kind[o] = "publish" /\ Reads(o, "pick")
        /\ UNCHANGED <<target, to, base>>
    BY <1>2 DEF Gate
  <2>2. "pick" \in Labels /\ "publish" \in DOMAIN To
    BY DEF Labels, To
  <2>3. /\ at'[o] = "pick" /\ kind'[o] = kind[o] /\ loaded'[o] = loaded[o]
        /\ versions' = versions
    BY <2>1, ReadsFrame
  <2>4. FrameOK(o)'
    BY <2>1, <2>2, <2>3, FrameFacts DEF FrameOK, KindOK, ChoiceOK, NamesVersions
  <2>5. /\ target' = [target EXCEPT ![o] = target'[o]] /\ target'[o] \in Nat
        /\ to' = [to EXCEPT ![o] = to'[o]] /\ to'[o] \in Statuses
        /\ base' = [base EXCEPT ![o] = base'[o]]
        /\ base'[o] \in Deployments \cup {NoDeployment}
    BY <2>1, FrameFacts
  <2>6. QED
    BY <2>1, <2>2, <2>4, <2>5, ReadsType
<1>3. QED
  BY <1>1, <1>2

\* _transition: the version and the check of the step.
LEMMA PickType ==
  ASSUME TypeOK, NEW o \in Operators, Pick(o)
  PROVE  TypeOK'
<1>1. PICK v \in DOMAIN versions :
        IF Allowed(o, v)
        THEN /\ target' = [target EXCEPT ![o] = v]
             /\ UNCHANGED <<to, base>>
             /\ Reads(o, "write")
        ELSE Raises(o)
  BY DEF Pick
<1>2. CASE ~Allowed(o, v)
  BY <1>1, <1>2, RaisesType
<1>3. CASE Allowed(o, v)
  <2>1. /\ at[o] = "pick" /\ Reads(o, "write")
        /\ target' = [target EXCEPT ![o] = v] /\ UNCHANGED <<to, base>>
    BY <1>1, <1>3 DEF Pick
  <2>2. kind[o] \in DOMAIN To /\ to[o] = To[kind[o]]
    BY <2>1, FrameFacts DEF KindOK
  <2>3. v \in Nat /\ v # 0
    BY FrameFacts
  <2>4. "write" \in Labels
    BY DEF Labels
  <2>5. target'[o] = v /\ to'[o] = to[o] /\ base'[o] = base[o]
    BY <2>1, FrameFacts
  <2>6. /\ at'[o] = "write" /\ kind'[o] = kind[o] /\ loaded'[o] = loaded[o]
        /\ versions' = versions
    BY <2>1, ReadsFrame
  <2>7. FrameOK(o)'
    BY <2>2, <2>3, <2>5, <2>6, FrameFacts DEF FrameOK, KindOK, ChoiceOK, NamesVersions
  <2>8. /\ target' = [target EXCEPT ![o] = target'[o]] /\ target'[o] \in Nat
        /\ to' = [to EXCEPT ![o] = to'[o]] /\ to'[o] \in Statuses
        /\ base' = [base EXCEPT ![o] = base'[o]]
        /\ base'[o] \in Deployments \cup {NoDeployment}
    BY <2>1, <2>3, <2>5, FrameFacts
  <2>9. QED
    BY <2>1, <2>4, <2>7, <2>8, ReadsType
<1>4. QED
  BY <1>2, <1>3

\* Deployer.rollback: the state before it.
LEMMA ReadStateType ==
  ASSUME TypeOK, NEW o \in Operators, ReadState(o)
  PROVE  TypeOK'
<1>1. PICK l \in {"clear", "base"} :
        /\ Reads(o, l)
        /\ l = "clear" => deployment # NoDeployment
  BY DEF ReadState, HasCanary
<1>2. /\ at[o] = "state" /\ UNCHANGED <<target, to>>
      /\ base' = [base EXCEPT ![o] = deployment]
  BY DEF ReadState
<1>3. kind[o] \in {"rollback", "rollbackTo"}
  BY <1>2, FrameFacts DEF KindOK
<1>4. l \in Labels /\ {"rollback", "rollbackTo"} \cap DOMAIN To = {}
  BY DEF Labels, To
<1>5. target'[o] = target[o] /\ to'[o] = to[o] /\ base'[o] = deployment
  BY <1>2, FrameFacts
<1>6. /\ at'[o] = l /\ kind'[o] = kind[o] /\ loaded'[o] = loaded[o]
      /\ versions' = versions
  BY <1>1, ReadsFrame
<1>7. FrameOK(o)'
  <2>1. KindOK(o)'
    BY <1>3, <1>4, <1>6 DEF KindOK, DeployKinds
  <2>2. ChoiceOK(o)'
    BY <1>1, <1>2, <1>5, <1>6, FrameFacts DEF ChoiceOK
  <2>3. NamesVersions(base[o])'
    BY <1>5, <1>6, FrameFacts DEF NamesVersions
  <2>4. QED
    BY <2>1, <2>2, <2>3 DEF FrameOK
<1>8. /\ target' = [target EXCEPT ![o] = target'[o]] /\ target'[o] \in Nat
      /\ to' = [to EXCEPT ![o] = to'[o]] /\ to'[o] \in Statuses
      /\ base' = [base EXCEPT ![o] = base'[o]]
      /\ base'[o] \in Deployments \cup {NoDeployment}
  BY <1>2, <1>5, FrameFacts
<1>9. QED
  BY <1>1, <1>4, <1>7, <1>8, ReadsType

\* get_deployment, and what each command makes of it.
LEMMA ReadBaseType ==
  ASSUME TypeOK, NEW o \in Operators, ReadBase(o)
  PROVE  TypeOK'
<1> DEFINE Missing == \/ deployment = NoDeployment
                      \/ kind[o] = "promote" /\ ~HasCanary(deployment)
<1>1. CASE Missing
  BY <1>1, RaisesType DEF ReadBase
<1>2. CASE ~Missing
  <2>1. /\ at[o] = "base" /\ deployment # NoDeployment
        /\ kind[o] = "promote" => deployment.canary # 0
    BY <1>2 DEF ReadBase, HasCanary
  <2>2. /\ base' = [base EXCEPT ![o] = deployment]
        /\ target' = [target EXCEPT ![o] =
                        IF kind[o] = "promote" THEN deployment.canary ELSE @]
        /\ UNCHANGED to
    BY <1>2 DEF ReadBase
  <2>3. kind[o] \in DeployKinds
    BY <2>1, FrameFacts DEF KindOK
  <2>4. PICK l \in {"list", "point", "check"} :
          /\ Reads(o, l)
          /\ l = "list" => kind[o] = "rollback"
          /\ l = "point" => kind[o] = "stop"
          /\ l = "check" => kind[o] \in {"rollbackTo", "canary", "promote"}
    <3>1. CASE kind[o] = "rollback"
      BY <1>2, <3>1 DEF ReadBase
    <3>2. CASE kind[o] = "stop"
      BY <1>2, <3>2 DEF ReadBase
    <3>3. CASE kind[o] \in {"rollbackTo", "canary", "promote"}
      BY <1>2, <3>3 DEF ReadBase
    <3>4. QED
      BY <2>3, <3>1, <3>2, <3>3 DEF DeployKinds
  <2>5. l \in Labels /\ DeployKinds \cap DOMAIN To = {}
    BY DEF Labels, To, DeployKinds
  <2>6. /\ base'[o] = deployment /\ to'[o] = to[o]
        /\ target'[o] = IF kind[o] = "promote" THEN deployment.canary ELSE target[o]
    BY <2>2, FrameFacts
  <2>7. deployment.active \in Nat /\ deployment.canary \in Nat
        /\ deployment.canary \in DOMAIN versions \cup {0}
    BY <2>1, FrameFacts DEF Deployments, NamesVersions
  <2>8. /\ at'[o] = l /\ kind'[o] = kind[o] /\ loaded'[o] = loaded[o]
        /\ versions' = versions
    BY <2>4, ReadsFrame
  <2>9. FrameOK(o)'
    <3>1. KindOK(o)'
      BY <2>3, <2>4, <2>5, <2>8 DEF KindOK
    <3>2. ChoiceOK(o)'
      <4>1. target[o] \in DOMAIN versions \cup {0}
            /\ (kind[o] \in {"rollbackTo", "canary"} => target[o] # 0)
        BY <2>1, FrameFacts DEF ChoiceOK
      <4>2. target'[o] \in DOMAIN versions \cup {0}
        BY <2>6, <2>7, <4>1
      <4>3. l = "check" => target'[o] # 0
        BY <2>1, <2>4, <2>6, <4>1
      <4>4. QED
        BY <2>1, <2>4, <2>6, <2>8, <4>2, <4>3 DEF ChoiceOK
    <3>3. NamesVersions(base[o])'
      BY <2>6, <2>8, FrameFacts DEF NamesVersions
    <3>4. QED
      BY <3>1, <3>2, <3>3 DEF FrameOK
  <2>10. /\ target' = [target EXCEPT ![o] = target'[o]] /\ target'[o] \in Nat
         /\ to' = [to EXCEPT ![o] = to'[o]] /\ to'[o] \in Statuses
         /\ base' = [base EXCEPT ![o] = base'[o]]
         /\ base'[o] \in Deployments \cup {NoDeployment}
    BY <2>2, <2>6, <2>7, FrameFacts
  <2>11. QED
    BY <2>4, <2>5, <2>9, <2>10, ReadsType
<1>3. QED
  BY <1>1, <1>2

\* rollback without a version: the newest published one before the active.
LEMMA ListPreviousType ==
  ASSUME TypeOK, NEW o \in Operators, ListPrevious(o)
  PROVE  TypeOK'
<1> DEFINE previous == {v \in DOMAIN versions : CanGoBackTo(o, v)}
<1>1. CASE previous = {}
  BY <1>1, RaisesType DEF ListPrevious
<1>2. CASE previous # {}
  <2>1. at[o] = "list" /\ Reads(o, "check") /\ UNCHANGED <<to, base>>
    BY <1>2 DEF ListPrevious
  <2>2. PICK v \in DOMAIN versions : target' = [target EXCEPT ![o] = v]
    BY <1>2 DEF ListPrevious
  <2>3. kind[o] = "rollback"
    BY <2>1, FrameFacts DEF KindOK
  <2>4. v \in Nat /\ v # 0
    BY FrameFacts
  <2>5. "check" \in Labels /\ "rollback" \notin DOMAIN To /\ "rollback" \in DeployKinds
    BY DEF Labels, To, DeployKinds
  <2>6. target'[o] = v /\ to'[o] = to[o] /\ base'[o] = base[o]
    BY <2>1, <2>2, FrameFacts
  <2>7. /\ at'[o] = "check" /\ kind'[o] = kind[o] /\ loaded'[o] = loaded[o]
        /\ versions' = versions
    BY <2>1, ReadsFrame
  <2>8. FrameOK(o)'
    BY <2>3, <2>4, <2>5, <2>6, <2>7, FrameFacts
    DEF FrameOK, KindOK, ChoiceOK, NamesVersions
  <2>9. /\ target' = [target EXCEPT ![o] = target'[o]] /\ target'[o] \in Nat
        /\ to' = [to EXCEPT ![o] = to'[o]] /\ to'[o] \in Statuses
        /\ base' = [base EXCEPT ![o] = base'[o]]
        /\ base'[o] \in Deployments \cup {NoDeployment}
    BY <2>1, <2>2, <2>4, <2>6, FrameFacts
  <2>10. QED
    BY <2>1, <2>5, <2>8, <2>9, ReadsType
<1>3. QED
  BY <1>1, <1>2

\* Is the chosen version published?
LEMMA CheckTargetType ==
  ASSUME TypeOK, NEW o \in Operators, CheckTarget(o)
  PROVE  TypeOK'
<1>1. CASE ~Deployable(target[o])
  BY <1>1, RaisesType DEF CheckTarget
<1>2. CASE Deployable(target[o])
  <2>1. /\ at[o] = "check" /\ Reads(o, "point") /\ UNCHANGED <<target, to, base>>
    BY <1>2 DEF CheckTarget
  <2>2. "point" \in Labels
    BY DEF Labels
  <2>3. /\ at'[o] = "point" /\ kind'[o] = kind[o] /\ loaded'[o] = loaded[o]
        /\ versions' = versions
    BY <2>1, ReadsFrame
  <2>4. FrameOK(o)'
    BY <2>1, <2>3, FrameFacts DEF FrameOK, KindOK, ChoiceOK, NamesVersions
  <2>5. /\ target' = [target EXCEPT ![o] = target'[o]] /\ target'[o] \in Nat
        /\ to' = [to EXCEPT ![o] = to'[o]] /\ to'[o] \in Statuses
        /\ base' = [base EXCEPT ![o] = base'[o]]
        /\ base'[o] \in Deployments \cup {NoDeployment}
    BY <2>1, FrameFacts
  <2>6. QED
    BY <2>1, <2>2, <2>4, <2>5, ReadsType
<1>3. QED
  BY <1>1, <1>2

-----------------------------------------------------------------------------
(* One lemma per writing action *)

\* A command begins.
LEMMA StartType ==
  ASSUME TypeOK, NEW o \in Operators, Start(o)
  PROVE  TypeOK'
<1>1. TablesOK /\ FramesOK
  BY DEF TypeOK
<1>2. PICK k \in Kinds :
        /\ \E l \in FirstLabels(k) : at' = [at EXCEPT ![o] = l]
        /\ \E v \in Asked(k) : target' = [target EXCEPT ![o] = v]
        /\ kind' = [kind EXCEPT ![o] = k]
        /\ to' = [to EXCEPT ![o] = IF k \in DOMAIN To THEN To[k] ELSE "published"]
        /\ \E p \in IF k = "canary" THEN Percents ELSE {0} :
             percent' = [percent EXCEPT ![o] = p]
        /\ loaded' = [loaded EXCEPT ![o] = IF k = "sync" THEN file ELSE NoFile]
  BY DEF Start, Goto
<1>3. PICK l \in FirstLabels(k) : at' = [at EXCEPT ![o] = l]
  BY <1>2
<1>4. PICK v \in Asked(k) : target' = [target EXCEPT ![o] = v]
  BY <1>2
<1>5. PICK p \in 0..100 : percent' = [percent EXCEPT ![o] = p]
  <2>1. Percents \subseteq 0..100
    BY RegistryAssumption
  <2>2. (IF k = "canary" THEN Percents ELSE {0}) \subseteq 0..100
    BY <2>1
  <2>3. QED
    BY <1>2, <2>2
<1>6. /\ at[o] = "idle"
      /\ UNCHANGED <<base, file, versions, deployment, history>>
      /\ bounds' = [bounds EXCEPT !.commands = @ + 1,
                                  !.overlaps = IF Alone(o) THEN @ ELSE @ + 1]
      /\ bounds.commands < MaxCommands
      /\ Alone(o) \/ bounds.overlaps < MaxOverlaps
      /\ alone' = [q \in Operators |-> IF q = o THEN Alone(o)
                                       ELSE alone[q] /\ at[q] = "idle"]
  BY DEF Start
<1>7. TablesOK'
  <2>1. bounds' \in [edits : 0..MaxEdits, evals : 0..MaxEvals, commands : 0..MaxCommands,
                     overlaps : 0..MaxOverlaps, crashes : 0..MaxCrashes]
    <3>1. bounds \in [edits : 0..MaxEdits, evals : 0..MaxEvals,
                      commands : 0..MaxCommands, overlaps : 0..MaxOverlaps,
                      crashes : 0..MaxCrashes]
      BY <1>1 DEF TablesOK
    <3>2. bounds.commands + 1 \in 0..MaxCommands
      BY <1>6, <3>1, RegistryAssumption
    <3>3. CASE Alone(o)
      <4>1. bounds' = [bounds EXCEPT !.commands = bounds.commands + 1,
                                     !.overlaps = bounds.overlaps]
        BY <1>6, <3>3
      <4>2. QED
        BY <3>1, <3>2, <4>1
    <3>4. CASE ~Alone(o)
      <4>1. bounds' = [bounds EXCEPT !.commands = bounds.commands + 1,
                                     !.overlaps = bounds.overlaps + 1]
        BY <1>6, <3>4
      <4>2. bounds.overlaps + 1 \in 0..MaxOverlaps
        BY <1>6, <3>1, <3>4, RegistryAssumption
      <4>3. QED
        BY <3>1, <3>2, <4>1, <4>2
    <3>5. QED
      BY <3>3, <3>4
  <2>2. QED
    BY <1>1, <1>6, <2>1 DEF TablesOK, history
<1>8. Grows /\ NamesVersions(deployment)'
  <2>1. NamesVersions(deployment)
    BY DEF TypeOK
  <2>2. QED
    BY <1>1, <1>6, <2>1, VersionNumbers DEF TablesOK, Grows, NamesVersions
<1>9. /\ l \in {"latest", "choose", "pick", "state", "base"}
      /\ (l = "latest") <=> (k = "sync")
      /\ l = "choose" => k \in {"publish", "force"}
      /\ l = "pick" => k \in DOMAIN To /\ k \notin {"publish", "force"}
      /\ l = "state" => k \in {"rollback", "rollbackTo"}
      /\ l = "base" => k \in DeployKinds
  BY DEF FirstLabels, Kinds, To, DeployKinds
<1>10. /\ v \in DOMAIN versions \cup {0} /\ v \in Nat
       /\ k \in {"rollbackTo", "canary"} => v # 0
  <2>1. DOMAIN versions = 1..Len(versions) /\ Len(versions) \in Nat
    BY FrameFacts
  <2>2. {"rollbackTo", "canary"} \cap DOMAIN To = {}
    BY DEF To
  <2>3. QED
    BY <2>1, <2>2 DEF Asked
<1>11. FramesOK'
  <2>1. l \in Labels
    BY <1>9 DEF Labels
  <2>2. (IF k \in DOMAIN To THEN To[k] ELSE "published") \in Statuses
    BY DEF To, Statuses, Public
  <2>3. file \in Texts
    BY <1>1 DEF TablesOK
  <2>4. Alone(o) \in BOOLEAN
    BY DEF Alone
  <2>5. alone' \in [Operators -> BOOLEAN]
    BY <1>1, <1>6, <2>4 DEF FramesOK
  <2>6. QED
    BY <1>1, <1>2, <1>3, <1>4, <1>5, <1>6, <1>10, <2>1, <2>2, <2>3, <2>5 DEF FramesOK
<1>12. /\ at'[o] = l /\ kind'[o] = k /\ target'[o] = v /\ base'[o] = base[o]
       /\ to'[o] = IF k \in DOMAIN To THEN To[k] ELSE "published"
       /\ loaded'[o] = IF k = "sync" THEN file ELSE NoFile
  BY <1>1, <1>2, <1>3, <1>4, <1>6 DEF FramesOK
<1>13. FrameOK(o)'
  <2>1. KindOK(o)'
    BY <1>1, <1>9, <1>12 DEF KindOK, TablesOK
  <2>2. ChoiceOK(o)'
    BY <1>6, <1>9, <1>10, <1>12 DEF ChoiceOK
  <2>3. NamesVersions(base[o])'
    BY <1>6, <1>12, FrameFacts DEF NamesVersions
  <2>4. QED
    BY <2>1, <2>2, <2>3 DEF FrameOK
<1>14. \A q \in Operators \ {o} : FrameSame(q)
  BY <1>1, <1>2, <1>3, <1>4, <1>6 DEF FramesOK, FrameSame
<1>15. QED
  BY <1>7, <1>8, <1>11, <1>13, <1>14, TypeFromParts

\* A step that only moves the label of its command.
LEMMA GotoFrame ==
  ASSUME TypeOK, NEW o \in Operators, NEW l \in Labels, Goto(o, l),
         UNCHANGED <<kind, target, to, base, percent, loaded, alone>>
  PROVE  /\ FramesOK' /\ at'[o] = l /\ kind'[o] = kind[o] /\ target'[o] = target[o]
         /\ to'[o] = to[o] /\ base'[o] = base[o] /\ loaded'[o] = loaded[o]
         /\ \A q \in Operators \ {o} : FrameSame(q)
<1>1. FramesOK /\ at' = [at EXCEPT ![o] = l]
  BY DEF TypeOK, Goto
<1>2. FramesOK'
  BY <1>1 DEF FramesOK
<1>3. at'[o] = l /\ \A q \in Operators \ {o} : FrameSame(q)
  BY <1>1 DEF FramesOK, FrameSame
<1>4. QED
  BY <1>2, <1>3

\* Writing one row keeps the table of versions a table of as many versions.
LEMMA RowWritten ==
  ASSUME TypeOK, NEW v \in DOMAIN versions, NEW r \in VersionRows,
         versions' = [versions EXCEPT ![v] = r]
  PROVE  Grows /\ DOMAIN versions' = DOMAIN versions
<1>1. versions \in Seq(VersionRows)
  BY DEF TypeOK, TablesOK
<1>2. versions' \in Seq(VersionRows) /\ Len(versions') = Len(versions)
  BY <1>1, LenProperties, ExceptSeq
<1>3. Len(versions) \in Nat
  BY <1>1, LenProperties
<1>4. QED
  BY <1>2, <1>3 DEF Grows

\* sync: the new row.
LEMMA InsertVersionType ==
  ASSUME TypeOK, NEW o \in Operators, InsertVersion(o)
  PROVE  TypeOK'
<1>1. CASE target[o] \in DOMAIN versions
  BY <1>1, RaisesType DEF InsertVersion
<1>2. CASE target[o] \notin DOMAIN versions
  <2> DEFINE r == NewVersionRow(o)
  <2>1. /\ at[o] = "insert" /\ Goto(o, "trail") /\ versions' = Append(versions, r)
        /\ imported' = IF to[o] \in Public THEN imported \cup {target[o]} ELSE imported
        /\ UNCHANGED <<kind, target, to, base, percent, loaded, alone>>
        /\ UNCHANGED <<file, deployment, forced, explained, deployed, bounds>>
    BY <1>2 DEF InsertVersion
  <2>2. kind[o] = "sync" /\ loaded[o] \in Texts /\ to[o] \in Statuses
    BY <2>1, FrameFacts DEF KindOK
  <2>3. r \in VersionRows
    BY <2>2 DEF NewVersionRow, VersionRows, Verdicts
  <2>4. versions \in Seq(VersionRows)
    BY DEF TypeOK, TablesOK
  <2> HIDE DEF r
  <2>5. versions' \in Seq(VersionRows) /\ Len(versions') = Len(versions) + 1
    BY <2>1, <2>3, <2>4, AppendProperties
  <2>6. Len(versions) \in Nat /\ DOMAIN versions = 1..Len(versions)
    BY FrameFacts
  <2>7. Grows
    BY <2>5, <2>6 DEF Grows
  <2>8. DOMAIN versions \subseteq DOMAIN versions'
    BY <2>7, VersionsStay DEF TypeOK
  <2>9. target[o] \in 1..(Len(versions) + 1)
    BY <2>1, FrameFacts DEF ChoiceOK
  <2>10. target[o] \in DOMAIN versions'
    BY <2>5, <2>6, <2>7, <2>9, VersionNumbersNext
  <2>11. TablesOK'
    <3>1. TablesOK
      BY DEF TypeOK
    <3>2. /\ imported' \subseteq DOMAIN versions' /\ forced' \subseteq DOMAIN versions'
          /\ explained' \subseteq DOMAIN versions' /\ deployed' \subseteq DOMAIN versions'
      BY <2>1, <2>8, <2>10, <3>1 DEF TablesOK
    <3>3. QED
      BY <2>1, <2>5, <3>1, <3>2 DEF TablesOK
  <2>12. NamesVersions(deployment)'
    BY <2>1, <2>8, FrameFacts DEF NamesVersions
  <2>13. /\ FramesOK' /\ at'[o] = "trail" /\ kind'[o] = kind[o] /\ target'[o] = target[o]
         /\ to'[o] = to[o] /\ base'[o] = base[o] /\ loaded'[o] = loaded[o]
         /\ \A q \in Operators \ {o} : FrameSame(q)
    BY <2>1, GotoFrame DEF Labels
  <2>14. FrameOK(o)'
    <3>1. KindOK(o)'
      BY <2>2, <2>13, FrameFacts DEF KindOK
    <3>2. ChoiceOK(o)'
      BY <2>9, <2>10, <2>13 DEF ChoiceOK
    <3>3. NamesVersions(base[o])'
      BY <2>8, <2>13, FrameFacts DEF NamesVersions
    <3>4. QED
      BY <3>1, <3>2, <3>3 DEF FrameOK
  <2>15. QED
    BY <2>7, <2>11, <2>12, <2>13, <2>14, TypeFromParts
<1>3. QED
  BY <1>1, <1>2

\* publish --force: the audit row.
LEMMA ForceGateType ==
  ASSUME TypeOK, NEW o \in Operators, ForceGate(o)
  PROVE  TypeOK'
<1>1. /\ at[o] = "gate" /\ kind[o] = "force" /\ Goto(o, "pick")
      /\ forced' = forced \cup {target[o]}
      /\ UNCHANGED <<kind, target, to, base, percent, loaded, alone>>
      /\ UNCHANGED <<file, versions, deployment, imported, explained, deployed, bounds>>
  BY DEF ForceGate
<1>2. /\ FramesOK' /\ at'[o] = "pick" /\ kind'[o] = kind[o] /\ target'[o] = target[o]
      /\ to'[o] = to[o] /\ base'[o] = base[o] /\ loaded'[o] = loaded[o]
      /\ \A q \in Operators \ {o} : FrameSame(q)
  BY <1>1, GotoFrame DEF Labels
<1>3. target[o] \in DOMAIN versions
  BY <1>1, FrameFacts DEF ChoiceOK
<1>4. TablesOK
  BY DEF TypeOK
<1>5. TablesOK' /\ NamesVersions(deployment)'
  BY <1>1, <1>3, <1>4, FrameFacts DEF TablesOK, NamesVersions
<1>6. Grows
  BY <1>1, <1>4, FrameFacts DEF TablesOK, Grows
<1>7. "force" \in DOMAIN To
  BY DEF To
<1>8. FrameOK(o)'
  BY <1>1, <1>2, <1>3, <1>7, FrameFacts DEF FrameOK, KindOK, ChoiceOK, NamesVersions
<1>9. QED
  BY <1>2, <1>5, <1>6, <1>8, TypeFromParts

\* _transition: the UPDATE.
LEMMA WriteStatusType ==
  ASSUME TypeOK, NEW o \in Operators, WriteStatus(o)
  PROVE  TypeOK'
<1>1. /\ at[o] = "write" /\ Goto(o, "trail")
      /\ versions' = [versions EXCEPT ![target[o]].status = to[o]]
      /\ explained' = explained \ {target[o]}
      /\ UNCHANGED <<kind, target, to, base, percent, loaded, alone>>
      /\ UNCHANGED <<file, deployment, imported, forced, deployed, bounds>>
  BY DEF WriteStatus
<1>2. target[o] \in DOMAIN versions /\ target[o] # 0 /\ to[o] \in Statuses
  BY <1>1, FrameFacts DEF ChoiceOK
<1>3. PICK r \in VersionRows : versions' = [versions EXCEPT ![target[o]] = r]
  <2>1. versions[target[o]] \in VersionRows
    BY <1>2, ElementOfSeq, FrameFacts DEF TypeOK, TablesOK
  <2>2. [versions[target[o]] EXCEPT !.status = to[o]] \in VersionRows
    BY <1>2, <2>1 DEF VersionRows
  <2>3. QED
    BY <1>1, <2>2
<1>4. Grows /\ DOMAIN versions' = DOMAIN versions
  BY <1>2, <1>3, RowWritten
<1>5. TablesOK
  BY DEF TypeOK
<1>6. TablesOK' /\ NamesVersions(deployment)'
  BY <1>1, <1>4, <1>5, FrameFacts DEF TablesOK, NamesVersions, Grows
<1>7. /\ FramesOK' /\ at'[o] = "trail" /\ kind'[o] = kind[o] /\ target'[o] = target[o]
      /\ to'[o] = to[o] /\ base'[o] = base[o] /\ loaded'[o] = loaded[o]
      /\ \A q \in Operators \ {o} : FrameSame(q)
  BY <1>1, GotoFrame DEF Labels
<1>8. FrameOK(o)'
  BY <1>2, <1>4, <1>7, FrameFacts DEF FrameOK, KindOK, ChoiceOK, NamesVersions
<1>9. QED
  BY <1>4, <1>6, <1>7, <1>8, TypeFromParts

\* A write that leaves the versions alone, with the frames it leaves.
LEMMA SameVersionsType ==
  ASSUME TypeOK, NEW o \in Operators, UNCHANGED <<file, versions, imported, forced, bounds>>,
         explained' \subseteq DOMAIN versions, deployed' \subseteq DOMAIN versions,
         deployment' \in Deployments \cup {NoDeployment}, NamesVersions(deployment)',
         FramesOK', FrameOK(o)', \A q \in Operators \ {o} : FrameSame(q)
  PROVE  TypeOK'
<1>1. TablesOK
  BY DEF TypeOK
<1>2. TablesOK'
  BY <1>1 DEF TablesOK
<1>3. Grows
  BY <1>1, FrameFacts DEF TablesOK, Grows
<1>4. QED
  BY <1>2, <1>3, TypeFromParts

\* The two ways a writing step leaves its command: it ends, or it goes on.
LEMMA EndOrGoto ==
  ASSUME TypeOK, NEW o \in Operators, NEW l \in {"trail", "point", "base"},
         UNCHANGED versions,
         l = "point" => kind[o] \in {"publish", "force", "sync"} /\ target[o] # 0,
         l = "trail" => target[o] # 0,
         l = "base" => at[o] = "clear",
         at[o] # "insert",
         \/ End(o)
         \/ Goto(o, l) /\ UNCHANGED <<kind, target, to, base, percent, loaded, alone>>
  PROVE  FramesOK' /\ FrameOK(o)' /\ \A q \in Operators \ {o} : FrameSame(q)
<1>1. CASE End(o)
  BY <1>1, EndFrame
<1>2. CASE Goto(o, l) /\ UNCHANGED <<kind, target, to, base, percent, loaded, alone>>
  <2>1. l \in Labels
    BY DEF Labels
  <2>2. /\ FramesOK' /\ at'[o] = l /\ kind'[o] = kind[o] /\ target'[o] = target[o]
        /\ to'[o] = to[o] /\ base'[o] = base[o] /\ loaded'[o] = loaded[o]
        /\ \A q \in Operators \ {o} : FrameSame(q)
    BY <1>2, <2>1, GotoFrame
  <2>3. KindOK(o)'
    BY <2>2, FrameFacts DEF KindOK, DeployKinds
  <2>4. ChoiceOK(o)'
    BY <2>2, FrameFacts DEF ChoiceOK, KindOK
  <2>5. NamesVersions(base[o])'
    BY <2>2, FrameFacts DEF NamesVersions
  <2>6. QED
    BY <2>2, <2>3, <2>4, <2>5 DEF FrameOK
<1>3. QED
  BY <1>1, <1>2

\* The row in prompt_transitions.
LEMMA WriteTrailType ==
  ASSUME TypeOK, NEW o \in Operators, WriteTrail(o)
  PROVE  TypeOK'
<1>1. /\ at[o] = "trail"
      /\ explained' = IF Status(target[o]) = RowStatus(o)
                      THEN explained \cup {target[o]} ELSE explained
      /\ UNCHANGED <<file, versions, deployment, imported, forced, deployed, bounds>>
  BY DEF WriteTrail, TransitionRow
<1>2. target[o] \in DOMAIN versions /\ target[o] # 0
  BY <1>1, FrameFacts DEF ChoiceOK
<1>3. \/ End(o)
      \/ /\ Goto(o, "point") /\ ThenPoints(o)
         /\ UNCHANGED <<kind, target, to, base, percent, loaded, alone>>
  BY DEF WriteTrail
<1>4. ThenPoints(o) => kind[o] \in {"publish", "force", "sync"}
  BY DEF ThenPoints
<1>5. FramesOK' /\ FrameOK(o)' /\ \A q \in Operators \ {o} : FrameSame(q)
  BY <1>1, <1>2, <1>3, <1>4, EndOrGoto
<1>6. TablesOK
  BY DEF TypeOK
<1>7. explained' \subseteq DOMAIN versions
  BY <1>1, <1>2, <1>6 DEF TablesOK
<1>8. /\ UNCHANGED <<file, versions, imported, forced, bounds>>
      /\ deployed' \subseteq DOMAIN versions
      /\ deployment' \in Deployments \cup {NoDeployment}
      /\ NamesVersions(deployment)'
  BY <1>1, <1>6, FrameFacts DEF TablesOK, NamesVersions
<1>9. QED
  BY <1>5, <1>7, <1>8, SameVersionsType

\* set_deployment of versions that exist.
LEMMA SetDeploymentType ==
  ASSUME TypeOK, NEW o \in Operators, UNCHANGED <<file, versions, imported, forced, explained, bounds>>,
         NEW a \in DOMAIN versions, NEW c \in DOMAIN versions \cup {0},
         NEW share \in 0..100, SetDeployment(a, c, share),
         FramesOK', FrameOK(o)', \A q \in Operators \ {o} : FrameSame(q)
  PROVE  TypeOK'
<1>1. TablesOK
  BY DEF TypeOK
<1>2. a \in Nat /\ c \in Nat
  BY FrameFacts
<1>3. deployment' = [active |-> a, canary |-> c, percent |-> share]
      /\ deployed' = deployed \cup {a}
  BY DEF SetDeployment
<1>4. deployment' \in Deployments
  BY <1>2, <1>3 DEF Deployments
<1>5. NamesVersions(deployment)'
  BY <1>3 DEF NamesVersions
<1>6. explained' \subseteq DOMAIN versions /\ deployed' \subseteq DOMAIN versions
  BY <1>1, <1>3 DEF TablesOK
<1>7. QED
  BY <1>4, <1>5, <1>6, SameVersionsType

\* Deployer.rollback: the canary is stopped.
LEMMA ClearCanaryType ==
  ASSUME TypeOK, NEW o \in Operators, ClearCanary(o)
  PROVE  TypeOK'
<1>1. /\ at[o] = "clear" /\ SetDeployment(base[o].active, 0, 0) /\ Goto(o, "base")
      /\ UNCHANGED <<kind, target, to, base, percent, loaded, alone>>
      /\ UNCHANGED <<file, versions, imported, forced, explained, bounds>>
  BY DEF ClearCanary
<1>2. FramesOK' /\ FrameOK(o)' /\ \A q \in Operators \ {o} : FrameSame(q)
  BY <1>1, EndOrGoto
<1>3. base[o].active \in DOMAIN versions
  BY <1>1, FrameFacts DEF ChoiceOK, NamesVersions
<1>4. PICK a \in DOMAIN versions : SetDeployment(a, 0, 0)
  BY <1>1, <1>3
<1>5. QED
  BY <1>1, <1>2, <1>4, SetDeploymentType

\* set_deployment at the end of a command.
LEMMA PointType ==
  ASSUME TypeOK, NEW o \in Operators, Point(o)
  PROVE  TypeOK'
<1>1. /\ at[o] = "point"
      /\ IF kind[o] = "canary" THEN SetDeployment(NewActive(o), target[o], percent[o])
         ELSE SetDeployment(NewActive(o), 0, 0)
      /\ UNCHANGED <<file, versions, imported, forced, explained, bounds>>
  BY DEF Point
<1>2. \/ End(o)
      \/ /\ kind[o] \in {"rollback", "rollbackTo", "promote"} /\ Goto(o, "trail")
         /\ UNCHANGED <<kind, target, to, base, percent, loaded, alone>>
  BY DEF Point
<1>3. /\ target[o] \in DOMAIN versions \cup {0}
      /\ kind[o] # "stop" => target[o] # 0
      /\ kind[o] \in {"canary", "stop"} => base[o] # NoDeployment
  BY <1>1, FrameFacts DEF ChoiceOK
<1>4. FramesOK' /\ FrameOK(o)' /\ \A q \in Operators \ {o} : FrameSame(q)
  <2>1. CASE End(o)
    BY <2>1, EndFrame
  <2>2. CASE /\ kind[o] \in {"rollback", "rollbackTo", "promote"} /\ Goto(o, "trail")
             /\ UNCHANGED <<kind, target, to, base, percent, loaded, alone>>
    BY <1>1, <1>3, <2>2, EndOrGoto
  <2>3. QED
    BY <1>2, <2>1, <2>2
<1>5. NewActive(o) \in DOMAIN versions
  BY <1>3, FrameFacts DEF NewActive, NamesVersions
<1>6. PICK a \in DOMAIN versions, c \in DOMAIN versions \cup {0}, share \in 0..100 :
        SetDeployment(a, c, share)
  <2>1. percent[o] \in 0..100
    BY DEF TypeOK, FramesOK
  <2>2. 0 \in 0..100
    OBVIOUS
  <2>3. QED
    BY <1>1, <1>3, <1>5, <2>1, <2>2
<1>7. QED
  BY <1>1, <1>4, <1>6, SetDeploymentType

-----------------------------------------------------------------------------
(* The theorem *)

\* A step of a command that is running.
LEMMA StepType ==
  ASSUME TypeOK, NEW o \in Operators, Step(o)
  PROVE  TypeOK'
<1>1. ASSUME NothingToChoose(o) PROVE TypeOK'
  BY <1>1, RaisesType DEF NothingToChoose
<1>2. QED
  BY <1>1, ReadLatestType, InsertVersionType, ChooseVersionType, GateType,
     ForceGateType, PickType, WriteStatusType, WriteTrailType, ReadStateType,
     ClearCanaryType, ReadBaseType, ListPreviousType, CheckTargetType, PointType
  DEF Step

\* A process dies.
LEMMA CrashType ==
  ASSUME TypeOK, NEW o \in Operators, Crash(o)
  PROVE  TypeOK'
<1>1. /\ End(o) /\ UNCHANGED <<file, versions, deployment, history>>
      /\ bounds' = [bounds EXCEPT !.crashes = bounds.crashes + 1]
      /\ bounds.crashes < MaxCrashes
  BY DEF Crash
<1>2. TablesOK
  BY DEF TypeOK
<1>3. TablesOK'
  BY SMTT(30), <1>1, <1>2, RegistryAssumption DEF TablesOK, history
<1>4. Grows /\ NamesVersions(deployment)'
  BY <1>1, <1>2, FrameFacts DEF TablesOK, Grows, NamesVersions
<1>5. QED
  BY <1>1, <1>3, <1>4, EndFrame, TypeFromParts

\* The file is edited.
LEMMA EditFileType ==
  ASSUME TypeOK, EditFile
  PROVE  TypeOK'
<1>1. /\ file' \in Texts
      /\ bounds' = [bounds EXCEPT !.edits = bounds.edits + 1]
      /\ bounds.edits < MaxEdits
      /\ UNCHANGED <<versions, deployment, locals, history>>
  BY DEF EditFile
<1>2. TablesOK /\ FramesOK
  BY DEF TypeOK
<1>3. TablesOK'
  <2>1. bounds.edits + 1 \in 0..MaxEdits
    BY <1>1, <1>2, RegistryAssumption DEF TablesOK
  <2>2. bounds' \in [edits : 0..MaxEdits, evals : 0..MaxEvals, commands : 0..MaxCommands,
                     overlaps : 0..MaxOverlaps, crashes : 0..MaxCrashes]
    BY <1>1, <1>2, <2>1 DEF TablesOK
  <2>3. QED
    BY <1>1, <1>2, <2>2 DEF TablesOK, history
<1>4. FramesOK'
  BY <1>1, <1>2 DEF FramesOK, locals
<1>5. Grows /\ NamesVersions(deployment)'
  BY <1>1, <1>2, VersionNumbers DEF TablesOK, Grows, NamesVersions, TypeOK
<1>6. \A q \in Operators : FrameSame(q)
  BY <1>1 DEF locals, FrameSame
<1>7. \A q \in Operators : FrameOK(q)'
  BY <1>5, <1>6, OtherFrame
<1>8. QED
  BY <1>3, <1>4, <1>5, <1>7 DEF TypeOK, FrameOK

\* An evaluation run ends.
LEMMA EvalFinishedType ==
  ASSUME TypeOK, EvalFinished
  PROVE  TypeOK'
<1>1. /\ bounds' = [bounds EXCEPT !.evals = bounds.evals + 1]
      /\ bounds.evals < MaxEvals
      /\ UNCHANGED <<file, deployment, locals, history>>
  BY DEF EvalFinished
<1>2. PICK v \in DOMAIN versions, e \in Verdicts :
        versions' = [versions EXCEPT ![v].eval = e]
  BY DEF EvalFinished, Verdicts
<1>3. TablesOK /\ FramesOK
  BY DEF TypeOK
<1>4. PICK r \in VersionRows : versions' = [versions EXCEPT ![v] = r]
  <2>1. versions[v] \in VersionRows
    BY <1>3, VersionNumbers, ElementOfSeq DEF TablesOK
  <2>2. [versions[v] EXCEPT !.eval = e] \in VersionRows
    BY <2>1 DEF VersionRows
  <2>3. QED
    BY <1>2, <2>2
<1>5. Grows /\ DOMAIN versions' = DOMAIN versions
  BY <1>4, RowWritten
<1>6. TablesOK'
  <2>1. bounds.evals + 1 \in 0..MaxEvals
    BY <1>1, <1>3, RegistryAssumption DEF TablesOK
  <2>2. bounds' \in [edits : 0..MaxEdits, evals : 0..MaxEvals, commands : 0..MaxCommands,
                     overlaps : 0..MaxOverlaps, crashes : 0..MaxCrashes]
    BY <1>1, <1>3, <2>1 DEF TablesOK
  <2>3. QED
    BY <1>1, <1>3, <1>5, <2>2 DEF TablesOK, history, Grows
<1>7. FramesOK'
  BY <1>1, <1>3 DEF FramesOK, locals
<1>8. NamesVersions(deployment)'
  BY <1>1, <1>5 DEF NamesVersions, TypeOK
<1>9. \A q \in Operators : FrameSame(q)
  BY <1>1 DEF locals, FrameSame
<1>10. \A q \in Operators : FrameOK(q)'
  BY <1>5, <1>9, OtherFrame
<1>11. QED
  BY <1>6, <1>7, <1>8, <1>10 DEF TypeOK, FrameOK

\* The first state.
LEMMA InitType ==
  ASSUME Init
  PROVE  TypeOK
<1>1. PICK db \in Databases : versions = db.versions /\ deployment = db.deployment
  BY DEF Init
<1>2. /\ versions \in Seq(VersionRows)
      /\ deployment \in Deployments \cup {NoDeployment}
      /\ deployment # NoDeployment =>
           \A v \in {deployment.active, deployment.canary} \ {0} : v \in DOMAIN versions
      /\ deployment # NoDeployment => deployment.active # 0
  BY <1>1, RegistryAssumption
<1>3. NamesVersions(deployment)
  BY <1>2 DEF NamesVersions
<1>4. bounds \in [edits : 0..MaxEdits, evals : 0..MaxEvals, commands : 0..MaxCommands,
                  overlaps : 0..MaxOverlaps, crashes : 0..MaxCrashes]
  BY RegistryAssumption DEF Init
<1>5. TablesOK
  BY <1>2, <1>4 DEF Init, TablesOK
<1>6. FramesOK
  BY DEF Init, FramesOK, Labels, Kinds, Statuses
<1>7. \A o \in Operators : FrameOK(o)
  <2>1. "sync" \notin DOMAIN To
    BY DEF To
  <2>2. QED
    BY <2>1 DEF Init, FrameOK, KindOK, ChoiceOK, NamesVersions
<1>8. QED
  BY <1>3, <1>5, <1>6, <1>7 DEF TypeOK, FrameOK

\* Steps, stuttering included.
LEMMA NextType ==
  ASSUME TypeOK, [Next]_vars
  PROVE  TypeOK'
<1>1. CASE Next
  BY <1>1, StartType, StepType, CrashType, EditFileType, EvalFinishedType DEF Next
<1>2. CASE UNCHANGED vars
  <2>1. UNCHANGED <<file, versions, deployment, locals, history, bounds>>
    BY <1>2 DEF vars
  <2>2. TablesOK' /\ Grows /\ NamesVersions(deployment)'
    BY <2>1, TablesKept
  <2>3. FramesOK'
    BY <2>1 DEF TypeOK, FramesOK, locals
  <2>4. \A q \in Operators : FrameOK(q)'
    BY <2>1, <2>2, OtherFrame DEF locals, FrameSame
  <2>5. QED
    BY <2>2, <2>3, <2>4 DEF TypeOK, FrameOK
<1>3. QED
  BY <1>1, <1>2

\* The tables and the commands' frames are well formed, for any number of
\* operators, commands and crashes: no command ever acts on, and no
\* deployment row ever names, a version that does not exist.
THEOREM RegistryTypeOK == Spec => []TypeOK
<1>1. Init => TypeOK
  BY InitType
<1>2. TypeOK /\ [Next]_vars => TypeOK'
  BY NextType
<1>3. QED
  BY <1>1, <1>2, PTL DEF Spec

-----------------------------------------------------------------------------
(***************************************************************************)
(* Nothing is published or deployed without clearance, for any number of   *)
(* operators whose commands interleave and die anywhere.  The published    *)
(* versions alone are no inductive invariant: a command that has passed    *)
(* the gate publishes later, and a deployment row read earlier is written  *)
(* back later, so ClearedInv also speaks of what running commands know.    *)
(***************************************************************************)

\* The versions a deployment row can send a trace to are cleared.
PointsToCleared(d) ==
  d # NoDeployment => Cleared(d.active) /\ (d.canary # 0 => Cleared(d.canary))

\* A command about to publish or to deploy a version has it cleared.
CommandCleared(o) ==
  /\ at[o] = "pick" /\ kind[o] \in {"publish", "force"} => Cleared(target[o])
  /\ at[o] = "write" /\ to[o] \in Public => Cleared(target[o])
  /\ at[o] = "trail" /\ ThenPoints(o) => Cleared(target[o])
  /\ at[o] = "point" /\ kind[o] # "stop" => Cleared(target[o])

ClearedInv ==
  /\ PublishedWasCleared
  /\ PointsToCleared(deployment)
  /\ \A o \in Operators : PointsToCleared(base[o]) /\ CommandCleared(o)

\* Clearance is never taken back.
ClearanceGrows ==
  /\ DOMAIN versions \subseteq DOMAIN versions'
  /\ imported \subseteq imported' /\ forced \subseteq forced'
  /\ \A v \in DOMAIN versions :
       versions[v].eval \in {"pass", "failAfterPass"}
         => versions'[v].eval \in {"pass", "failAfterPass"}

-----------------------------------------------------------------------------
(* What a step of one command leaves to the others *)

\* A cleared version stays cleared.
LEMMA ClearedStays ==
  ASSUME ClearanceGrows, NEW v \in DOMAIN versions, Cleared(v)
  PROVE  Cleared(v)'
BY DEF ClearanceGrows, Cleared

\* The other commands keep their frames.
LEMMA OthersSame ==
  ASSUME TypeOK, NEW o \in Operators, Start(o) \/ Step(o) \/ Crash(o)
  PROVE  \A q \in Operators \ {o} : FrameSame(q)
<1>1. FramesOK
  BY DEF TypeOK
<1>2. ASSUME End(o) PROVE \A q \in Operators \ {o} : FrameSame(q)
  BY <1>2, EndFrame
<1>3. ASSUME NEW l, Reads(o, l),
             NEW d, target' = [target EXCEPT ![o] = d] \/ UNCHANGED target,
             NEW s, to' = [to EXCEPT ![o] = s] \/ UNCHANGED to,
             NEW b, base' = [base EXCEPT ![o] = b] \/ UNCHANGED base
      PROVE  \A q \in Operators \ {o} : FrameSame(q)
  BY <1>1, <1>3 DEF FramesOK, FrameSame, Reads, Goto
<1>4. CASE Start(o)
  BY <1>1, <1>4 DEF FramesOK, FrameSame, Start, Goto
<1>5. CASE Crash(o)
  BY <1>2, <1>5 DEF Crash
<1>6. CASE Step(o)
  <2>1. CASE ReadLatest(o)
    BY <1>2, <1>3, <2>1 DEF ReadLatest, Raises
  <2>2. CASE InsertVersion(o)
    BY <1>1, <1>2, <2>2 DEF InsertVersion, Raises, FramesOK, FrameSame, Goto
  <2>3. CASE ChooseVersion(o)
    BY <1>3, <2>3 DEF ChooseVersion
  <2>4. CASE NothingToChoose(o)
    BY <1>2, <2>4 DEF NothingToChoose, Raises
  <2>5. CASE Gate(o)
    BY <1>2, <1>3, <2>5 DEF Gate, Raises
  <2>6. CASE ForceGate(o)
    BY <1>1, <2>6 DEF ForceGate, FramesOK, FrameSame, Goto
  <2>7. CASE Pick(o)
    BY <1>2, <1>3, <2>7 DEF Pick, Raises
  <2>8. CASE WriteStatus(o)
    BY <1>1, <2>8 DEF WriteStatus, FramesOK, FrameSame, Goto
  <2>9. CASE WriteTrail(o)
    BY <1>1, <1>2, <2>9 DEF WriteTrail, FramesOK, FrameSame, Goto
  <2>10. CASE ReadState(o)
    BY <1>3, <2>10 DEF ReadState
  <2>11. CASE ClearCanary(o)
    BY <1>1, <2>11 DEF ClearCanary, FramesOK, FrameSame, Goto
  <2>12. CASE ReadBase(o)
    BY <1>2, <1>3, <2>12 DEF ReadBase, Raises
  <2>13. CASE ListPrevious(o)
    BY <1>2, <1>3, <2>13 DEF ListPrevious, Raises
  <2>14. CASE CheckTarget(o)
    BY <1>2, <1>3, <2>14 DEF CheckTarget, Raises
  <2>15. CASE Point(o)
    BY <1>1, <1>2, <2>15 DEF Point, FramesOK, FrameSame, Goto
  <2>16. QED
    BY <1>6, <2>1, <2>2, <2>3, <2>4, <2>5, <2>6, <2>7, <2>8, <2>9, <2>10, <2>11,
       <2>12, <2>13, <2>14, <2>15 DEF Step
<1>7. QED
  BY <1>4, <1>5, <1>6

\* A command that does not move keeps what it knows cleared.
LEMMA OtherCleared ==
  ASSUME TypeOK, ClearedInv, ClearanceGrows, NEW q \in Operators, FrameSame(q)
  PROVE  PointsToCleared(base[q])' /\ CommandCleared(q)'
<1>1. /\ PointsToCleared(base[q]) /\ CommandCleared(q)
      /\ NamesVersions(base[q]) /\ ChoiceOK(q) /\ KindOK(q)
  BY DEF ClearedInv, TypeOK
<1>2. PointsToCleared(base[q])'
  BY <1>1 DEF PointsToCleared, NamesVersions, FrameSame, ClearanceGrows, Cleared
<1>3. at[q] \in {"pick", "write", "trail", "point"} =>
        target[q] \in DOMAIN versions \/ target[q] = 0
  BY <1>1 DEF ChoiceOK
<1>4. /\ at[q] = "pick" /\ kind[q] \in {"publish", "force"} => target[q] # 0
      /\ at[q] \in {"write", "trail"} => target[q] # 0
      /\ at[q] = "point" /\ kind[q] # "stop" => target[q] # 0
  BY <1>1 DEF ChoiceOK
<1>5. target'[q] = target[q] /\ at'[q] = at[q] /\ kind'[q] = kind[q] /\ to'[q] = to[q]
  BY DEF FrameSame
<1>6. CommandCleared(q)'
  BY <1>1, <1>3, <1>4, <1>5 DEF CommandCleared, ThenPoints, ClearanceGrows, Cleared
<1>7. QED
  BY <1>2, <1>6

\* ClearedInv after a step of o, from what the step does to o and the tables.
LEMMA ClearedFromParts ==
  ASSUME TypeOK, ClearedInv, NEW o \in Operators,
         Start(o) \/ Step(o) \/ Crash(o), ClearanceGrows,
         PublishedWasCleared', PointsToCleared(deployment)',
         PointsToCleared(base[o])', CommandCleared(o)'
  PROVE  ClearedInv'
<1>1. ASSUME NEW q \in Operators PROVE PointsToCleared(base[q])' /\ CommandCleared(q)'
  <2>1. CASE q = o
    BY <2>1
  <2>2. CASE q # o
    BY <2>2, OthersSame, OtherCleared
  <2>3. QED
    BY <2>1, <2>2
<1>2. QED
  BY <1>1 DEF ClearedInv

\* Tables that do not change stay cleared.
LEMMA TablesCleared ==
  ASSUME ClearedInv, UNCHANGED <<versions, deployment, imported, forced>>
  PROVE  ClearanceGrows /\ PublishedWasCleared' /\ PointsToCleared(deployment)'
<1>1. ClearanceGrows
  BY DEF ClearanceGrows
<1>2. PublishedWasCleared'
  BY DEF ClearedInv, PublishedWasCleared, Cleared, Status
<1>3. PointsToCleared(deployment)'
  BY DEF ClearedInv, PointsToCleared, Cleared
<1>4. QED
  BY <1>1, <1>2, <1>3

\* A command that has ended knows nothing.
LEMMA EndCleared ==
  ASSUME TypeOK, NEW o \in Operators, End(o)
  PROVE  PointsToCleared(base[o])' /\ CommandCleared(o)'
<1>1. at'[o] = "idle" /\ base'[o] = NoDeployment
  BY FrameFacts DEF End, Goto
<1>2. QED
  BY <1>1 DEF PointsToCleared, CommandCleared

\* A command that raises has changed nothing.
LEMMA RaisesCleared ==
  ASSUME TypeOK, ClearedInv, NEW o \in Operators, Step(o), Raises(o)
  PROVE  ClearedInv'
<1>1. End(o) /\ UNCHANGED <<versions, deployment, imported, forced>>
  BY DEF Raises, history
<1>2. QED
  BY <1>1, EndCleared, TablesCleared, ClearedFromParts

-----------------------------------------------------------------------------
(* One lemma per kind of action *)

\* Reading actions whose next label claims nothing about the target.
LEMMA PlainReadCleared ==
  ASSUME TypeOK, ClearedInv, NEW o \in Operators, Step(o),
         NEW l \in {"insert", "gate", "check", "list", "clear", "base"}, Reads(o, l),
         base'[o] = base[o] \/ base'[o] = deployment
  PROVE  ClearedInv'
<1>1. UNCHANGED <<versions, deployment, imported, forced>>
  BY DEF Reads, history
<1>2. ClearanceGrows /\ PublishedWasCleared' /\ PointsToCleared(deployment)'
  BY <1>1, TablesCleared
<1>3. PointsToCleared(base[o])'
  BY <1>1 DEF ClearedInv, PointsToCleared, Cleared
<1>4. at'[o] = l
  BY ReadsFrame
<1>5. CommandCleared(o)'
  BY <1>4 DEF CommandCleared
<1>6. QED
  BY <1>2, <1>3, <1>5, ClearedFromParts

\* The gate, or its bypass, clears the version before it is published.
LEMMA GateCleared ==
  ASSUME TypeOK, ClearedInv, NEW o \in Operators, Gate(o) \/ ForceGate(o)
  PROVE  ClearedInv'
<1>1. Step(o)
  BY DEF Step
<1>2. CASE Gate(o) /\ ~GatePasses(target[o])
  BY <1>1, <1>2, RaisesCleared DEF Gate
<1>3. CASE ForceGate(o) \/ (Gate(o) /\ GatePasses(target[o]))
  <2>1. /\ at'[o] = "pick" /\ target'[o] = target[o] /\ base'[o] = base[o]
        /\ UNCHANGED <<versions, deployment, imported>> /\ forced \subseteq forced'
    BY <1>3, FrameFacts DEF Gate, ForceGate, Reads, Goto, history
  <2>2. Cleared(target[o])'
    BY <1>3, <2>1 DEF Gate, ForceGate, GatePasses, Cleared
  <2>3. ClearanceGrows
    BY <2>1 DEF ClearanceGrows
  <2>4. PublishedWasCleared'
    BY <2>1 DEF ClearedInv, PublishedWasCleared, Cleared, Status
  <2>5. PointsToCleared(deployment)' /\ PointsToCleared(base[o])'
    BY <2>1 DEF ClearedInv, PointsToCleared, Cleared
  <2>6. CommandCleared(o)'
    BY <2>1, <2>2 DEF CommandCleared
  <2>7. QED
    BY <1>1, <2>3, <2>4, <2>5, <2>6, ClearedFromParts
<1>4. QED
  BY <1>2, <1>3

\* The version a transition may publish, deprecate or archive is cleared.
LEMMA PickCleared ==
  ASSUME TypeOK, ClearedInv, NEW o \in Operators, Pick(o)
  PROVE  ClearedInv'
<1>1. Step(o)
  BY DEF Step
<1>2. PICK v \in DOMAIN versions :
        /\ IF target[o] = 0 THEN IsNewestIn(v, From[kind[o]]) ELSE v = target[o]
        /\ IF Allowed(o, v)
           THEN /\ target' = [target EXCEPT ![o] = v]
                /\ UNCHANGED <<to, base>>
                /\ Reads(o, "write")
           ELSE Raises(o)
  BY DEF Pick
<1>3. CASE ~Allowed(o, v)
  BY <1>1, <1>2, <1>3, RaisesCleared
<1>4. CASE Allowed(o, v)
  <2>1. /\ at[o] = "pick" /\ kind[o] \in DOMAIN To /\ to[o] = To[kind[o]]
        /\ kind[o] \in {"publish", "force"} => target[o] # 0
    BY FrameFacts DEF Pick, KindOK, ChoiceOK
  <2>2. /\ at'[o] = "write" /\ target'[o] = v /\ to'[o] = to[o] /\ base'[o] = base[o]
        /\ UNCHANGED <<versions, deployment, imported, forced>>
    BY <1>2, <1>4, FrameFacts DEF Reads, Goto, history
  <2>3. to[o] \in Public => Cleared(v)
    <3>1. CASE kind[o] \in {"publish", "force"}
      <4>1. v = target[o]
        BY <1>2, <2>1, <3>1
      <4>2. Cleared(target[o])
        BY <2>1, <3>1 DEF ClearedInv, CommandCleared
      <4>3. QED
        BY <4>1, <4>2
    <3>2. CASE kind[o] \in {"deprecate", "archive"}
      <4>1. Status(v) \in Public
        BY <1>4, <2>1, <3>2 DEF Allowed, ALLOWED_TRANSITIONS, To, Public
      <4>2. QED
        BY <4>1 DEF ClearedInv, PublishedWasCleared
    <3>3. CASE kind[o] \in {"submit", "approve", "reject"}
      BY <2>1, <3>3 DEF To, Public
    <3>4. QED
      BY <2>1, <3>1, <3>2, <3>3 DEF To
  <2>4. Cleared(v) => Cleared(target[o])'
    BY <2>2 DEF Cleared
  <2>5. CommandCleared(o)'
    BY <2>2, <2>3, <2>4 DEF CommandCleared
  <2>6. ClearanceGrows /\ PublishedWasCleared' /\ PointsToCleared(deployment)'
    BY <2>2, TablesCleared
  <2>7. PointsToCleared(base[o])'
    BY <2>2 DEF ClearedInv, PointsToCleared, Cleared
  <2>8. QED
    BY <1>1, <2>5, <2>6, <2>7, ClearedFromParts
<1>5. QED
  BY <1>3, <1>4

\* The UPDATE publishes only what its command knows to be cleared.
LEMMA WriteStatusCleared ==
  ASSUME TypeOK, ClearedInv, NEW o \in Operators, WriteStatus(o)
  PROVE  ClearedInv'
<1>1. Step(o)
  BY DEF Step
<1>2. /\ at[o] = "write" /\ at'[o] = "trail" /\ target'[o] = target[o]
      /\ to'[o] = to[o] /\ kind'[o] = kind[o] /\ base'[o] = base[o]
      /\ versions' = [versions EXCEPT ![target[o]].status = to[o]]
      /\ UNCHANGED <<deployment, imported, forced>>
  BY FrameFacts DEF WriteStatus, Goto
<1>3. to[o] \in Public => Cleared(target[o])
  BY <1>2 DEF ClearedInv, CommandCleared
<1>4. target[o] \in DOMAIN versions
  BY <1>2, FrameFacts DEF ChoiceOK
<1>5. \A v \in DOMAIN versions : versions[v] \in VersionRows
  BY VersionNumbers, ElementOfSeq DEF TypeOK, TablesOK
<1>6. /\ DOMAIN versions' = DOMAIN versions
      /\ \A v \in DOMAIN versions : versions'[v].eval = versions[v].eval
      /\ \A v \in DOMAIN versions \ {target[o]} : versions'[v].status = versions[v].status
      /\ versions'[target[o]].status = to[o]
  BY <1>2, <1>4, <1>5 DEF VersionRows
<1>7. ClearanceGrows
  BY <1>2, <1>6 DEF ClearanceGrows
<1>8. PublishedWasCleared'
  BY <1>2, <1>3, <1>6 DEF ClearedInv, PublishedWasCleared, Cleared, Status
<1>9. PointsToCleared(deployment)' /\ PointsToCleared(base[o])'
  <2>1. NamesVersions(deployment) /\ NamesVersions(base[o])
    BY FrameFacts
  <2>2. QED
    BY <1>2, <1>6, <2>1 DEF ClearedInv, PointsToCleared, Cleared, NamesVersions
<1>10. ThenPoints(o) => to[o] \in Public
  BY <1>2, FrameFacts DEF ThenPoints, KindOK, To, Public
<1>11. CommandCleared(o)'
  BY <1>2, <1>3, <1>4, <1>6, <1>10 DEF CommandCleared, ThenPoints, Cleared
<1>12. QED
  BY <1>1, <1>7, <1>8, <1>9, <1>11, ClearedFromParts

\* A version registered as published is on the record as that.
LEMMA InsertVersionCleared ==
  ASSUME TypeOK, ClearedInv, NEW o \in Operators, InsertVersion(o)
  PROVE  ClearedInv'
<1>1. Step(o)
  BY DEF Step
<1>2. CASE target[o] \in DOMAIN versions
  BY <1>1, <1>2, RaisesCleared DEF InsertVersion
<1>3. CASE target[o] \notin DOMAIN versions
  <2>1. /\ at[o] = "insert" /\ at'[o] = "trail" /\ target'[o] = target[o]
        /\ to'[o] = to[o] /\ kind'[o] = kind[o] /\ base'[o] = base[o]
        /\ versions' = Append(versions, NewVersionRow(o))
        /\ imported' = IF to[o] \in Public THEN imported \cup {target[o]} ELSE imported
        /\ UNCHANGED <<deployment, forced>>
    BY <1>3, FrameFacts DEF InsertVersion, Goto
  <2>2. kind[o] = "sync" /\ target[o] \in 1..(Len(versions) + 1)
    BY <2>1, FrameFacts DEF KindOK, ChoiceOK
  <2>3. DOMAIN versions = 1..Len(versions) /\ Len(versions) \in Nat
    BY FrameFacts
  <2>4. target[o] = Len(versions) + 1
    BY <1>3, <2>2, <2>3
  <2>5. /\ DOMAIN versions' = DOMAIN versions \cup {target[o]}
        /\ \A v \in DOMAIN versions : versions'[v] = versions[v]
        /\ versions'[target[o]].status = to[o]
    BY <2>1, <2>3, <2>4 DEF TypeOK, TablesOK, NewVersionRow
  <2>6. ClearanceGrows
    BY <2>1, <2>5 DEF ClearanceGrows
  <2>7. PublishedWasCleared'
    BY <2>1, <2>5 DEF ClearedInv, PublishedWasCleared, Cleared, Status
  <2>8. PointsToCleared(deployment)' /\ PointsToCleared(base[o])'
    <3>1. NamesVersions(deployment) /\ NamesVersions(base[o])
      BY FrameFacts
    <3>2. QED
      BY <2>1, <2>5, <3>1 DEF ClearedInv, PointsToCleared, Cleared, NamesVersions
  <2>9. ThenPoints(o)' => to[o] \in Public
    BY <2>1, <2>2 DEF ThenPoints, Public
  <2>10. CommandCleared(o)'
    BY <2>1, <2>9 DEF CommandCleared, Cleared
  <2>11. QED
    BY <1>1, <2>6, <2>7, <2>8, <2>10, ClearedFromParts
<1>4. QED
  BY <1>2, <1>3

\* The row in prompt_transitions changes nothing that matters here.
LEMMA WriteTrailCleared ==
  ASSUME TypeOK, ClearedInv, NEW o \in Operators, WriteTrail(o)
  PROVE  ClearedInv'
<1>1. Step(o) /\ at[o] = "trail"
      /\ UNCHANGED <<versions, deployment, imported, forced>>
  BY DEF Step, WriteTrail
<1>2. ClearanceGrows /\ PublishedWasCleared' /\ PointsToCleared(deployment)'
  BY <1>1, TablesCleared
<1>3. CASE End(o)
  BY <1>1, <1>2, <1>3, EndCleared, ClearedFromParts
<1>4. CASE ~End(o)
  <2>1. /\ ThenPoints(o) /\ at'[o] = "point" /\ UNCHANGED <<target, base>>
    BY <1>4, FrameFacts DEF WriteTrail, Goto
  <2>2. Cleared(target[o])
    BY <1>1, <2>1 DEF ClearedInv, CommandCleared
  <2>3. CommandCleared(o)'
    BY <1>1, <2>1, <2>2 DEF CommandCleared, Cleared
  <2>4. PointsToCleared(base[o])'
    BY <1>1, <2>1 DEF ClearedInv, PointsToCleared, Cleared
  <2>5. QED
    BY <1>1, <1>2, <2>3, <2>4, ClearedFromParts
<1>5. QED
  BY <1>3, <1>4

\* rollback and canary deploy a version that is published when they look.
LEMMA CheckTargetCleared ==
  ASSUME TypeOK, ClearedInv, NEW o \in Operators, CheckTarget(o)
  PROVE  ClearedInv'
<1>1. Step(o) /\ at[o] = "check"
  BY DEF Step, CheckTarget
<1>2. CASE ~Deployable(target[o])
  BY <1>1, <1>2, RaisesCleared DEF CheckTarget
<1>3. CASE Deployable(target[o])
  <2>1. /\ at'[o] = "point" /\ UNCHANGED <<target, base>>
        /\ UNCHANGED <<versions, deployment, imported, forced>>
    BY <1>3, FrameFacts DEF CheckTarget, Reads, Goto, history
  <2>2. target[o] \in DOMAIN versions
    BY <1>1, FrameFacts DEF ChoiceOK
  <2>3. Cleared(target[o])
    BY <1>3, <2>2 DEF ClearedInv, PublishedWasCleared, Deployable, Public
  <2>4. CommandCleared(o)'
    BY <2>1, <2>3 DEF CommandCleared, Cleared
  <2>5. PointsToCleared(base[o])'
    BY <2>1 DEF ClearedInv, PointsToCleared, Cleared
  <2>6. QED
    BY <1>1, <2>1, <2>4, <2>5, TablesCleared, ClearedFromParts
<1>4. QED
  BY <1>2, <1>3

\* set_deployment writes versions its command knows to be cleared: the
\* chosen one, or those of the row it read.
LEMMA PointCleared ==
  ASSUME TypeOK, ClearedInv, NEW o \in Operators, Point(o) \/ ClearCanary(o)
  PROVE  ClearedInv'
<1>1. Step(o) /\ UNCHANGED <<versions, imported, forced>>
  BY DEF Step, Point, ClearCanary
<1>2. ClearanceGrows /\ PublishedWasCleared'
  BY <1>1 DEF ClearanceGrows, ClearedInv, PublishedWasCleared, Cleared, Status
<1>3. CASE ClearCanary(o)
  <2>1. /\ at[o] = "clear" /\ at'[o] = "base" /\ UNCHANGED base
        /\ deployment' = [active |-> base[o].active, canary |-> 0, percent |-> 0]
    BY <1>3, FrameFacts DEF ClearCanary, Goto, SetDeployment
  <2>2. base[o] # NoDeployment
    BY <2>1, FrameFacts DEF ChoiceOK
  <2>3. PointsToCleared(base[o])
    BY DEF ClearedInv
  <2>4. PointsToCleared(deployment)' /\ PointsToCleared(base[o])'
    BY <1>1, <2>1, <2>2, <2>3 DEF PointsToCleared, Cleared
  <2>5. CommandCleared(o)'
    BY <2>1 DEF CommandCleared
  <2>6. QED
    BY <1>1, <1>2, <2>4, <2>5, ClearedFromParts
<1>4. CASE Point(o)
  <2>1. /\ at[o] = "point"
        /\ kind[o] = "canary" =>
             deployment' = [active |-> NewActive(o), canary |-> target[o],
                            percent |-> percent[o]]
        /\ kind[o] # "canary" =>
             deployment' = [active |-> NewActive(o), canary |-> 0, percent |-> 0]
    BY <1>4 DEF Point, SetDeployment
  <2>2. kind[o] # "stop" => Cleared(target[o])
    BY <2>1 DEF ClearedInv, CommandCleared
  <2>3. kind[o] \in {"canary", "stop"} => Cleared(base[o].active)
    BY <2>1, FrameFacts DEF ClearedInv, PointsToCleared, ChoiceOK
  <2>4. Cleared(NewActive(o))
    BY <2>2, <2>3 DEF NewActive
  <2>5. PointsToCleared(deployment)'
    BY <1>1, <2>1, <2>2, <2>4 DEF PointsToCleared, Cleared
  <2>6. PointsToCleared(base[o])' /\ CommandCleared(o)'
    <3>1. CASE End(o)
      BY <3>1, EndCleared
    <3>2. CASE ~End(o)
      <4>1. /\ kind[o] \in {"rollback", "rollbackTo", "promote"}
            /\ at'[o] = "trail" /\ UNCHANGED <<kind, base>>
        BY <1>4, <3>2, FrameFacts DEF Point, Goto
      <4>2. CommandCleared(o)'
        BY <4>1 DEF CommandCleared, ThenPoints
      <4>3. PointsToCleared(base[o])'
        BY <1>1, <4>1 DEF ClearedInv, PointsToCleared, Cleared
      <4>4. QED
        BY <4>2, <4>3
    <3>3. QED
      BY <3>1, <3>2
  <2>7. QED
    BY <1>1, <1>2, <2>5, <2>6, ClearedFromParts
<1>5. QED
  BY <1>3, <1>4

\* The first step of publish is not yet at the label after the gate.
LEMMA StartCleared ==
  ASSUME TypeOK, ClearedInv, NEW o \in Operators, Start(o)
  PROVE  ClearedInv'
<1>1. UNCHANGED <<versions, deployment, imported, forced, base>>
  BY DEF Start, history
<1>2. PICK k \in Kinds : kind'[o] = k /\ \E l \in FirstLabels(k) : at'[o] = l
  BY FrameFacts DEF Start, Goto
<1>3. PICK l \in FirstLabels(k) : at'[o] = l
  BY <1>2
<1>4. /\ l \notin {"write", "trail", "point"}
      /\ l = "pick" => k \notin {"publish", "force"}
  BY <1>3 DEF FirstLabels
<1>5. CommandCleared(o)'
  BY <1>2, <1>3, <1>4 DEF CommandCleared
<1>6. PointsToCleared(base[o])'
  BY <1>1 DEF ClearedInv, PointsToCleared, Cleared
<1>7. QED
  BY <1>1, <1>5, <1>6, TablesCleared, ClearedFromParts

-----------------------------------------------------------------------------
(* The theorems *)

\* A step of a command that is running.
LEMMA StepCleared ==
  ASSUME TypeOK, ClearedInv, NEW o \in Operators, Step(o)
  PROVE  ClearedInv'
<1>1. ASSUME Raises(o) PROVE ClearedInv'
  BY <1>1, RaisesCleared
<1>2. ASSUME NEW l \in {"insert", "gate", "check", "list", "clear", "base"}, Reads(o, l),
             base'[o] = base[o] \/ base'[o] = deployment
      PROVE  ClearedInv'
  BY <1>2, PlainReadCleared
<1>3. CASE ReadLatest(o) \/ ChooseVersion(o) \/ NothingToChoose(o) \/ ListPrevious(o)
  BY <1>1, <1>2, <1>3 DEF ReadLatest, ChooseVersion, NothingToChoose, ListPrevious
<1>4. CASE ReadState(o)
  <2>1. base'[o] = deployment
    BY <1>4, FrameFacts DEF ReadState
  <2>2. QED
    BY <1>2, <1>4, <2>1 DEF ReadState
<1>5. CASE ReadBase(o)
  <2>1. CASE Raises(o)
    BY <1>1, <2>1
  <2>2. CASE ~Raises(o)
    <3>1. base'[o] = deployment
      BY <1>5, <2>2, FrameFacts DEF ReadBase
    <3>2. CASE kind[o] = "stop"
      <4>1. /\ at'[o] = "point" /\ kind'[o] = "stop"
            /\ UNCHANGED <<versions, deployment, imported, forced>>
        BY <1>5, <2>2, <3>2, FrameFacts DEF ReadBase, Reads, Goto, history
      <4>2. CommandCleared(o)'
        BY <4>1 DEF CommandCleared
      <4>3. PointsToCleared(base[o])'
        BY <3>1, <4>1 DEF ClearedInv, PointsToCleared, Cleared
      <4>4. QED
        BY <4>1, <4>2, <4>3, TablesCleared, ClearedFromParts
    <3>3. CASE kind[o] # "stop"
      <4>1. PICK l \in {"list", "check"} : Reads(o, l)
        BY <1>5, <2>2, <3>3 DEF ReadBase
      <4>2. QED
        BY <1>2, <3>1, <4>1
    <3>4. QED
      BY <3>2, <3>3
  <2>3. QED
    BY <2>1, <2>2
<1>6. QED
  BY <1>3, <1>4, <1>5, GateCleared, PickCleared, WriteStatusCleared,
     InsertVersionCleared, WriteTrailCleared, CheckTargetCleared, PointCleared
  DEF Step

\* An evaluation never takes clearance back: a version that passed once
\* has passed.
LEMMA EvalFinishedCleared ==
  ASSUME TypeOK, ClearedInv, EvalFinished
  PROVE  ClearedInv'
<1>1. /\ UNCHANGED <<deployment, imported, forced>>
      /\ UNCHANGED locals
  BY DEF EvalFinished, history
<1>2. PICK v \in DOMAIN versions, ok \in BOOLEAN :
        versions' = [versions EXCEPT ![v].eval =
                       IF ok THEN "pass"
                       ELSE IF @ \in {"pass", "failAfterPass"} THEN "failAfterPass"
                       ELSE "fail"]
  BY DEF EvalFinished
<1>3. \A w \in DOMAIN versions : versions[w] \in VersionRows
  BY VersionNumbers, ElementOfSeq DEF TypeOK, TablesOK
<1>4. /\ DOMAIN versions' = DOMAIN versions
      /\ \A w \in DOMAIN versions : versions'[w].status = versions[w].status
      /\ \A w \in DOMAIN versions :
           versions[w].eval \in {"pass", "failAfterPass"}
             => versions'[w].eval \in {"pass", "failAfterPass"}
  BY <1>2, <1>3 DEF VersionRows
<1>5. ClearanceGrows
  BY <1>1, <1>4 DEF ClearanceGrows
<1>6. PublishedWasCleared'
  BY <1>1, <1>4 DEF ClearedInv, PublishedWasCleared, Cleared, Status
<1>7. PointsToCleared(deployment)'
  BY <1>1, <1>4 DEF ClearedInv, PointsToCleared, Cleared, TypeOK, NamesVersions
<1>8. \A q \in Operators : PointsToCleared(base[q])' /\ CommandCleared(q)'
  BY <1>1, <1>5, OtherCleared DEF locals, FrameSame
<1>9. QED
  BY <1>6, <1>7, <1>8 DEF ClearedInv

\* Steps, stuttering included.
LEMMA NextCleared ==
  ASSUME TypeOK, ClearedInv, [Next]_vars
  PROVE  ClearedInv'
<1>1. ASSUME NEW o \in Operators, Crash(o) PROVE ClearedInv'
  <2>1. End(o) /\ UNCHANGED <<versions, deployment, imported, forced>>
    BY <1>1 DEF Crash, history
  <2>2. QED
    BY <1>1, <2>1, EndCleared, TablesCleared, ClearedFromParts
<1>2. CASE EditFile \/ UNCHANGED vars
  <2>1. UNCHANGED <<versions, deployment, imported, forced, locals>>
    BY <1>2 DEF EditFile, vars, history
  <2>2. \A q \in Operators : PointsToCleared(base[q])' /\ CommandCleared(q)'
    BY <2>1, TablesCleared, OtherCleared DEF locals, FrameSame
  <2>3. QED
    BY <2>1, <2>2, TablesCleared DEF ClearedInv
<1>3. QED
  BY <1>1, <1>2, StartCleared, StepCleared, EvalFinishedCleared DEF Next

\* What is published or deployed at first counts as registered like that.
LEMMA InitCleared ==
  ASSUME Init
  PROVE  ClearedInv
<1>1. PICK db \in Databases : versions = db.versions /\ deployment = db.deployment
  BY DEF Init
<1>2. deployment # NoDeployment =>
        \A v \in {deployment.active, deployment.canary} \ {0} :
          v \in DOMAIN versions /\ versions[v].status \in Public
  BY <1>1, RegistryAssumption
<1>3. deployment # NoDeployment => deployment.active # 0
  BY <1>1, RegistryAssumption
<1>4. imported = {v \in DOMAIN versions : versions[v].status \in Public}
  BY DEF Init
<1>5. PublishedWasCleared
  BY <1>4 DEF PublishedWasCleared, Cleared, Status
<1>6. PointsToCleared(deployment)
  BY <1>2, <1>3, <1>4 DEF PointsToCleared, Cleared
<1>7. \A o \in Operators : PointsToCleared(base[o]) /\ CommandCleared(o)
  BY DEF Init, PointsToCleared, CommandCleared
<1>8. QED
  BY <1>5, <1>6, <1>7 DEF ClearedInv

\* The strengthened invariant: whatever running commands are about to
\* publish, deploy or restore has been cleared.
THEOREM RegistryCleared == Spec => []ClearedInv
<1>1. Init => ClearedInv
  BY InitCleared
<1>2. TypeOK /\ ClearedInv /\ [Next]_vars => ClearedInv'
  BY NextCleared
<1>3. QED
  BY <1>1, <1>2, RegistryTypeOK, PTL DEF Spec

\* docs/02 par. 5.2: a version that is or was published has passed an
\* evaluation of its own, was forced on record, or was registered like that.
THEOREM RegistryPublishedWasCleared == Spec => []PublishedWasCleared
<1>1. ClearedInv => PublishedWasCleared
  BY DEF ClearedInv
<1>2. QED
  BY <1>1, RegistryCleared, PTL

\* Whatever bucket a trace falls into, it finds a version as soon as one is
\* registered, the version it gets after a deployment is cleared, and every
\* alarm of the policy about production has a known cause.
THEOREM RegistryDeployedWasCleared == Spec => []DeployedWasCleared
<1>1. TypeOK /\ ClearedInv => DeployedWasCleared
  <2> SUFFICES ASSUME TypeOK, ClearedInv PROVE DeployedWasCleared
    OBVIOUS
  <2>1. DOMAIN versions = 1..Len(versions) /\ Len(versions) \in Nat
    BY FrameFacts
  <2>2. deployment # NoDeployment =>
          /\ deployment.active \in DOMAIN versions /\ Cleared(deployment.active)
          /\ deployment.canary # 0 =>
               deployment.canary \in DOMAIN versions /\ Cleared(deployment.canary)
    BY DEF TypeOK, NamesVersions, ClearedInv, PointsToCleared
  <2>3. ASSUME NEW bucket \in Buckets, deployment # NoDeployment
        PROVE  Resolved(bucket) # 0 /\ Cleared(Resolved(bucket))
    <3>1. ChosenVersion(bucket, deployment) \in {deployment.active, deployment.canary} \ {0}
      BY <2>1, <2>2, <2>3 DEF ChosenVersion
    <3>2. Resolved(bucket) = ChosenVersion(bucket, deployment)
      BY <2>2, <2>3, <3>1 DEF Resolved
    <3>3. QED
      BY <2>2, <2>3, <3>1, <3>2
  <2>4. ASSUME NEW bucket \in Buckets, deployment = NoDeployment, versions # <<>>
        PROVE  Resolved(bucket) # 0
    <3>1. Len(versions) # 0
      BY <2>4, EmptySeq DEF TypeOK, TablesOK
    <3>2. QED
      BY <2>1, <2>4, <3>1 DEF Resolved
  <2>5. AlarmsHaveCause
    BY <2>2 DEF AlarmsHaveCause, EvalBeforePublishAlarm, Cleared
  <2>6. QED
    BY <2>3, <2>4, <2>5 DEF DeployedWasCleared
<1>2. QED
  BY <1>1, RegistryTypeOK, RegistryCleared, PTL

\* As many of the hundred buckets go to the canary as its percentage says.
THEOREM RegistryCanaryShare == Spec => []CanaryShare
<1>1. TypeOK => CanaryShare
  <2>1. SUFFICES ASSUME TypeOK, deployment # NoDeployment,
                        deployment.canary \notin {0, deployment.active}
                 PROVE  Cardinality({bucket \in Buckets :
                                       Resolved(bucket) = deployment.canary})
                          = deployment.percent
    BY DEF CanaryShare
  <2> DEFINE share == deployment.percent
  <2>2. share \in 0..100
    BY <2>1 DEF TypeOK, TablesOK, Deployments
  <2>3. ASSUME NEW bucket \in Buckets
        PROVE  Resolved(bucket) = deployment.canary <=> bucket < deployment.percent
    BY <2>1, <2>2, <2>3
       DEF Resolved, ChosenVersion, InCanaryShare, Buckets, CANARY_BUCKETS,
           TypeOK, NamesVersions
  <2> HIDE DEF share
  <2>4. share = deployment.percent
    BY DEF share
  <2>5. {bucket \in Buckets : Resolved(bucket) = deployment.canary}
        = {bucket \in Buckets : bucket < share}
    BY <2>3, <2>4
  <2>6. {bucket \in Buckets : bucket < share} = 0..(share - 1)
    BY <2>2 DEF Buckets, CANARY_BUCKETS
  <2>7. Cardinality(0..(share - 1)) = share
    <3>1. /\ 0 \in Int /\ share - 1 \in Int
          /\ (IF 0 > share - 1 THEN 0 ELSE (share - 1) - 0 + 1) = share
      BY <2>2
    <3>2. Cardinality(0..(share - 1)) = IF 0 > share - 1 THEN 0 ELSE (share - 1) - 0 + 1
      BY <3>1, FS_Interval
    <3>3. QED
      BY <3>1, <3>2
  <2>8. QED
    BY <2>4, <2>5, <2>6, <2>7
<1>2. QED
  BY <1>1, RegistryTypeOK, PTL

-----------------------------------------------------------------------------
(***************************************************************************)
(* Every change of status leaves its trail, and every version that becomes *)
(* published is deployed, whoever else changes it, unless a process dies.  *)
(* PublishedGetsDeployed is no inductive invariant: the commands it trusts *)
(* include a sync of a draft, which deploys nothing.  PublishedPending     *)
(* names those that will really point to the version.                      *)
(***************************************************************************)

PublishedPending ==
  bounds.crashes = 0 =>
    \A v \in DOMAIN versions : Status(v) = "published" =>
      \/ v \in deployed
      \/ \E o \in Operators :
           at[o] \in {"trail", "point"} /\ target[o] = v /\ ThenPoints(o)

TrailInv == ChangesExplained /\ PublishedPending

\* The tables of versions, of transitions and the log of active versions are
\* what they were, but for new entries.
TrailTablesKept ==
  /\ DOMAIN versions' = DOMAIN versions
  /\ \A v \in DOMAIN versions : versions'[v].status = versions[v].status
  /\ explained \subseteq explained' /\ deployed \subseteq deployed'
  /\ bounds'.crashes = bounds.crashes

\* No command that is about to write the trail or the pointer moves.
WritersKept ==
  \A q \in Operators : at[q] \in {"trail", "point"} =>
    at'[q] = at[q] /\ target'[q] = target[q] /\ to'[q] = to[q] /\ kind'[q] = kind[q]

\* Steps of commands that are not there yet change nothing of it.
LEMMA TrailKept ==
  ASSUME TrailInv, TrailTablesKept, WritersKept
  PROVE  TrailInv'
<1>1. ChangesExplained'
  BY DEF TrailInv, ChangesExplained, TrailTablesKept, WritersKept, Status
<1>2. PublishedPending'
  BY DEF TrailInv, PublishedPending, TrailTablesKept, WritersKept, Status, ThenPoints
<1>3. QED
  BY <1>1, <1>2 DEF TrailInv

\* The UPDATE of the status, whose trail and pointer are still to come.
LEMMA WriteStatusTrail ==
  ASSUME TypeOK, TrailInv, NEW o \in Operators, WriteStatus(o)
  PROVE  TrailInv'
<1>1. /\ at[o] = "write" /\ at'[o] = "trail" /\ target[o] \in DOMAIN versions
      /\ target'[o] = target[o] /\ to'[o] = to[o] /\ kind'[o] = kind[o]
      /\ explained' = explained \ {target[o]} /\ UNCHANGED <<deployed, bounds>>
      /\ DOMAIN versions' = DOMAIN versions
      /\ versions' = [versions EXCEPT ![target[o]].status = to[o]]
  BY FrameFacts DEF WriteStatus, Goto, ChoiceOK
<1>2. \A q \in Operators \ {o} : FrameSame(q)
  BY OthersSame DEF Step
<1>3. to[o] = To[kind[o]] /\ kind[o] \in DOMAIN To
  BY <1>1, FrameFacts DEF KindOK
<1>4. /\ versions[target[o]] \in VersionRows
      /\ \A v \in DOMAIN versions : v # target[o] => versions'[v] = versions[v]
  BY <1>1, ElementOfSeq, FrameFacts DEF TypeOK, TablesOK
<1>5. versions'[target[o]].status = to[o]
  BY <1>1, <1>4 DEF VersionRows
<1>6. ChangesExplained'
  BY <1>1, <1>2, <1>4, <1>5 DEF TrailInv, ChangesExplained, FrameSame, Status
<1>7. to[o] = "published" => ThenPoints(o)'
  BY <1>1, <1>3 DEF ThenPoints, To
<1>8. PublishedPending'
  BY <1>1, <1>2, <1>4, <1>5, <1>7
     DEF TrailInv, PublishedPending, FrameSame, Status, ThenPoints
<1>9. QED
  BY <1>6, <1>8 DEF TrailInv

\* The INSERT of a version, whose trail and pointer are still to come.
LEMMA InsertVersionTrail ==
  ASSUME TypeOK, TrailInv, NEW o \in Operators, InsertVersion(o),
         target[o] \notin DOMAIN versions
  PROVE  TrailInv'
<1>1. /\ at[o] = "insert" /\ at'[o] = "trail"
      /\ target'[o] = target[o] /\ to'[o] = to[o] /\ kind'[o] = kind[o]
      /\ UNCHANGED <<explained, deployed, bounds>>
      /\ versions' = Append(versions, NewVersionRow(o))
  BY FrameFacts DEF InsertVersion, Goto
<1>2. \A q \in Operators \ {o} : FrameSame(q)
  BY OthersSame DEF Step
<1>3. DOMAIN versions = 1..Len(versions) /\ Len(versions) \in Nat
  BY FrameFacts
<1>4. target[o] = Len(versions) + 1 /\ kind[o] = "sync"
  BY <1>1, <1>3, FrameFacts DEF ChoiceOK, KindOK
<1>5. /\ DOMAIN versions' = DOMAIN versions \cup {target[o]}
      /\ \A v \in DOMAIN versions : versions'[v] = versions[v]
      /\ versions'[target[o]].status = to[o]
  BY <1>1, <1>3, <1>4 DEF TypeOK, TablesOK, NewVersionRow
<1>6. ChangesExplained'
  BY <1>1, <1>2, <1>5 DEF TrailInv, ChangesExplained, FrameSame, Status
<1>7. PublishedPending'
  BY <1>1, <1>2, <1>4, <1>5
     DEF TrailInv, PublishedPending, FrameSame, Status, ThenPoints
<1>8. QED
  BY <1>6, <1>7 DEF TrailInv

\* The row of the trail: it explains the status unless another command has
\* changed that meanwhile, and then that command's own row will.
LEMMA WriteTrailTrail ==
  ASSUME TypeOK, TrailInv, NEW o \in Operators, WriteTrail(o)
  PROVE  TrailInv'
<1>1. /\ at[o] = "trail" /\ UNCHANGED <<versions, deployed, bounds>>
      /\ explained' = IF Status(target[o]) = to[o]
                      THEN explained \cup {target[o]} ELSE explained
      /\ ThenPoints(o) => /\ at'[o] = "point" /\ target'[o] = target[o]
                          /\ to'[o] = to[o] /\ kind'[o] = kind[o]
  BY FrameFacts DEF WriteTrail, TransitionRow, RowStatus, Goto
<1>2. \A q \in Operators \ {o} : FrameSame(q)
  BY OthersSame DEF Step
<1>3. ChangesExplained'
  BY <1>1, <1>2 DEF TrailInv, ChangesExplained, FrameSame, Status
<1>4. PublishedPending'
  BY <1>1, <1>2 DEF TrailInv, PublishedPending, FrameSame, Status, ThenPoints
<1>5. QED
  BY <1>3, <1>4 DEF TrailInv

\* The pointer: whatever waited for it is deployed now.
LEMMA PointTrail ==
  ASSUME TypeOK, TrailInv, NEW o \in Operators, Point(o)
  PROVE  TrailInv'
<1>1. /\ at[o] = "point" /\ UNCHANGED <<versions, explained, bounds>>
      /\ deployed' = deployed \cup {NewActive(o)}
  BY DEF Point, SetDeployment
<1>2. \A q \in Operators \ {o} : FrameSame(q)
  BY OthersSame DEF Step
<1>3. ThenPoints(o) => NewActive(o) = target[o]
  BY DEF ThenPoints, NewActive
<1>4. ChangesExplained'
  BY <1>1, <1>2 DEF TrailInv, ChangesExplained, FrameSame, Status
<1>5. PublishedPending'
  BY <1>1, <1>2, <1>3 DEF TrailInv, PublishedPending, FrameSame, Status, ThenPoints
<1>6. QED
  BY <1>4, <1>5 DEF TrailInv

\* Every other step of a command, its beginning included.
LEMMA OtherStepTrail ==
  ASSUME TypeOK, TrailInv, NEW o \in Operators, Start(o) \/ Step(o),
         at[o] \notin {"write", "insert", "trail", "point"}
  PROVE  TrailInv'
<1>1. \A q \in Operators \ {o} : FrameSame(q)
  BY OthersSame
<1>2. WritersKept
  BY <1>1 DEF WritersKept, FrameSame
<1>3. UNCHANGED <<versions, explained>> /\ deployed \subseteq deployed'
      /\ bounds'.crashes = bounds.crashes
  <2>1. CASE Start(o)
    BY <2>1 DEF Start, history, TypeOK, TablesOK
  <2>2. CASE Step(o)
    BY <2>2 DEF Step, ReadLatest, InsertVersion, ChooseVersion, NothingToChoose, Gate,
       ForceGate, Pick, WriteStatus, WriteTrail, ReadState, ClearCanary, ReadBase,
       ListPrevious, CheckTarget, Point, Reads, Raises, SetDeployment, history
  <2>3. QED
    BY <2>1, <2>2
<1>4. QED
  BY <1>2, <1>3, TrailKept DEF TrailTablesKept

\* Steps, stuttering included.
LEMMA NextTrail ==
  ASSUME TypeOK, TrailInv, [Next]_vars
  PROVE  TrailInv'
<1>1. ASSUME NEW o \in Operators, Start(o) \/ Step(o) PROVE TrailInv'
  <2>1. CASE at[o] \notin {"write", "insert", "trail", "point"}
    BY <1>1, <2>1, OtherStepTrail
  <2>2. CASE at[o] = "write"
    <3>1. WriteStatus(o)
      BY <1>1, <2>2 DEF Start, Step, ReadLatest, InsertVersion, ChooseVersion,
         NothingToChoose, Gate, ForceGate, Pick, WriteTrail, ReadState, ClearCanary,
         ReadBase, ListPrevious, CheckTarget, Point
    <3>2. QED
      BY <3>1, WriteStatusTrail
  <2>3. CASE at[o] = "insert"
    <3>1. InsertVersion(o)
      BY <1>1, <2>3 DEF Start, Step, ReadLatest, WriteStatus, ChooseVersion,
         NothingToChoose, Gate, ForceGate, Pick, WriteTrail, ReadState, ClearCanary,
         ReadBase, ListPrevious, CheckTarget, Point
    <3>2. CASE target[o] \in DOMAIN versions
      <4>1. UNCHANGED <<versions, explained, deployed, bounds>>
        BY <3>1, <3>2 DEF InsertVersion, Raises, history
      <4>2. WritersKept
        BY <1>1, <2>3, OthersSame DEF WritersKept, FrameSame
      <4>3. QED
        BY <4>1, <4>2, TrailKept DEF TrailTablesKept
    <3>3. QED
      BY <3>1, <3>2, InsertVersionTrail
  <2>4. CASE at[o] = "trail"
    <3>1. WriteTrail(o)
      BY <1>1, <2>4 DEF Start, Step, ReadLatest, WriteStatus, ChooseVersion,
         NothingToChoose, Gate, ForceGate, Pick, InsertVersion, ReadState, ClearCanary,
         ReadBase, ListPrevious, CheckTarget, Point
    <3>2. QED
      BY <3>1, WriteTrailTrail
  <2>5. CASE at[o] = "point"
    <3>1. Point(o)
      BY <1>1, <2>5 DEF Start, Step, ReadLatest, WriteStatus, ChooseVersion,
         NothingToChoose, Gate, ForceGate, Pick, InsertVersion, ReadState, ClearCanary,
         ReadBase, ListPrevious, CheckTarget, WriteTrail
    <3>2. QED
      BY <3>1, PointTrail
  <2>6. QED
    BY <2>1, <2>2, <2>3, <2>4, <2>5
<1>2. ASSUME NEW o \in Operators, Crash(o) PROVE TrailInv'
  <2>1. bounds'.crashes # 0
    BY <1>2 DEF Crash, TypeOK, TablesOK
  <2>2. QED
    BY <2>1 DEF TrailInv, ChangesExplained, PublishedPending
<1>3. CASE EditFile \/ EvalFinished \/ UNCHANGED vars
  <2>1. /\ UNCHANGED locals /\ UNCHANGED <<explained, deployed>>
        /\ bounds'.crashes = bounds.crashes
    BY <1>3 DEF EditFile, EvalFinished, vars, history, TypeOK, TablesOK
  <2>2. CASE EvalFinished
    <3>1. \A w \in DOMAIN versions : versions[w] \in VersionRows
      BY VersionNumbers, ElementOfSeq DEF TypeOK, TablesOK
    <3>2. /\ DOMAIN versions' = DOMAIN versions
          /\ \A v \in DOMAIN versions : versions'[v].status = versions[v].status
      BY <2>2, <3>1 DEF EvalFinished, VersionRows
    <3>3. QED
      BY <2>1, <3>2, TrailKept DEF TrailTablesKept, WritersKept, locals
  <2>3. CASE EditFile \/ UNCHANGED vars
    BY <2>1, <2>3, TrailKept DEF TrailTablesKept, WritersKept, locals, EditFile, vars
  <2>4. QED
    BY <1>3, <2>2, <2>3
<1>4. QED
  BY <1>1, <1>2, <1>3 DEF Next

\* The strengthened invariant: a change without its row in
\* prompt_transitions, or a published version without its turn as the active
\* one, has a live command that is about to supply it.
THEOREM RegistryTrail == Spec => []TrailInv
<1>1. Init => TrailInv
  BY DEF Init, TrailInv, ChangesExplained, PublishedPending
<1>2. TypeOK /\ TrailInv /\ [Next]_vars => TrailInv'
  BY NextTrail
<1>3. QED
  BY <1>1, <1>2, RegistryTypeOK, PTL DEF Spec

\* docs/02 par. 5.2 keeps the evidence of every change: without deaths, every
\* status has its row in prompt_transitions, or the command that gave it is
\* about to write it, for any number of commands that overtake each other.
THEOREM RegistryChangesExplained == Spec => []ChangesExplained
<1>1. TrailInv => ChangesExplained
  BY DEF TrailInv
<1>2. QED
  BY <1>1, RegistryTrail, PTL

\* Without deaths no version stays published that never was the active one.
THEOREM RegistryPublishedGetsDeployed == Spec => []PublishedGetsDeployed
<1>1. TrailInv => PublishedGetsDeployed
  BY DEF TrailInv, PublishedPending, PublishedGetsDeployed, ThenPoints
<1>2. QED
  BY <1>1, RegistryTrail, PTL

-----------------------------------------------------------------------------
(***************************************************************************)
(* A command that nothing interrupted: what it has read is still true when *)
(* it writes, although every read is a statement of its own.  The action   *)
(* properties about such commands follow.                                  *)
(***************************************************************************)

\* v is the version a rollback from the deployment row d goes back to.
IsPrevious(v, d) ==
  /\ v < d.active /\ Status(v) = "published"
  /\ \A w \in DOMAIN versions : Status(w) = "published" => ~(v < w /\ w < d.active)

\* The command will write back, or go back from, the deployment row it read.
HoldsRow(o) ==
  \/ kind[o] \in {"canary", "stop"} /\ at[o] \in {"check", "point"}
  \/ kind[o] = "rollback" /\ at[o] \in {"list", "check", "point"}

SoleCommand(o) ==
  (alone[o] /\ at[o] # "idle") =>
    /\ \A q \in Operators \ {o} : at[q] = "idle"
    /\ at[o] = "write" => Allowed(o, target[o])
    /\ at[o] = "insert" => target[o] = Len(versions) + 1
    /\ (kind[o] = "sync" /\ at[o] \in {"trail", "point"}) =>
         versions[Len(versions)].text = loaded[o]
    /\ HoldsRow(o) => base[o] = deployment
    /\ (kind[o] = "rollback" /\ at[o] \in {"check", "point"}) =>
         IsPrevious(target[o], deployment)

SoleInv == \A o \in Operators : SoleCommand(o)

\* What a step does to its own command's label and to nobody else's frame.
LEMMA SoleFrame ==
  ASSUME TypeOK, NEW o \in Operators, Step(o) \/ Crash(o)
  PROVE  /\ at[o] # "idle"
         /\ \A q \in Operators \ {o} : alone'[q] = alone[q] /\ FrameSame(q)
         /\ alone'[o] = alone[o] \/ at'[o] = "idle"
<1>1. \A q \in Operators \ {o} : FrameSame(q)
  BY OthersSame
<1>2. alone \in [Operators -> BOOLEAN] /\ at \in [Operators -> Labels]
  BY DEF TypeOK, FramesOK
<1>3. at[o] # "idle"
  BY DEF Step, Crash, ReadLatest, InsertVersion, ChooseVersion, NothingToChoose, Gate,
     ForceGate, Pick, WriteStatus, WriteTrail, ReadState, ClearCanary, ReadBase,
     ListPrevious, CheckTarget, Point
<1>4. \/ End(o)
      \/ UNCHANGED alone
  BY DEF Step, Crash, ReadLatest, InsertVersion, ChooseVersion, NothingToChoose, Gate,
     ForceGate, Pick, WriteStatus, WriteTrail, ReadState, ClearCanary, ReadBase,
     ListPrevious, CheckTarget, Point, Reads, Raises
<1>5. CASE End(o)
  BY <1>1, <1>2, <1>3, <1>5 DEF End, Goto
<1>6. CASE UNCHANGED alone
  BY <1>1, <1>3, <1>6
<1>7. QED
  BY <1>4, <1>5, <1>6

\* SoleInv after a step of o, from what it does to o's own command.
LEMMA SoleFromParts ==
  ASSUME TypeOK, SoleInv, NEW o \in Operators, Step(o) \/ Crash(o),
         (\A q \in Operators \ {o} : at[q] = "idle") /\ alone[o] => SoleCommand(o)'
  PROVE  SoleInv'
<1>1. /\ at[o] # "idle"
      /\ \A q \in Operators \ {o} : alone'[q] = alone[q] /\ FrameSame(q)
      /\ alone'[o] = alone[o] \/ at'[o] = "idle"
  BY SoleFrame
<1>2. SoleCommand(o)'
  <2>1. CASE alone[o]
    BY <1>1, <2>1 DEF SoleInv, SoleCommand
  <2>2. CASE ~alone[o]
    BY <1>1, <2>2 DEF SoleCommand
  <2>3. QED
    BY <2>1, <2>2
<1>3. ASSUME NEW q \in Operators, q # o PROVE SoleCommand(q)'
  <2>1. ~(alone[q] /\ at[q] # "idle")
    BY <1>1, <1>3 DEF SoleInv, SoleCommand
  <2>2. QED
    BY <1>1, <1>3, <2>1 DEF SoleCommand, FrameSame
<1>4. QED
  BY <1>2, <1>3 DEF SoleInv

\* A command begins: any other that was running has lost its solitude.
LEMMA StartSole ==
  ASSUME TypeOK, SoleInv, NEW o \in Operators, Start(o)
  PROVE  SoleInv'
<1>1. \A q \in Operators \ {o} : FrameSame(q)
  BY OthersSame
<1>2. PICK k \in Kinds :
        /\ \E l \in FirstLabels(k) : Goto(o, l)
        /\ kind' = [kind EXCEPT ![o] = k]
  BY DEF Start
<1>3. /\ at[o] = "idle"
      /\ alone' = [q \in Operators |-> IF q = o THEN Alone(o)
                                       ELSE alone[q] /\ at[q] = "idle"]
  BY DEF Start
<1>4. at'[o] \in {"latest", "choose", "pick", "base", "state"}
  BY <1>2, FrameFacts DEF FirstLabels, Goto
<1>5. SoleCommand(o)'
  BY <1>1, <1>3, <1>4 DEF SoleCommand, Alone, HoldsRow, FrameSame
<1>6. ASSUME NEW q \in Operators, q # o PROVE SoleCommand(q)'
  BY <1>1, <1>3, <1>6 DEF SoleCommand, FrameSame
<1>7. QED
  BY <1>5, <1>6 DEF SoleInv

\* The reads that go on to another read, and --force's audit row.
LEMMA QuietSole ==
  ASSUME TypeOK, SoleInv, NEW o \in Operators, Step(o) \/ Crash(o),
         \/ at'[o] \in {"idle", "choose", "gate", "pick", "state", "clear", "base"}
         \/ at'[o] = "trail" /\ kind'[o] # "sync"
  PROVE  SoleInv'
<1>1. \A q \in Operators \ {o} : FrameSame(q)
  BY SoleFrame
<1>2. (\A q \in Operators \ {o} : at[q] = "idle") => SoleCommand(o)'
  BY <1>1 DEF SoleCommand, HoldsRow, FrameSame
<1>3. QED
  BY <1>2, SoleFromParts

\* sync, from the read of the latest version to the row it inserts.
LEMMA SyncSole ==
  ASSUME TypeOK, SoleInv, NEW o \in Operators, ReadLatest(o) \/ InsertVersion(o)
  PROVE  SoleInv'
<1>1. Step(o) /\ at[o] \in {"latest", "insert"}
  BY DEF Step, ReadLatest, InsertVersion
<1>2. kind[o] = "sync"
  BY <1>1, FrameFacts DEF KindOK
<1>3. CASE End(o)
  BY <1>1, <1>3, QuietSole, FrameFacts DEF End, Goto
<1>4. CASE ReadLatest(o) /\ ~End(o)
  <2>1. /\ target'[o] = Len(versions) + 1 /\ at'[o] = "insert"
        /\ UNCHANGED <<versions, kind>>
    BY <1>4, FrameFacts DEF ReadLatest, Raises, Reads, Goto
  <2>2. \A q \in Operators \ {o} : FrameSame(q)
    BY <1>1, SoleFrame
  <2>3. (\A q \in Operators \ {o} : at[q] = "idle") => SoleCommand(o)'
    BY <1>2, <2>1, <2>2 DEF SoleCommand, HoldsRow, FrameSame
  <2>4. QED
    BY <1>1, <2>3, SoleFromParts
<1>5. CASE InsertVersion(o) /\ ~End(o)
  <2>1. /\ at[o] = "insert" /\ target[o] \notin DOMAIN versions
        /\ at'[o] = "trail" /\ versions' = Append(versions, NewVersionRow(o))
        /\ UNCHANGED <<kind, loaded>>
    BY <1>5, FrameFacts DEF InsertVersion, Raises, Goto
  <2>2. versions'[Len(versions')].text = loaded'[o]
    BY <2>1 DEF TypeOK, TablesOK, NewVersionRow
  <2>3. \A q \in Operators \ {o} : FrameSame(q)
    BY <1>1, SoleFrame
  <2>4. (\A q \in Operators \ {o} : at[q] = "idle") => SoleCommand(o)'
    BY <1>2, <2>1, <2>2, <2>3 DEF SoleCommand, HoldsRow, FrameSame
  <2>5. QED
    BY <1>1, <2>4, SoleFromParts
<1>6. QED
  BY <1>3, <1>4, <1>5

\* The transition commands: what was looked up is what is written.
LEMMA PickSole ==
  ASSUME TypeOK, SoleInv, NEW o \in Operators, Pick(o)
  PROVE  SoleInv'
<1>1. Step(o) /\ at[o] = "pick"
  BY DEF Step, Pick
<1>2. kind[o] \in DOMAIN To
  BY <1>1, FrameFacts DEF KindOK
<1>3. CASE End(o)
  BY <1>1, <1>3, QuietSole, FrameFacts DEF End, Goto
<1>4. CASE ~End(o)
  <2>1. PICK v \in DOMAIN versions :
          /\ Allowed(o, v) /\ target' = [target EXCEPT ![o] = v]
          /\ UNCHANGED to /\ Reads(o, "write")
    BY <1>4 DEF Pick, Raises
  <2>2. /\ at'[o] = "write" /\ Allowed(o, target[o])'
        /\ UNCHANGED <<versions, kind>>
    BY <2>1, FrameFacts DEF Reads, Goto, Allowed, Status
  <2>3. \A q \in Operators \ {o} : FrameSame(q)
    BY <1>1, SoleFrame
  <2>4. (\A q \in Operators \ {o} : at[q] = "idle") => SoleCommand(o)'
    BY <1>2, <2>2, <2>3 DEF SoleCommand, HoldsRow, FrameSame, To
  <2>5. QED
    BY <1>1, <2>4, SoleFromParts
<1>5. QED
  BY <1>3, <1>4

\* The row of prompt_transitions, after which sync still has its pointer to set.
LEMMA WriteTrailSole ==
  ASSUME TypeOK, SoleInv, NEW o \in Operators, WriteTrail(o)
  PROVE  SoleInv'
<1>1. Step(o) /\ at[o] = "trail" /\ UNCHANGED versions
  BY DEF Step, WriteTrail
<1>2. CASE End(o)
  BY <1>1, <1>2, QuietSole, FrameFacts DEF End, Goto
<1>3. CASE ~End(o)
  <2>1. /\ at'[o] = "point" /\ kind[o] \in {"publish", "force", "sync"}
        /\ UNCHANGED <<kind, loaded, alone>>
    BY <1>3, FrameFacts DEF WriteTrail, ThenPoints, Goto
  <2>2. \A q \in Operators \ {o} : FrameSame(q)
    BY <1>1, SoleFrame
  <2>3. (\A q \in Operators \ {o} : at[q] = "idle") /\ alone[o] => SoleCommand(o)'
    BY <1>1, <2>1, <2>2 DEF SoleInv, SoleCommand, HoldsRow, FrameSame
  <2>4. QED
    BY <1>1, <2>3, SoleFromParts
<1>4. QED
  BY <1>2, <1>3

\* rollback, canary, promote and stop_canary up to the row they will write.
LEMMA ReadRowSole ==
  ASSUME TypeOK, SoleInv, NEW o \in Operators,
         ReadBase(o) \/ ListPrevious(o) \/ CheckTarget(o)
  PROVE  SoleInv'
<1>1. /\ Step(o) /\ at[o] \in {"base", "list", "check"}
      /\ \A q \in Operators \ {o} : FrameSame(q)
  BY SoleFrame DEF Step, ReadBase, ListPrevious, CheckTarget
<1>2. kind[o] \in DeployKinds
  BY <1>1, FrameFacts DEF KindOK, DeployKinds
<1>3. CASE End(o)
  BY <1>1, <1>3, QuietSole, FrameFacts DEF End, Goto
<1>4. CASE ~End(o) /\ ReadBase(o)
  <2>1. /\ at'[o] = CASE kind[o] = "rollback" -> "list"
                      [] kind[o] = "stop"     -> "point"
                      [] OTHER                -> "check"
        /\ base'[o] = deployment /\ UNCHANGED <<deployment, kind>>
    BY <1>4, FrameFacts DEF ReadBase, Raises, Reads, Goto
  <2>2. (\A q \in Operators \ {o} : at[q] = "idle") => SoleCommand(o)'
    BY <1>1, <1>2, <2>1 DEF SoleCommand, HoldsRow, FrameSame, DeployKinds
  <2>3. QED
    BY <1>1, <2>2, SoleFromParts
<1>5. CASE ~End(o) /\ ListPrevious(o)
  <2>1. /\ at[o] = "list" /\ at'[o] = "check" /\ kind[o] = "rollback"
        /\ base'[o] = base[o] /\ UNCHANGED <<deployment, versions, kind>>
    BY <1>5, FrameFacts DEF ListPrevious, Raises, Reads, Goto, KindOK
  <2>2. IsPrevious(target'[o], base[o])
    <3>1. PICK v \in DOMAIN versions :
            /\ CanGoBackTo(o, v)
            /\ \A w \in DOMAIN versions : CanGoBackTo(o, w) => w <= v
            /\ target' = [target EXCEPT ![o] = v]
      BY <1>5 DEF ListPrevious, Raises
    <3>2. target'[o] = v /\ v \in Nat /\ DOMAIN versions \subseteq Nat
      BY <3>1, FrameFacts
    <3>3. QED
      BY <3>1, <3>2 DEF CanGoBackTo, IsPrevious
  <2>3. (\A q \in Operators \ {o} : at[q] = "idle") /\ alone[o] => SoleCommand(o)'
    <3>1. alone[o] => base[o] = deployment
      BY <2>1 DEF SoleInv, SoleCommand, HoldsRow
    <3>2. base[o] = deployment => IsPrevious(target[o], deployment)'
      BY <2>1, <2>2 DEF IsPrevious, Status
    <3>3. QED
      BY <1>1, <2>1, <3>1, <3>2 DEF SoleCommand, HoldsRow, FrameSame
  <2>4. QED
    BY <1>1, <2>3, SoleFromParts
<1>6. CASE ~End(o) /\ CheckTarget(o)
  <2>1. /\ at[o] = "check" /\ at'[o] = "point" /\ target'[o] = target[o]
        /\ base'[o] = base[o] /\ UNCHANGED <<deployment, versions, kind>>
    BY <1>6, FrameFacts DEF CheckTarget, Raises, Reads, Goto
  <2>2. (\A q \in Operators \ {o} : at[q] = "idle") /\ alone[o] => SoleCommand(o)'
    <3>1. ASSUME alone[o] PROVE HoldsRow(o)' => base'[o] = deployment'
      BY <2>1, <3>1 DEF SoleInv, SoleCommand, HoldsRow
    <3>2. ASSUME alone[o], kind[o] = "rollback" PROVE IsPrevious(target[o], deployment)'
      BY <2>1, <3>2 DEF SoleInv, SoleCommand, IsPrevious, Status
    <3>3. QED
      BY <1>1, <1>2, <2>1, <3>1, <3>2 DEF SoleCommand, FrameSame, DeployKinds
  <2>3. QED
    BY <1>1, <2>2, SoleFromParts
<1>7. QED
  BY <1>3, <1>4, <1>5, <1>6

\* Every step of a command.
LEMMA StepSole ==
  ASSUME TypeOK, SoleInv, NEW o \in Operators, Step(o) \/ Crash(o)
  PROVE  SoleInv'
<1>1. CASE End(o)
  BY <1>1, QuietSole, FrameFacts DEF End, Goto
<1>2. CASE ReadLatest(o) \/ InsertVersion(o)
  BY <1>2, SyncSole
<1>3. CASE (ChooseVersion(o) \/ Gate(o) \/ ForceGate(o) \/ ReadState(o) \/ ClearCanary(o))
           /\ ~End(o)
  <2>1. at'[o] \in {"gate", "pick", "clear", "base"}
    BY <1>3, FrameFacts DEF ChooseVersion, Gate, ForceGate, ReadState, ClearCanary,
       Raises, Reads, Goto
  <2>2. QED
    BY <1>3, <2>1, QuietSole
<1>4. CASE Pick(o)
  BY <1>4, PickSole
<1>5. CASE WriteStatus(o)
  <2>1. kind[o] \in DOMAIN To /\ kind'[o] = kind[o] /\ at'[o] = "trail"
    BY <1>5, FrameFacts DEF WriteStatus, KindOK, Goto
  <2>2. QED
    BY <2>1, QuietSole DEF To
<1>6. CASE WriteTrail(o)
  BY <1>6, WriteTrailSole
<1>7. CASE ReadBase(o) \/ ListPrevious(o) \/ CheckTarget(o)
  BY <1>7, ReadRowSole
<1>8. CASE Point(o) /\ ~End(o)
  <2>1. kind'[o] \in {"rollback", "rollbackTo", "promote"} /\ at'[o] = "trail"
    BY <1>8, FrameFacts DEF Point, Goto
  <2>2. QED
    BY <2>1, QuietSole
<1>9. NothingToChoose(o) \/ Crash(o) => End(o)
  BY DEF NothingToChoose, Raises, Crash
<1>10. QED
  BY <1>1, <1>2, <1>3, <1>4, <1>5, <1>6, <1>7, <1>8, <1>9 DEF Step

\* What a command that ran alone has read is still so when it writes.
THEOREM RegistrySole == Spec => []SoleInv
<1>1. Init => SoleInv
  BY DEF Init, SoleInv, SoleCommand
<1>2. TypeOK /\ SoleInv /\ [Next]_vars => SoleInv'
  <2> SUFFICES ASSUME TypeOK, SoleInv, [Next]_vars PROVE SoleInv'
    OBVIOUS
  <2>1. CASE EvalFinished
    <3>1. \A w \in DOMAIN versions : versions[w] \in VersionRows
      BY VersionNumbers, ElementOfSeq DEF TypeOK, TablesOK
    <3>2. /\ DOMAIN versions' = DOMAIN versions /\ UNCHANGED locals /\ UNCHANGED deployment
          /\ \A v \in DOMAIN versions : /\ versions'[v].status = versions[v].status
                                        /\ versions'[v].text = versions[v].text
      BY <2>1, <3>1 DEF EvalFinished, VersionRows
    <3>3. versions \in Seq(VersionRows) /\ Len(versions') = Len(versions)
      BY <2>1 DEF EvalFinished, TypeOK, TablesOK
    <3>4. ASSUME NEW o \in Operators PROVE SoleCommand(o)'
      <4>1. SoleCommand(o) /\ ChoiceOK(o) /\ DOMAIN versions = 1..Len(versions)
        BY FrameFacts DEF SoleInv
      <4>2. /\ at' = at /\ kind' = kind /\ target' = target /\ to' = to /\ base' = base
            /\ loaded' = loaded /\ alone' = alone
        BY <3>2 DEF locals
      <4>3. at[o] = "write" => (Allowed(o, target[o]) => Allowed(o, target[o])')
        BY <3>2, <4>1, <4>2 DEF ChoiceOK, Allowed, Status
      <4>4. kind[o] = "rollback" /\ at[o] \in {"check", "point"} =>
              (IsPrevious(target[o], deployment) => IsPrevious(target[o], deployment)')
        BY <3>2, <4>1, <4>2 DEF ChoiceOK, IsPrevious, Status
      <4>5. kind[o] = "sync" /\ at[o] \in {"trail", "point"} =>
              Len(versions) \in DOMAIN versions
        BY <4>1, FrameFacts DEF ChoiceOK
      <4>6. QED
        BY <3>2, <3>3, <4>1, <4>2, <4>3, <4>4, <4>5 DEF SoleCommand, HoldsRow
    <3>5. QED
      BY <3>4 DEF SoleInv
  <2>2. CASE EditFile \/ UNCHANGED vars
    BY <2>2 DEF EditFile, vars, locals, SoleInv, SoleCommand, HoldsRow, IsPrevious,
       Allowed, Status
  <2>3. QED
    BY <2>1, <2>2, StartSole, StepSole DEF Next
<1>3. QED
  BY <1>1, <1>2, RegistryTypeOK, PTL DEF Spec

-----------------------------------------------------------------------------
(* What uninterrupted commands do, as properties of their steps.  A step   *)
(* while such a command runs is its own, or changes no table it uses.      *)

\* Which label changes what: the row of deployments and the statuses.
LEMMA StepWrites ==
  ASSUME TypeOK, [Next]_vars
  PROVE  /\ deployment' # deployment =>
              \E o \in Operators : Point(o) \/ ClearCanary(o)
         /\ \A v \in DOMAIN versions : versions'[v].status # Status(v) =>
              \E o \in Operators : WriteStatus(o) /\ target[o] = v
<1> DEFINE Goal == /\ deployment' # deployment =>
                        \E o \in Operators : Point(o) \/ ClearCanary(o)
                   /\ \A v \in DOMAIN versions : versions'[v].status # Status(v) =>
                        \E o \in Operators : WriteStatus(o) /\ target[o] = v
<1>1. ASSUME NEW o \in Operators, Start(o) \/ Crash(o) PROVE Goal
  BY <1>1 DEF Start, Crash, Status
<1>2. ASSUME NEW o \in Operators, Step(o) PROVE Goal
  <2>1. CASE InsertVersion(o)
    <3>1. /\ versions' = versions \/ versions' = Append(versions, NewVersionRow(o))
          /\ UNCHANGED deployment
      BY <2>1 DEF InsertVersion, Raises
    <3>2. DOMAIN versions = 1..Len(versions) /\ Len(versions) \in Nat
      BY FrameFacts
    <3>3. \A v \in DOMAIN versions : versions'[v] = versions[v]
      BY <3>1, <3>2 DEF TypeOK, TablesOK, NewVersionRow
    <3>4. QED
      BY <3>1, <3>3 DEF Status
  <2>2. CASE WriteStatus(o)
    <3>1. \A v \in DOMAIN versions : v # target[o] => versions'[v] = versions[v]
      BY <2>2, FrameFacts DEF WriteStatus, TypeOK, TablesOK
    <3>2. QED
      BY <2>2, <3>1 DEF WriteStatus, Status
  <2>3. CASE Point(o) \/ ClearCanary(o)
    <3>1. UNCHANGED versions
      BY <2>3 DEF Point, ClearCanary
    <3>2. QED
      BY <2>3, <3>1 DEF Status
  <2>4. CASE ~InsertVersion(o) /\ ~WriteStatus(o) /\ ~Point(o) /\ ~ClearCanary(o)
    <3>1. UNCHANGED <<versions, deployment>>
      BY <1>2, <2>4 DEF Step, ReadLatest, ChooseVersion, NothingToChoose, Gate, ForceGate,
         Pick, WriteTrail, ReadState, ReadBase, ListPrevious, CheckTarget, Reads, Raises
    <3>2. QED
      BY <3>1 DEF Status
  <2>5. QED
    BY <2>1, <2>2, <2>3, <2>4
<1>3. CASE EvalFinished
  <2>1. \A w \in DOMAIN versions : versions[w] \in VersionRows
    BY VersionNumbers, ElementOfSeq DEF TypeOK, TablesOK
  <2>2. /\ UNCHANGED deployment
        /\ \A v \in DOMAIN versions : versions'[v].status = versions[v].status
    BY <1>3, <2>1 DEF EvalFinished, VersionRows
  <2>3. QED
    BY <2>2 DEF Status
<1>4. CASE EditFile \/ UNCHANGED vars
  BY <1>4 DEF EditFile, vars, Status
<1>5. QED
  BY <1>1, <1>2, <1>3, <1>4 DEF Next

\* While an uninterrupted command stands at its pointer, only it moves it.
LEMMA PointerIsIts ==
  ASSUME TypeOK, SoleInv, [Next]_vars, NEW o \in Operators,
         at[o] = "point", alone[o], deployment' # deployment
  PROVE  Point(o)
<1>1. PICK q \in Operators : Point(q) \/ ClearCanary(q)
  BY StepWrites
<1>2. at[q] # "idle"
  BY <1>1 DEF Point, ClearCanary
<1>3. q = o
  BY <1>2 DEF SoleInv, SoleCommand
<1>4. QED
  BY <1>1, <1>3 DEF ClearCanary

\* FR-050: an uninterrupted rollback goes back to the published version just
\* before the active one and ends any canary, however many versions there are.
THEOREM RegistryRollbackGoesBack == Spec => RollbackGoesBack
<1>1. TypeOK /\ SoleInv /\ [Next]_vars => [\A o \in Operators : RollbackStep(o)]_vars
  <2> SUFFICES ASSUME TypeOK, SoleInv, [Next]_vars, NEW o \in Operators,
                      at[o] = "point", kind[o] = "rollback", alone[o],
                      deployment' # deployment
               PROVE  /\ deployment'.active < deployment.active
                      /\ Status(deployment'.active) = "published"
                      /\ \A v \in DOMAIN versions : Status(v) = "published" =>
                           ~(deployment'.active < v /\ v < deployment.active)
                      /\ ~HasCanary(deployment')
    BY DEF RollbackStep
  <2>1. Point(o)
    BY PointerIsIts
  <2>2. deployment' = [active |-> target[o], canary |-> 0, percent |-> 0]
    BY <2>1 DEF Point, SetDeployment, NewActive
  <2>3. IsPrevious(target[o], deployment)
    BY DEF SoleInv, SoleCommand
  <2>4. QED
    BY <2>2, <2>3 DEF IsPrevious, HasCanary
<1>2. QED
  BY <1>1, RegistryTypeOK, RegistrySole, PTL DEF Spec, RollbackGoesBack

\* deploy.py:148: uninterrupted, canary and stop_canary write back the
\* active version they read.
THEOREM RegistryCanaryKeepsActive == Spec => CanaryKeepsActive
<1>1. TypeOK /\ SoleInv /\ [Next]_vars => [\A o \in Operators : CanaryStep(o)]_vars
  <2> SUFFICES ASSUME TypeOK, SoleInv, [Next]_vars, NEW o \in Operators,
                      at[o] = "point", kind[o] \in {"canary", "stop"}, alone[o],
                      deployment' # deployment
               PROVE  deployment'.active = deployment.active
    BY DEF CanaryStep
  <2>1. Point(o)
    BY PointerIsIts
  <2>2. base[o] = deployment
    BY DEF SoleInv, SoleCommand, HoldsRow
  <2>3. deployment'.active = base[o].active
    BY <2>1 DEF Point, SetDeployment, NewActive
  <2>4. QED
    BY <2>2, <2>3
<1>2. QED
  BY <1>1, RegistryTypeOK, RegistrySole, PTL DEF Spec, CanaryKeepsActive

\* An uninterrupted sync ends with the file it read as the newest version.
THEOREM RegistrySyncConverges == Spec => SyncConverges
<1>1. TypeOK /\ SoleInv /\ [Next]_vars => [\A o \in Operators : SyncStep(o)]_vars
  <2> SUFFICES ASSUME TypeOK, SoleInv, [Next]_vars, NEW o \in Operators,
                      kind[o] = "sync", alone[o], at[o] # "idle", at'[o] = "idle",
                      bounds' = bounds
               PROVE  versions[Len(versions)].text = loaded[o]
    BY DEF SyncStep
  <2>1. Step(o)
    <3>1. ASSUME NEW q \in Operators, q # o, Start(q) \/ Step(q) \/ Crash(q) PROVE FALSE
      BY <3>1, OthersSame DEF FrameSame
    <3>2. ~(EditFile \/ EvalFinished \/ UNCHANGED vars)
      BY DEF EditFile, EvalFinished, vars, locals
    <3>3. ~Start(o) /\ ~Crash(o)
      BY DEF Start, Crash, TypeOK, TablesOK
    <3>4. QED
      BY <3>1, <3>2, <3>3 DEF Next
  <2>2. at[o] \in {"latest", "insert", "trail", "point"}
    BY FrameFacts DEF KindOK, Labels, To, DeployKinds, TypeOK, FramesOK
  <2>3. CASE at[o] = "latest"
    <3>1. ReadLatest(o)
      BY <2>1, <2>3 DEF Step, InsertVersion, ChooseVersion, NothingToChoose, Gate, ForceGate,
         Pick, WriteStatus, WriteTrail, ReadState, ClearCanary, ReadBase, ListPrevious,
         CheckTarget, Point
    <3>2. Unchanged(o)
      BY <3>1, FrameFacts DEF ReadLatest, Reads, Goto
    <3>3. QED
      BY <3>2 DEF Unchanged
  <2>4. CASE at[o] = "insert"
    <3>1. InsertVersion(o)
      BY <2>1, <2>4 DEF Step, ReadLatest, ChooseVersion, NothingToChoose, Gate, ForceGate,
         Pick, WriteStatus, WriteTrail, ReadState, ClearCanary, ReadBase, ListPrevious,
         CheckTarget, Point
    <3>2. target[o] \in DOMAIN versions
      BY <3>1, FrameFacts DEF InsertVersion, Goto
    <3>3. QED
      BY <2>4, <3>2, FrameFacts DEF SoleInv, SoleCommand
  <2>5. CASE at[o] \in {"trail", "point"}
    BY <2>5 DEF SoleInv, SoleCommand
  <2>6. QED
    BY <2>2, <2>3, <2>4, <2>5
<1>2. QED
  BY <1>1, RegistryTypeOK, RegistrySole, PTL DEF Spec, SyncConverges

\* docs/03 par. 2.2: no status changes along a transition that is not in the
\* table, unless another command interrupted the one that changes it.
THEOREM RegistryLegalWhenAlone == Spec => LegalWhenAlone
<1>1. TypeOK /\ SoleInv /\ [Next]_vars => [\A v \in DOMAIN versions : StatusStep(v)]_vars
  <2> SUFFICES ASSUME TypeOK, SoleInv, [Next]_vars, NEW v \in DOMAIN versions,
                      versions'[v].status # Status(v)
               PROVE  \/ <<Status(v), versions'[v].status>> \in ALLOWED_TRANSITIONS
                      \/ \E o \in Operators : at[o] = "write" /\ target[o] = v /\ ~alone[o]
    BY DEF StatusStep
  <2>1. PICK o \in Operators : WriteStatus(o) /\ target[o] = v
    BY StepWrites
  <2>2. /\ at[o] = "write"
        /\ versions' = [versions EXCEPT ![v].status = to[o]]
    BY <2>1 DEF WriteStatus
  <2>3. versions[v] \in VersionRows
    BY ElementOfSeq, FrameFacts DEF TypeOK, TablesOK
  <2>4. versions'[v].status = to[o]
    BY <2>2, <2>3 DEF VersionRows
  <2>5. alone[o] => Allowed(o, v)
    BY <2>1, <2>2 DEF SoleInv, SoleCommand
  <2>6. QED
    BY <2>1, <2>2, <2>4, <2>5 DEF Allowed
<1>2. QED
  BY <1>1, RegistryTypeOK, RegistrySole, PTL DEF Spec, LegalWhenAlone

=============================================================================
