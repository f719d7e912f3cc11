--------------------------- MODULE ServicesProofs ---------------------------
(***************************************************************************)
(* The seeding of the database for any releases and starts, and then all   *)
(* services together: every type and every safety property of the services *)
(* run, for any values of the constants.                                   *)
(***************************************************************************)
EXTENDS MCServices, TenancyProofs, ServerProofs, RequestProofs

(***************************************************************************)
(* Seeding.                                                                *)
(***************************************************************************)

RoleStages == {"selectRole", "insertRole", "grant"}
EntryStages == {"set", "select", "insert", "update", "clear", "option", "deactivate"}

RolesOf(s) == RoleList[ReleaseOf[s]]
EntriesOf(s) == QuestionList[ReleaseOf[s]]

\* A start is at a role or a question of its release, at the last one when it
\* deactivates the others, and at an option of that question.
PlaceFits(s) ==
  /\ seeding[s] \in {"off", "set"} => position[s] = 1
  /\ seeding[s] \in RoleStages => position[s] \in DOMAIN RolesOf(s)
  /\ seeding[s] \in EntryStages => position[s] \in DOMAIN EntriesOf(s)
  /\ seeding[s] = "option" => option[s] \in DOMAIN Entry(s).options
  /\ seeding[s] = "deactivate" => position[s] = Len(EntriesOf(s))

\* How often the first n options of a question name this value.
Occurrences(q, o, n) == {i \in 1 .. n : q.options[i] = o}

RoleGranted(s, i) == {RolesOf(s)[i].name} \X RolesOf(s)[i].permissions \subseteq granted

EntryWritten(s, i) ==
  /\ question[EntriesOf(s)[i].key] = ReleaseOf[s]
  /\ EntriesOf(s)[i].key \in active

OptionsAre(s, i, n) ==
  \A o \in OptionValues :
    options[<<EntriesOf(s)[i].key, o>>] = Cardinality(Occurrences(EntriesOf(s)[i], o, n))

EntryDone(s, i) == EntryWritten(s, i) /\ OptionsAre(s, i, Len(EntriesOf(s)[i].options))

\* What a start has done so far is still there.
Progress(s) ==
  /\ \A i \in DOMAIN RolesOf(s) :
       (seeding[s] \in RoleStages => i < position[s]) => RoleGranted(s, i)
  /\ seeding[s] \in EntryStages \ {"set", "deactivate"} =>
       \A i \in DOMAIN EntriesOf(s) : i < position[s] => EntryDone(s, i)
  /\ seeding[s] \in {"clear", "option"} => EntryWritten(s, position[s])
  /\ seeding[s] = "option" => OptionsAre(s, position[s], option[s] - 1)
  /\ seeding[s] \in {"deactivate", "verify"} => \A i \in DOMAIN EntriesOf(s) : EntryDone(s, i)
  /\ seeding[s] = "verify" => active = ActiveKeys(s)

SeedingInv ==
  /\ SeedingTypeOK
  /\ \A s \in Starts : PlaceFits(s)
  /\ \A s \in Running \ mixed : Running = {s} /\ Progress(s)

----------------------------------------------------------------------------
\* The lists of a release: their elements and what they name.
LEMMA RoleLists ==
  ASSUME NEW s \in Starts
  PROVE  /\ Len(RolesOf(s)) \in Nat \ {0}
         /\ DOMAIN RolesOf(s) = 1 .. Len(RolesOf(s))
         /\ ToSet(RolesOf(s)) = {RolesOf(s)[i] : i \in DOMAIN RolesOf(s)}
         /\ \A i \in DOMAIN RolesOf(s) :
              /\ RolesOf(s)[i].name \in RoleNames
              /\ RolesOf(s)[i].permissions \subseteq Permissions
  <1> DEFINE v == ReleaseOf[s]
  <1>1. v \in Releases /\ RoleList[v] \in Seq(ToSet(RoleList[v])) /\ RoleList[v] # << >>
    BY SeedingAssumption
  <1>2. Len(RoleList[v]) \in Nat \ {0} /\ DOMAIN RoleList[v] = 1 .. Len(RoleList[v])
    BY <1>1
  <1>3. ToSet(RoleList[v]) = {RoleList[v][i] : i \in DOMAIN RoleList[v]}
    BY DEF ToSet
  <1>4. ASSUME NEW i \in DOMAIN RoleList[v]
        PROVE  RoleList[v][i].name \in RoleNames /\ RoleList[v][i].permissions \subseteq Permissions
    <2> DEFINE r == RoleList[v][i]
    <2>1. r \in ToSet(RoleList[v])
      BY <1>3
    <2>2. r.name \in {x.name : x \in ToSet(RoleList[v])}
      BY <2>1
    <2>3. r.permissions \in {x.permissions : x \in ToSet(RoleList[v])}
      BY <2>1
    <2>4. r.permissions \subseteq UNION {x.permissions : x \in ToSet(RoleList[v])}
      BY <2>3
    <2> HIDE DEF r
    <2> QED BY <1>1, <2>2, <2>4 DEF RoleNames, Permissions
  <1> QED BY <1>2, <1>3, <1>4 DEF RolesOf

LEMMA EntryLists ==
  ASSUME NEW s \in Starts
  PROVE  /\ Len(EntriesOf(s)) \in Nat \ {0}
         /\ DOMAIN EntriesOf(s) = 1 .. Len(EntriesOf(s))
         /\ ToSet(EntriesOf(s)) = {EntriesOf(s)[i] : i \in DOMAIN EntriesOf(s)}
         /\ \A i \in DOMAIN EntriesOf(s) :
              /\ EntriesOf(s)[i].key \in QuestionKeys
              /\ EntriesOf(s)[i].options \in Seq(OptionValues)
         /\ \A i, j \in DOMAIN EntriesOf(s) :
              EntriesOf(s)[i].key = EntriesOf(s)[j].key => i = j
         /\ ActiveKeys(s) = {EntriesOf(s)[i].key : i \in DOMAIN EntriesOf(s)}
         /\ ReleaseOf[s] \in Releases
  <1> DEFINE v == ReleaseOf[s]
  <1>1. /\ v \in Releases
        /\ QuestionList[v] \in Seq(ToSet(QuestionList[v])) /\ QuestionList[v] # << >>
        /\ \A q \in ToSet(QuestionList[v]) : q.options \in Seq(OptionValues)
        /\ \A i, j \in DOMAIN QuestionList[v] :
             QuestionList[v][i].key = QuestionList[v][j].key => i = j
    BY SeedingAssumption
  <1>2. Len(QuestionList[v]) \in Nat \ {0} /\ DOMAIN QuestionList[v] = 1 .. Len(QuestionList[v])
    BY <1>1
  <1>3. ToSet(QuestionList[v]) = {QuestionList[v][i] : i \in DOMAIN QuestionList[v]}
    BY DEF ToSet
  <1>4. ASSUME NEW i \in DOMAIN QuestionList[v]
        PROVE  /\ QuestionList[v][i].key \in QuestionKeys
               /\ QuestionList[v][i].options \in Seq(OptionValues)
    <2> DEFINE q == QuestionList[v][i]
    <2>1. q \in ToSet(QuestionList[v])
      BY <1>3
    <2>2. q.key \in {x.key : x \in ToSet(QuestionList[v])}
      BY <2>1
    <2> HIDE DEF q
    <2>3. q.key \in QuestionKeys
      BY <1>1, <2>2 DEF QuestionKeys
    <2>4. q.options \in Seq(OptionValues)
      BY <1>1, <2>1
    <2> QED BY <2>3, <2>4 DEF q
  <1>5. ActiveKeys(s) = {QuestionList[v][i].key : i \in DOMAIN QuestionList[v]}
    BY <1>3 DEF ActiveKeys
  <1> QED BY <1>1, <1>2, <1>3, <1>4, <1>5 DEF EntriesOf

\* The occurrences of a value are counted option by option.
LEMMA CountingOptions ==
  ASSUME NEW q, NEW o
  PROVE  /\ Cardinality(Occurrences(q, o, 0)) = 0
         /\ \A n \in Nat :
              /\ Cardinality(Occurrences(q, o, n)) \in Nat
              /\ Cardinality(Occurrences(q, o, n + 1)) =
                   Cardinality(Occurrences(q, o, n)) + (IF q.options[n + 1] = o THEN 1 ELSE 0)
  <1>1. Occurrences(q, o, 0) = {}
    BY DEF Occurrences
  <1>2. ASSUME NEW n \in Nat
        PROVE  /\ Cardinality(Occurrences(q, o, n)) \in Nat
               /\ Cardinality(Occurrences(q, o, n + 1)) =
                    Cardinality(Occurrences(q, o, n)) + (IF q.options[n + 1] = o THEN 1 ELSE 0)
    <2>1. IsFiniteSet(Occurrences(q, o, n))
      <3>1. IsFiniteSet(1 .. n)
        BY FS_Interval
      <3>2. Occurrences(q, o, n) \subseteq 1 .. n
        BY DEF Occurrences
      <3> QED BY <3>1, <3>2, FS_Subset
    <2>2. n + 1 \notin Occurrences(q, o, n)
      BY DEF Occurrences
    <2>3. Cardinality(Occurrences(q, o, n)) \in Nat
      BY <2>1, FS_CardinalityType
    <2>4. CASE q.options[n + 1] = o
      <3>1. Occurrences(q, o, n + 1) = Occurrences(q, o, n) \union {n + 1}
        BY <2>4 DEF Occurrences
      <3> QED BY <2>1, <2>2, <2>3, <2>4, <3>1, FS_AddElement
    <2>5. CASE q.options[n + 1] # o
      <3>1. Occurrences(q, o, n + 1) = Occurrences(q, o, n)
        BY <2>5 DEF Occurrences
      <3> QED BY <2>3, <2>5, <3>1
    <2> QED BY <2>4, <2>5, <2>3
  <1> QED BY <1>1, <1>2, FS_EmptySet

----------------------------------------------------------------------------
\* A step of a running start is nobody else's concern but of starts it runs
\* beside.
LEMMA StepOfOneStart ==
  ASSUME SeedingInv, NEW s \in Running,
         NEW st, seeding' = [seeding EXCEPT ![s] = st], UNCHANGED mixed,
         SeedingTypeOK', PlaceFits(s)',
         \A t \in Starts \ {s} : position'[t] = position[t] /\ option'[t] = option[t],
         Progress(s) /\ s \notin mixed => Progress(s)' \/ st \in {"serving", "ended"}
  PROVE  SeedingInv'
  <1>1. s \in Starts /\ seeding \in [Starts -> SeedStages]
    BY DEF Running, SeedingInv, SeedingTypeOK
  <1>2. ASSUME NEW t \in Starts PROVE PlaceFits(t)'
    <2>1. CASE t # s
      <3>1. seeding'[t] = seeding[t] /\ position'[t] = position[t] /\ option'[t] = option[t]
        BY <1>1, <2>1
      <3> QED BY <3>1 DEF SeedingInv, PlaceFits, RolesOf, EntriesOf, Entry
    <2> QED BY <2>1
  <1>3. Running' \subseteq Running
    BY <1>1 DEF Running
  <1>4. ASSUME NEW t \in Running' \ mixed' PROVE Running' = {t} /\ Progress(t)'
    <2>1. t \in Running \ mixed
      BY <1>3, <1>4
    <2>2. Running = {t} /\ Progress(t)
      BY <2>1 DEF SeedingInv
    <2>3. t = s
      BY <2>2
    <2>4. st \notin {"serving", "ended"}
      BY <1>1, <1>4, <2>3 DEF Running
    <2> QED BY <1>3, <1>4, <2>1, <2>2, <2>3, <2>4
  <1> QED BY <1>2, <1>4 DEF SeedingInv

LEMMA BootInv ==
  ASSUME SeedingInv, NEW s \in Starts, Boot(s)
  PROVE  SeedingInv'
  <1>1. /\ seeding[s] = "off" /\ seeding' = [seeding EXCEPT ![s] = "selectRole"]
        /\ mixed' = IF Running = {} THEN mixed ELSE mixed \union Running \union {s}
        /\ UNCHANGED <<seedTables, position, option>>
        /\ seeding \in [Starts -> SeedStages]
    BY DEF Boot, SeedingInv, SeedingTypeOK
  <1>2. SeedingTypeOK'
    BY <1>1 DEF SeedingInv, SeedingTypeOK, SeedStages, seedTables, Running
  <1>3. ASSUME NEW t \in Starts PROVE PlaceFits(t)'
    <2>1. CASE t # s
      BY <1>1, <2>1 DEF SeedingInv, PlaceFits, RolesOf, EntriesOf, Entry
    <2>2. CASE t = s
      <3>1. seeding'[s] = "selectRole" /\ position'[s] = 1
        BY <1>1 DEF SeedingInv, PlaceFits
      <3> QED BY <2>2, <3>1, RoleLists DEF PlaceFits, EntryStages, RolesOf
    <2> QED BY <2>1, <2>2
  <1>4. Running' = Running \union {s}
    BY <1>1 DEF Running
  <1>5. ASSUME NEW t \in Running' \ mixed' PROVE Running' = {t} /\ Progress(t)'
    <2>1. Running = {} /\ t = s
      BY <1>1, <1>4, <1>5
    <2>2. seeding'[s] = "selectRole" /\ position'[s] = 1
      BY <1>1 DEF SeedingInv, PlaceFits
    <2>3. \A i \in DOMAIN RolesOf(s) : ~(i < 1)
      BY RoleLists
    <2> QED BY <1>4, <2>1, <2>2, <2>3 DEF Progress, RoleStages, EntryStages, RolesOf
  <1> QED BY <1>2, <1>3, <1>5 DEF SeedingInv

\* A step that changes a start's stage alone.
LEMMA KeepInv ==
  ASSUME SeedingInv, NEW s \in Running, NEW st \in SeedStages, Keep(s, seeding[s], st),
         \/ st \in {"serving", "ended"}
         \/ seeding[s] \in RoleStages /\ st \in RoleStages
         \/ seeding[s] \in {"select", "insert", "update"} /\ st \in {"insert", "update"}
  PROVE  SeedingInv'
  <1>1. /\ s \in Starts /\ seeding \in [Starts -> SeedStages]
        /\ seeding' = [seeding EXCEPT ![s] = st] /\ UNCHANGED mixed
        /\ UNCHANGED <<seedTables, position, option>>
    BY DEF Running, SeedingInv, SeedingTypeOK, Keep, To
  <1>2. SeedingTypeOK'
    BY <1>1 DEF SeedingInv, SeedingTypeOK, seedTables
  <1>3. PlaceFits(s)'
    BY <1>1 DEF SeedingInv, PlaceFits, RoleStages, EntryStages, RolesOf, EntriesOf, Entry
  <1>4. Progress(s) => Progress(s)' \/ st \in {"serving", "ended"}
    BY <1>1 DEF Progress, RoleStages, EntryStages, RolesOf, EntriesOf, RoleGranted, EntryDone,
                EntryWritten, OptionsAre, seedTables
  <1> QED BY <1>1, <1>2, <1>3, <1>4, StepOfOneStart

LEMMA RoleInv ==
  ASSUME SeedingInv, NEW s \in Starts, InsertRole(s) \/ GrantPermission(s) \/ NextRole(s)
  PROVE  SeedingInv'
  <1> DEFINE n == Len(RolesOf(s))
  <1>1. seeding \in [Starts -> SeedStages] /\ SeedingTypeOK /\ PlaceFits(s)
    BY DEF SeedingInv, SeedingTypeOK
  <1>2. seeding[s] \in RoleStages /\ s \in Running
    BY DEF InsertRole, GrantPermission, NextRole, Keep, To, RoleStages, Running
  <1>3. position[s] \in 1 .. n /\ n \in Nat \ {0} /\ DOMAIN RolesOf(s) = 1 .. n
    BY <1>1, <1>2, RoleLists DEF PlaceFits
  <1>4. Role(s).name \in RoleNames /\ Role(s).permissions \subseteq Permissions
    BY <1>3, RoleLists DEF Role, RolesOf
  <1>5. CASE InsertRole(s) /\ seeding'[s] = "ended"
    <2>1. Keep(s, seeding[s], "ended")
      BY <1>1, <1>5 DEF InsertRole, Keep, To
    <2> QED BY <1>2, <2>1, KeepInv DEF SeedStages
  <1>6. CASE InsertRole(s) /\ seeding'[s] # "ended"
    <2>1. /\ seeding' = [seeding EXCEPT ![s] = "grant"] /\ roles' = roles \union {Role(s).name}
          /\ UNCHANGED <<granted, setActive, question, active, options, position, option, mixed>>
      BY <1>1, <1>6 DEF InsertRole, Keep, To
    <2>2. SeedingTypeOK'
      BY <1>1, <1>4, <2>1 DEF SeedingTypeOK, SeedStages
    <2>3. PlaceFits(s)'
      BY <1>1, <1>2, <2>1 DEF PlaceFits, RoleStages, EntryStages, RolesOf
    <2>4. Progress(s) => Progress(s)'
      BY <1>1, <1>2, <2>1 DEF Progress, RoleStages, EntryStages, RolesOf, RoleGranted
    <2> QED BY <1>2, <2>1, <2>2, <2>3, <2>4, StepOfOneStart
  <1>7. CASE GrantPermission(s)
    <2>1. PICK p \in Role(s).permissions : granted' = granted \union {<<Role(s).name, p>>}
      BY <1>7 DEF GrantPermission
    <2>2. /\ seeding' = [seeding EXCEPT ![s] = "grant"]
          /\ UNCHANGED <<roles, setActive, question, active, options, position, option, mixed>>
      BY <1>7 DEF GrantPermission, To
    <2>3. SeedingTypeOK'
      BY <1>1, <1>4, <2>1, <2>2 DEF SeedingTypeOK, SeedStages
    <2>4. PlaceFits(s)'
      BY <1>1, <1>2, <2>2 DEF PlaceFits, RoleStages, EntryStages, RolesOf
    <2>5. Progress(s) => Progress(s)'
      BY <1>1, <1>2, <2>1, <2>2 DEF Progress, RoleStages, EntryStages, RolesOf, RoleGranted
    <2> QED BY <1>2, <2>2, <2>3, <2>4, <2>5, StepOfOneStart
  <1>8. CASE NextRole(s) /\ position[s] = n
    <2>1. /\ seeding' = [seeding EXCEPT ![s] = "set"]
          /\ position' = [position EXCEPT ![s] = 1]
          /\ {Role(s).name} \X Role(s).permissions \subseteq granted
          /\ UNCHANGED <<seedTables, option, mixed>>
      BY <1>8 DEF NextRole, To, RolesOf
    <2>2. SeedingTypeOK'
      BY <1>1, <2>1 DEF SeedingTypeOK, SeedStages, seedTables
    <2>3. seeding'[s] = "set" /\ position'[s] = 1 /\ 1 \in DOMAIN EntriesOf(s)
      BY <1>1, <2>1, EntryLists DEF SeedingTypeOK
    <2>4. PlaceFits(s)'
      BY <2>3 DEF PlaceFits, RoleStages, EntriesOf
    <2>5. ASSUME Progress(s), NEW i \in DOMAIN RolesOf(s) PROVE RoleGranted(s, i)'
      <3>1. i < position[s] \/ i = position[s]
        BY <1>3, <1>8
      <3>2. CASE i = position[s]
        BY <2>1, <3>2 DEF RoleGranted, Role, RolesOf, seedTables
      <3>3. CASE i < position[s]
        BY <2>1, <2>5, <3>3 DEF Progress, RoleGranted, RolesOf, seedTables
      <3> QED BY <3>1, <3>2, <3>3
    <2>6. Progress(s) => Progress(s)'
      BY <2>3, <2>5 DEF Progress, EntryStages, RolesOf
    <2>7. \A t \in Starts \ {s} : position'[t] = position[t] /\ option'[t] = option[t]
      BY <1>1, <2>1 DEF SeedingTypeOK
    <2> QED BY <1>2, <2>1, <2>2, <2>4, <2>6, <2>7, StepOfOneStart
  <1>9. CASE NextRole(s) /\ position[s] # n
    <2>1. /\ seeding' = [seeding EXCEPT ![s] = "selectRole"]
          /\ position' = [position EXCEPT ![s] = @ + 1]
          /\ {Role(s).name} \X Role(s).permissions \subseteq granted
          /\ UNCHANGED <<seedTables, option, mixed>>
      BY <1>9 DEF NextRole, To, RolesOf
    <2>2. SeedingTypeOK'
      BY <1>1, <2>1 DEF SeedingTypeOK, SeedStages, seedTables
    <2>3. seeding'[s] = "selectRole" /\ position'[s] = position[s] + 1
      BY <1>1, <2>1 DEF SeedingTypeOK
    <2>4. PlaceFits(s)'
      BY <1>3, <1>9, <2>3 DEF PlaceFits, EntryStages, RolesOf
    <2>5. ASSUME Progress(s), NEW i \in DOMAIN RolesOf(s), i < position[s] + 1
          PROVE  RoleGranted(s, i)'
      <3>1. i < position[s] \/ i = position[s]
        BY <1>3, <2>5
      <3>2. CASE i = position[s]
        BY <2>1, <3>2 DEF RoleGranted, Role, RolesOf, seedTables
      <3>3. CASE i < position[s]
        BY <2>1, <2>5, <3>3 DEF Progress, RoleGranted, RolesOf, seedTables
      <3> QED BY <3>1, <3>2, <3>3
    <2>6. Progress(s) => Progress(s)'
      BY <2>3, <2>5 DEF Progress, EntryStages, RolesOf, RoleStages
    <2>7. \A t \in Starts \ {s} : position'[t] = position[t] /\ option'[t] = option[t]
      BY <1>1, <2>1 DEF SeedingTypeOK
    <2> QED BY <1>2, <2>1, <2>2, <2>4, <2>6, <2>7, StepOfOneStart
  <1> QED BY <1>5, <1>6, <1>7, <1>8, <1>9

LEMMA QuestionInv ==
  ASSUME SeedingInv, NEW s \in Starts,
         \/ UpsertQuestionnaireSet(s) \/ InsertQuestion(s) \/ UpdateQuestion(s)
         \/ DeactivateMissing(s)
  PROVE  SeedingInv'
  <1> DEFINE e == Entry(s)
  <1>1. /\ seeding \in [Starts -> SeedStages] /\ SeedingTypeOK /\ PlaceFits(s)
        /\ question \in [QuestionKeys -> Releases \union {NoRelease}]
    BY DEF SeedingInv, SeedingTypeOK
  <1>2. seeding[s] \in EntryStages /\ s \in Running
    BY DEF UpsertQuestionnaireSet, InsertQuestion, UpdateQuestion, DeactivateMissing, Keep, To,
           EntryStages, Running
  <1>3. position[s] \in DOMAIN EntriesOf(s) /\ e = EntriesOf(s)[position[s]]
    BY <1>1, <1>2 DEF PlaceFits, Entry, EntriesOf
  <1>4. e.key \in QuestionKeys /\ ReleaseOf[s] \in Releases
    BY <1>3, EntryLists
  <1> HIDE DEF e
  <1>5. CASE UpsertQuestionnaireSet(s)
    <2>1. /\ seeding' = [seeding EXCEPT ![s] = "select"] /\ seeding[s] = "set" /\ setActive' = TRUE
          /\ UNCHANGED <<roles, granted, question, active, options, position, option, mixed>>
      BY <1>5 DEF UpsertQuestionnaireSet, To
    <2>2. SeedingTypeOK'
      BY <1>1, <2>1 DEF SeedingTypeOK, SeedStages
    <2>3. PlaceFits(s)'
      BY <1>1, <1>2, <2>1 DEF PlaceFits, RoleStages, EntryStages, EntriesOf
    <2>4. seeding'[s] = "select" /\ position'[s] = 1 /\ \A i \in DOMAIN EntriesOf(s) : ~(i < 1)
      BY <1>1, <2>1, EntryLists DEF PlaceFits
    <2>5. Progress(s) => Progress(s)'
      BY <2>1, <2>4 DEF Progress, RoleStages, RolesOf, EntriesOf, RoleGranted
    <2> QED BY <1>2, <2>1, <2>2, <2>3, <2>5, StepOfOneStart
  <1>6. CASE InsertQuestion(s) /\ seeding'[s] = "ended"
    <2>1. Keep(s, seeding[s], "ended")
      BY <1>1, <1>6 DEF InsertQuestion, Keep, To
    <2> QED BY <1>2, <2>1, KeepInv DEF SeedStages
  <1>7. CASE (InsertQuestion(s) /\ seeding'[s] # "ended") \/ UpdateQuestion(s)
    <2>1. /\ seeding' = [seeding EXCEPT ![s] = "clear"] /\ seeding[s] \in {"insert", "update"}
          /\ question' = [question EXCEPT ![e.key] = ReleaseOf[s]]
          /\ active' = active \union {e.key}
          /\ UNCHANGED <<roles, granted, setActive, options, position, option, mixed>>
      BY <1>1, <1>7 DEF InsertQuestion, UpdateQuestion, WriteQuestion, Keep, To, e
    <2>2. SeedingTypeOK'
      BY <1>1, <1>4, <2>1 DEF SeedingTypeOK, SeedStages
    <2>3. PlaceFits(s)'
      BY <1>1, <1>2, <2>1 DEF PlaceFits, RoleStages, EntryStages, EntriesOf
    <2>4. EntryWritten(s, position[s])'
      BY <1>1, <1>3, <1>4, <2>1 DEF EntryWritten, EntriesOf
    <2>5. ASSUME NEW i \in DOMAIN EntriesOf(s), EntryDone(s, i)
          PROVE  EntryDone(s, i)'
      BY <1>1, <1>4, <2>1, <2>5, EntryLists DEF EntryDone, EntryWritten, OptionsAre, EntriesOf
    <2>6. seeding'[s] = "clear" /\ position'[s] = position[s]
      BY <1>1, <2>1
    <2>7. Progress(s) => Progress(s)'
      BY <2>1, <2>4, <2>5, <2>6 DEF Progress, RoleStages, EntryStages, RolesOf, EntriesOf,
                                    RoleGranted
    <2> QED BY <1>2, <2>1, <2>2, <2>3, <2>7, StepOfOneStart
  <1>8. CASE DeactivateMissing(s)
    <2>1. /\ seeding' = [seeding EXCEPT ![s] = "verify"] /\ seeding[s] = "deactivate"
          /\ active' = active \intersect ActiveKeys(s)
          /\ UNCHANGED <<roles, granted, setActive, question, options, position, option, mixed>>
      BY <1>8 DEF DeactivateMissing, To
    <2>2. SeedingTypeOK'
      BY <1>1, <2>1 DEF SeedingTypeOK, SeedStages
    <2>3. PlaceFits(s)' /\ seeding'[s] = "verify"
      BY <1>1, <2>1 DEF PlaceFits, RoleStages, EntryStages
    <2>4. ASSUME NEW i \in DOMAIN EntriesOf(s), EntryDone(s, i)
          PROVE  EntryDone(s, i)'
      BY <2>1, <2>4, EntryLists DEF EntryDone, EntryWritten, OptionsAre, EntriesOf
    <2>5. (\A i \in DOMAIN EntriesOf(s) : EntryDone(s, i)) => ActiveKeys(s) \subseteq active
      BY EntryLists DEF EntryDone, EntryWritten
    <2>6. ActiveKeys(s)' = ActiveKeys(s)
      BY DEF ActiveKeys
    <2>7. Progress(s) => active' = ActiveKeys(s)'
      BY <2>1, <2>5, <2>6 DEF Progress
    <2>8. Progress(s) => Progress(s)'
      BY <2>1, <2>3, <2>4, <2>7 DEF Progress, RoleStages, EntryStages, RolesOf, EntriesOf,
                                    RoleGranted
    <2> QED BY <1>2, <2>1, <2>2, <2>3, <2>8, StepOfOneStart
  <1> QED BY <1>5, <1>6, <1>7, <1>8

\* NextEntry after the first n options of the question have been written.
LEMMA NextEntryInv ==
  ASSUME SeedingInv, NEW s \in Running, seeding[s] \in {"clear", "option"},
         NEW n \in Nat, n <= Len(Entry(s).options), NextEntry(s, n + 1),
         UNCHANGED <<roles, granted, setActive, question, active, mixed>>,
         options' \in [QuestionKeys \X OptionValues -> 0 .. MaxRows],
         s \notin mixed =>
           \A k \in QuestionKeys, o \in OptionValues :
             options'[<<k, o>>] = IF k = Entry(s).key THEN Cardinality(Occurrences(Entry(s), o, n))
                                                      ELSE options[<<k, o>>]
  PROVE  SeedingInv'
  <1> DEFINE e == Entry(s)
             last == Len(EntriesOf(s))
  <1>1. /\ s \in Starts /\ SeedingTypeOK /\ PlaceFits(s)
        /\ seeding \in [Starts -> SeedStages] /\ position \in [Starts -> Nat]
        /\ option \in [Starts -> Nat]
    BY DEF SeedingInv, SeedingTypeOK, Running
  <1>2. /\ position[s] \in DOMAIN EntriesOf(s) /\ e = EntriesOf(s)[position[s]]
        /\ DOMAIN EntriesOf(s) = 1 .. last /\ last \in Nat \ {0}
        /\ e.options \in Seq(OptionValues) /\ e.key \in QuestionKeys
    BY <1>1, EntryLists DEF PlaceFits, Entry, EntriesOf, EntryStages
  <1> PICK p \in DOMAIN EntriesOf(s) : p = position[s]
    BY <1>2
  <1>3. s \notin mixed => OptionsAre(s, p, n)'
    <2>1. EntriesOf(s)[p] = Entry(s) /\ EntriesOf(s)[p].key \in QuestionKeys
      BY <1>2
    <2>2. s \notin mixed =>
            \A o \in OptionValues : options'[<<EntriesOf(s)[p].key, o>>] =
              Cardinality(Occurrences(EntriesOf(s)[p], o, n))
      BY <2>1
    <2> QED BY <2>2 DEF OptionsAre, EntriesOf, Occurrences
  <1>4. EntryWritten(s, p) => EntryWritten(s, p)'
    BY DEF EntryWritten, EntriesOf
  <1>5. ASSUME s \notin mixed, NEW i \in DOMAIN EntriesOf(s), i < position[s], EntryDone(s, i)
        PROVE  EntryDone(s, i)'
    <2>1. EntriesOf(s)[i].key # EntriesOf(s)[p].key /\ EntriesOf(s)[i].key \in QuestionKeys
      <3>1. i # p
        BY <1>2, <1>5
      <3> QED BY <1>1, <3>1, EntryLists
    <2> QED BY <1>2, <1>5, <2>1 DEF EntryDone, EntryWritten, OptionsAre, EntriesOf, Occurrences
  <1> HIDE DEF e
  <1>6. CASE n + 1 <= Len(e.options)
    <2>1. /\ seeding' = [seeding EXCEPT ![s] = "option"] /\ option' = [option EXCEPT ![s] = n + 1]
          /\ UNCHANGED position
      BY <1>6 DEF NextEntry, e
    <2>2. seeding'[s] = "option" /\ option'[s] = n + 1 /\ position'[s] = position[s]
      BY <1>1, <2>1
    <2>3. SeedingTypeOK'
      BY <1>1, <2>1 DEF SeedingTypeOK, SeedStages
    <2>4. PlaceFits(s)'
      <3>1. n + 1 \in DOMAIN e.options
        BY <1>2, <1>6
      <3> QED BY <1>2, <2>2, <3>1 DEF PlaceFits, RoleStages, EntriesOf, Entry, e
    <2>5. Progress(s) /\ s \notin mixed => Progress(s)'
      <3>1. option'[s] - 1 = n
        BY <2>2
      <3> QED BY <1>3, <1>4, <1>5, <2>1, <2>2, <3>1
              DEF Progress, RoleStages, EntryStages, RolesOf, EntriesOf, RoleGranted
    <2>6. \A t \in Starts \ {s} : position'[t] = position[t] /\ option'[t] = option[t]
      BY <1>1, <2>1
    <2> QED BY <2>1, <2>3, <2>4, <2>5, <2>6, StepOfOneStart
  <1>7. CASE ~(n + 1 <= Len(e.options))
    <2> DEFINE st == IF position[s] < last THEN "select" ELSE "deactivate"
               at == IF position[s] < last THEN position[s] + 1 ELSE position[s]
    <2>1. /\ seeding' = [seeding EXCEPT ![s] = st] /\ option' = [option EXCEPT ![s] = 1]
          /\ position' = [position EXCEPT ![s] = at]
      BY <1>1, <1>7 DEF NextEntry, e, EntriesOf
    <2>2. seeding'[s] = st /\ position'[s] = at /\ at \in DOMAIN EntriesOf(s)
      BY <1>1, <1>2, <2>1
    <2>3. n = Len(e.options)
      BY <1>2, <1>7 DEF e
    <2>4. SeedingTypeOK'
      BY <1>1, <1>2, <2>1 DEF SeedingTypeOK, SeedStages
    <2>5. PlaceFits(s)'
      BY <1>2, <2>2 DEF PlaceFits, RoleStages, EntriesOf
    <2>6. Progress(s) /\ s \notin mixed => EntryDone(s, p)'
      <3>1. s \notin mixed => OptionsAre(s, p, Len(EntriesOf(s)[p].options))'
        BY <1>2, <1>3, <2>3 DEF OptionsAre, EntriesOf, Occurrences
      <3>2. Progress(s) => EntryWritten(s, p)
        BY DEF Progress
      <3> QED BY <1>4, <3>1, <3>2 DEF EntryDone, EntryWritten, OptionsAre, EntriesOf, Occurrences
    <2>7. ASSUME Progress(s), s \notin mixed, NEW i \in DOMAIN EntriesOf(s),
                 i < at \/ st = "deactivate"
          PROVE  EntryDone(s, i)'
      <3>1. i < position[s] \/ i = position[s]
        BY <1>2, <2>7
      <3>2. i < position[s] => EntryDone(s, i)
        BY <2>7 DEF Progress, EntryStages
      <3>3. CASE i = p
        <4>1. EntryDone(s, p)'
          BY <2>6, <2>7
        <4> QED BY <3>3, <4>1 DEF EntryDone, EntryWritten, OptionsAre
      <3> QED BY <1>5, <2>7, <3>1, <3>2, <3>3
    <2>8. Progress(s) /\ s \notin mixed => Progress(s)'
      BY <2>1, <2>2, <2>7 DEF Progress, RoleStages, EntryStages, RolesOf, EntriesOf, RoleGranted
    <2>9. \A t \in Starts \ {s} : position'[t] = position[t] /\ option'[t] = option[t]
      BY <1>1, <2>1
    <2> HIDE DEF st
    <2> QED BY <2>1, <2>4, <2>5, <2>8, <2>9, StepOfOneStart
  <1> QED BY <1>6, <1>7

LEMMA OptionInv ==
  ASSUME SeedingInv, NEW s \in Starts, ClearOptions(s) \/ InsertOption(s)
  PROVE  SeedingInv'
  <1> DEFINE e == Entry(s)
  <1>1. /\ SeedingTypeOK /\ PlaceFits(s) /\ s \in Running
        /\ options \in [QuestionKeys \X OptionValues -> 0 .. MaxRows] /\ MaxRows \in Nat
        /\ seeding[s] \in {"clear", "option"}
    BY SeedingAssumption DEF ClearOptions, InsertOption, Running, SeedingInv, SeedingTypeOK
  <1>2. /\ e.options \in Seq(OptionValues) /\ Len(e.options) \in Nat
        /\ DOMAIN e.options = 1 .. Len(e.options) /\ e.key \in QuestionKeys
    <2>1. position[s] \in DOMAIN EntriesOf(s) /\ e = EntriesOf(s)[position[s]]
      BY <1>1 DEF PlaceFits, EntryStages, Entry, EntriesOf
    <2>2. e.options \in Seq(OptionValues) /\ e.key \in QuestionKeys
      BY <2>1, EntryLists
    <2> QED BY <2>2
  <1> HIDE DEF e
  <1>3. CASE ClearOptions(s)
    <2>1. /\ options' = [p \in DOMAIN options |-> IF p[1] = e.key THEN 0 ELSE options[p]]
          /\ NextEntry(s, 0 + 1)
          /\ UNCHANGED <<roles, granted, setActive, question, active, mixed>>
      BY <1>3 DEF ClearOptions, e
    <2>2. options' \in [QuestionKeys \X OptionValues -> 0 .. MaxRows]
      BY <1>1, <2>1
    <2>3. ASSUME NEW k \in QuestionKeys, NEW o \in OptionValues
          PROVE  options'[<<k, o>>] =
                   IF k = e.key THEN Cardinality(Occurrences(e, o, 0)) ELSE options[<<k, o>>]
      BY <1>1, <2>1, CountingOptions
    <2>4. /\ NextEntry(s, 0 + 1) /\ 0 <= Len(Entry(s).options)
          /\ \A k \in QuestionKeys, o \in OptionValues :
               options'[<<k, o>>] = IF k = Entry(s).key THEN Cardinality(Occurrences(Entry(s), o, 0))
                                                        ELSE options[<<k, o>>]
      BY <1>2, <2>1, <2>3 DEF e
    <2> QED BY <1>1, <2>1, <2>2, <2>4, NextEntryInv
  <1>4. CASE InsertOption(s)
    <2> DEFINE v == e.options[option[s]]
               p == <<e.key, v>>
    <2>1. /\ seeding[s] = "option" /\ option[s] \in DOMAIN e.options
          /\ option[s] \in Nat \ {0} /\ option[s] <= Len(e.options) /\ v \in OptionValues
      BY <1>1, <1>2, <1>4 DEF InsertOption, PlaceFits, e
    <2>2. /\ options[p] < MaxRows /\ options' = [options EXCEPT ![p] = @ + 1]
          /\ NextEntry(s, option[s] + 1)
          /\ UNCHANGED <<roles, granted, setActive, question, active, mixed>>
      BY <1>4 DEF InsertOption, e
    <2>3. p \in QuestionKeys \X OptionValues /\ options[p] \in 0 .. MaxRows
      BY <1>1, <1>2, <2>1
    <2>4. options' \in [QuestionKeys \X OptionValues -> 0 .. MaxRows]
      BY <1>1, <2>2, <2>3
    <2> PICK n \in Nat : n = option[s]
      BY <2>1
    <2>5. ASSUME s \notin mixed, NEW k \in QuestionKeys, NEW o \in OptionValues
          PROVE  options'[<<k, o>>] =
                   IF k = e.key THEN Cardinality(Occurrences(e, o, n)) ELSE options[<<k, o>>]
      <3>1. options[<<e.key, o>>] = Cardinality(Occurrences(e, o, n - 1))
        BY <1>1, <2>1, <2>5 DEF SeedingInv, Progress, OptionsAre, Entry, EntriesOf, e
      <3>2. n - 1 \in Nat /\ (n - 1) + 1 = n
        BY <2>1
      <3>3. Cardinality(Occurrences(e, o, n)) =
              Cardinality(Occurrences(e, o, n - 1)) + (IF v = o THEN 1 ELSE 0)
        BY <3>2, CountingOptions
      <3>4. <<k, o>> \in QuestionKeys \X OptionValues /\ (<<k, o>> = p <=> k = e.key /\ o = v)
        BY <2>5
      <3>5. Cardinality(Occurrences(e, o, n - 1)) \in Nat
        BY <3>2, CountingOptions
      <3> HIDE DEF v, p
      <3> QED BY <1>1, <2>2, <2>3, <3>1, <3>3, <3>4, <3>5
    <2>6. /\ NextEntry(s, n + 1) /\ n <= Len(Entry(s).options)
          /\ s \notin mixed =>
               \A k \in QuestionKeys, o \in OptionValues :
                 options'[<<k, o>>] =
                   IF k = Entry(s).key THEN Cardinality(Occurrences(Entry(s), o, n))
                                       ELSE options[<<k, o>>]
      BY <2>1, <2>2, <2>5 DEF e
    <2> QED BY <1>1, <2>2, <2>4, <2>6, NextEntryInv
  <1> QED BY <1>3, <1>4

LEMMA SeedingNextKeepsInv ==
  ASSUME SeedingInv, [SeedingNext]_seedVars
  PROVE  SeedingInv'
  <1>1. CASE UNCHANGED seedVars
    <2>1. UNCHANGED <<seedTables, seeding, position, option, mixed>>
      BY <1>1 DEF seedVars
    <2>2. SeedingTypeOK'
      BY <2>1 DEF SeedingInv, SeedingTypeOK, seedTables
    <2>3. ASSUME NEW s \in Starts PROVE PlaceFits(s)' /\ (Progress(s) => Progress(s)')
      <3>1. PlaceFits(s)'
        BY <2>1 DEF SeedingInv, PlaceFits, RolesOf, EntriesOf, Entry
      <3>2. Progress(s) => Progress(s)'
        BY <2>1 DEF Progress, RolesOf, EntriesOf, RoleGranted, EntryDone, EntryWritten, OptionsAre,
                    ActiveKeys, seedTables, Occurrences
      <3> QED BY <3>1, <3>2
    <2>4. Running' = Running /\ mixed' = mixed
      BY <2>1 DEF Running
    <2>5. \A s \in Running : s \in Starts
      BY DEF Running
    <2> QED BY <2>2, <2>3, <2>4, <2>5 DEF SeedingInv
  <1>2. ASSUME NEW s \in Starts, Boot(s) PROVE SeedingInv'
    BY <1>2, BootInv
  <1>3. ASSUME NEW s \in Starts, EndEarly(s) PROVE SeedingInv'
    BY <1>3, KeepInv DEF EndEarly, SeedStages
  <1>4. ASSUME NEW s \in Starts, SelectRole(s) PROVE SeedingInv'
    <2> PICK st \in {"grant", "insertRole"} : Keep(s, "selectRole", st)
      BY <1>4 DEF SelectRole
    <2>1. seeding[s] = "selectRole" /\ s \in Running
      BY DEF Keep, To, Running
    <2> QED BY <2>1, KeepInv DEF SeedStages, RoleStages
  <1>5. ASSUME NEW s \in Starts, SelectQuestion(s) PROVE SeedingInv'
    <2> PICK st \in {"insert", "update"} : Keep(s, "select", st)
      BY <1>5 DEF SelectQuestion
    <2>1. seeding[s] = "select" /\ s \in Running
      BY DEF Keep, To, Running
    <2> QED BY <2>1, KeepInv DEF SeedStages
  <1>6. ASSUME NEW s \in Starts, VerifyStudioDefault(s) PROVE SeedingInv'
    <2> PICK st \in {"serving", "ended"} : Keep(s, "verify", st)
      BY <1>6 DEF VerifyStudioDefault
    <2>1. seeding[s] = "verify" /\ s \in Running
      BY DEF Keep, To, Running
    <2> QED BY <2>1, KeepInv DEF SeedStages
  <1> QED BY <1>1, <1>2, <1>3, <1>4, <1>5, <1>6, RoleInv, QuestionInv, OptionInv DEF SeedingNext

\* Positions, rows and marks keep their types, and what a start that runs alone
\* has written so far stays as it wrote it until it serves (SeedRoles,
\* SeedQuestionnaires).
THEOREM SeedingKeepsProgress == SeedingSpec => []SeedingInv
  <1>1. SeedingInit => SeedingInv
    <2> SUFFICES ASSUME SeedingInit PROVE SeedingInv
      OBVIOUS
    <2>1. SeedingTypeOK
      <3>1. question \in [QuestionKeys -> Releases \union {NoRelease}]
        BY DEF SeedingInit
      <3>2. options \in [QuestionKeys \X OptionValues -> 0 .. MaxRows]
        <4>1. 0 \in 0 .. MaxRows
          BY SeedingAssumption
        <4> QED BY <4>1 DEF SeedingInit
      <3>3. /\ seeding \in [Starts -> SeedStages]
            /\ position \in [Starts -> Nat] /\ option \in [Starts -> Nat]
        BY DEF SeedingInit, SeedStages
      <3>4. roles = {} /\ granted = {} /\ setActive = FALSE /\ active = {} /\ mixed = {}
        BY DEF SeedingInit
      <3> QED BY <3>1, <3>2, <3>3, <3>4 DEF SeedingTypeOK
    <2>2. ASSUME NEW s \in Starts PROVE PlaceFits(s) /\ s \notin Running
      BY DEF SeedingInit, PlaceFits, Running, RoleStages, EntryStages
    <2>3. Running = {}
      BY <2>2 DEF Running
    <2> QED BY <2>1, <2>2, <2>3 DEF SeedingInv
  <1> QED BY <1>1, SeedingNextKeepsInv, PTL DEF SeedingSpec

LEMMA ProgressIsTheRelease ==
  ASSUME SeedingInv, NEW s \in Starts \ mixed, seeding[s] = "verify"
  PROVE  HoldsRelease(s)
  <1>1. Progress(s)
    BY DEF SeedingInv, Running
  <1>2. ASSUME NEW r \in ToSet(RoleList[ReleaseOf[s]])
        PROVE  {r.name} \X r.permissions \subseteq granted
    <2>1. PICK i \in DOMAIN RolesOf(s) : r = RolesOf(s)[i]
      BY RoleLists DEF RolesOf
    <2> QED BY <1>1, <2>1 DEF Progress, RoleGranted, RoleStages
  <1>3. active = ActiveKeys(s)
    BY <1>1 DEF Progress
  <1>4. ASSUME NEW q \in ToSet(QuestionList[ReleaseOf[s]])
        PROVE  /\ question[q.key] = ReleaseOf[s]
               /\ \A o \in OptionValues :
                    options[<<q.key, o>>] = Cardinality({i \in DOMAIN q.options : q.options[i] = o})
    <2>1. PICK i \in DOMAIN EntriesOf(s) : q = EntriesOf(s)[i]
      BY EntryLists DEF EntriesOf
    <2>2. EntryDone(s, i)
      BY <1>1 DEF Progress
    <2>3. q.options \in Seq(OptionValues)
      BY <2>1, EntryLists
    <2>4. \A o : Occurrences(q, o, Len(q.options)) = {j \in DOMAIN q.options : q.options[j] = o}
      BY <2>3 DEF Occurrences
    <2> QED BY <2>1, <2>2, <2>4 DEF EntryDone, EntryWritten, OptionsAre
  <1> QED BY <1>2, <1>3, <1>4 DEF HoldsRelease

\* A start that ran alone serves only from tables that hold its release, for
\* every list of roles and questions, and whatever earlier starts left there.
THEOREM SeedingRepairs == SeedingSpec => SeedingAloneRepairs
  <1>1. ASSUME SeedingInv
        PROVE  [\A s \in Starts \ mixed :
                  seeding[s] = "verify" /\ seeding'[s] = "serving" => HoldsRelease(s)]_seedVars
    BY <1>1, ProgressIsTheRelease
  <1> QED BY <1>1, SeedingKeepsProgress, PTL DEF SeedingAloneRepairs

----------------------------------------------------------------------------
(***************************************************************************)
(* All services beside each other.  Each step of the services is a step of *)
(* one component and leaves the others as they are, so that what is proved *)
(* of each holds of all of them together.                                  *)
(***************************************************************************)
LEMMA EachStepIsOneService ==
  ASSUME [ServicesNext]_servicesVars
  PROVE  /\ [TenancyNext]_tenancyVars /\ [IdentityNext]_identityVars /\ [ServerNext]_serverVars
         /\ [DeliveryNext]_deliveryVars /\ [ProviderNext]_providerVars /\ [SeedingNext]_seedVars
         /\ [StudioNext]_studioVars /\ [AccessNext]_accessVars
         /\ [ForwardingNext]_forwardVars /\ [ExportNext]_exportVars
         /\ part' = part
BY DEF ServicesNext, servicesVars, TenancyStep, IdentityStep, ServerStep, DeliveryStep,
       ProviderStep, SeedingStep, StudioStep, AccessStep, ForwardingStep, ExportStep

\* The services together behave as each of the components says.
THEOREM ServicesAreTheirParts ==
  ServicesSpec =>
    /\ TenancySpec /\ IdentitySpec /\ ServerSpec /\ DeliverySpec /\ ProviderSpec
    /\ SeedingSpec /\ StudioSpec /\ AccessSpec /\ ForwardingSpec /\ ExportSpec
  <1>1. ServicesInit =>
          /\ TenancyInit /\ IdentityInit /\ ServerInit /\ DeliveryInit /\ ProviderInit
          /\ SeedingInit /\ StudioInit /\ AccessInit /\ ForwardingInit /\ ExportInit
    BY DEF ServicesInit
  <1> QED BY <1>1, EachStepIsOneService, PTL
          DEF ServicesSpec, TenancySpec, IdentitySpec, ServerSpec, DeliverySpec, ProviderSpec,
              SeedingSpec, StudioSpec, AccessSpec, ForwardingSpec, ExportSpec

\* Every variable of every service keeps its type.
THEOREM ServicesTypes == ServicesSpec => []ServicesTypeOK
  <1>1. ServicesSpec => [](part \in Parts)
    <2>1. ServicesInit => part \in Parts
      BY DEF ServicesInit
    <2>2. part \in Parts /\ [ServicesNext]_servicesVars => (part \in Parts)'
      BY EachStepIsOneService
    <2> QED BY <2>1, <2>2, PTL DEF ServicesSpec
  <1>2. TenancyInv => TenancyTypeOK
    BY DEF TenancyInv, Types
  <1>3. /\ IdentityInv => IdentityTypeOK
        /\ ServerInv => ServerTypeOK
        /\ DeliveryInv => DeliveryTypeOK
        /\ ProviderInv => ProviderTypeOK
        /\ SeedingInv => SeedingTypeOK
        /\ StudioInv => StudioTypeOK
        /\ AccessInv => AccessTypeOK
        /\ ForwardInv => ForwardingTypeOK
        /\ ExportInv => ExportTypeOK
    BY DEF IdentityInv, ServerInv, DeliveryInv, ProviderInv, SeedingInv, StudioInv, AccessInv,
           ForwardInv, ExportInv
  <1>4. /\ part \in Parts /\ TenancyInv /\ IdentityInv /\ ServerInv /\ DeliveryInv /\ ProviderInv
        /\ SeedingInv /\ StudioInv /\ AccessInv /\ ForwardInv /\ ExportInv
        => ServicesTypeOK
    BY <1>2, <1>3 DEF ServicesTypeOK
  <1> QED BY <1>1, <1>4, ServicesAreTheirParts, TenancyInvariant, IdentityInvariant,
             ServerInvariant, DeliveryInvariant, ProviderInvariant, SeedingKeepsProgress,
             StudioInvariant, AccessInvariant, ForwardingInvariant, ExportInvariant, PTL

\* What is proved of the components one by one is true of all services at once.
THEOREM ServicesStaySafe ==
  ServicesSpec =>
    /\ [](SlugsAreUnique /\ OrgsAreAdministered) /\ ChangesAreAuthorised /\ OnlyOverlapLosesUpdates
    /\ [](EmailsAreUnique /\ KeysOpenWhatTheyWereMadeFor)
    /\ [](ProductionIsGuarded /\ NobodyIsCutShort /\ PublishedEventsAreHeard)
    /\ []OnlyFailuresArePassedOver
    /\ [](StoredSettingsAreValid /\ CallsFollowTheSettings) /\ KeysChangeOnRequestOnly
    /\ SeedingAloneRepairs
    /\ []ReadyMeansReady /\ BulksAreWhole
    /\ []RolesAreHonoured
    /\ [](RowsStayInTheirApp /\ MaskingHolds)
    /\ []DatasetsAreSound
BY ServicesAreTheirParts, SlugsStayUnique, OrgsStayAdministered, ChangesStayAuthorised,
   OnlyOverlapLoses, EmailsStayUnique, KeysOpenOnlyThat, ProductionStaysGuarded,
   NobodyGetsCutShort, EventsGetHeard, OnlyFailuresGetPassedOver, StoredSettingsStayValid,
   CallsFollow, KeysChangeOnlyOnRequest, SeedingRepairs, ReadinessIsEarned, BulksStayWhole,
   RolesStayHonoured, RowsStayHome, MasksHold, DatasetsStaySound, PTL
=============================================================================
